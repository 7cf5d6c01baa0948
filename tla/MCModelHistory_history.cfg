\* Edits on the three channels, undo and redo at the limit of the stacks.
SPECIFICATION Spec
CONSTANTS
    Structures = {s1, s2}
    Rebars = {r1, r2}
    Designs = {d1, d2}
    Capacities = {u, c1}
    Mats = {m1, m2}
    None = None
    Unstated = u
    MaxHistory = 2
    Races = {}
    MaxRevision = 2
    MaxEdits = 3
INVARIANTS TypeOK Chained DerivedIsCurrent
PROPERTIES HistoryIsExact
