\* A footing is designed, then the capacity of the ground under it is stated.
SPECIFICATION Spec
CONSTANTS
    Structures = {s1}
    Rebars = {r1}
    Designs = {d1}
    Capacities = {u, c1}
    Mats = {m1}
    None = None
    Unstated = u
    MaxHistory = 3
    Races = {}
    MaxRevision = 2
    MaxEdits = 3
INVARIANTS FreshRunIsCurrent
