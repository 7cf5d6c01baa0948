SPECIFICATION Spec
CONSTANTS
    Members = {m1, m2}
    Rebars = {r1, r2}
    None = None
    MaxHistory = 1
    MaxEdits = 4
    Races = {}
SYMMETRY Symmetric
INVARIANTS TypeOK DisplayIsHonest FreshCageIsOfTheDemands CurrentDocumentIsOfTheCages NumbersNameOneThing
CHECK_DEADLOCK FALSE
