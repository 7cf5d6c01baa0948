SPECIFICATION Spec
CONSTANTS
    None = None
    Start <- Portal
    Other <- Cleared
    Widths = {1}
    Names = {"HEB"}
    Models <- Drafted
    Points <- Beside
    MaxHistory = 1
    MaxRequests = 2
    MaxEdits = 1
    Races = {}
INVARIANTS TypeOK FramesAreLinked NothingIsTwice
PROPERTIES GrowthKeepsTheGrid GrowthKeepsItStanding CancelRestores
CHECK_DEADLOCK FALSE
