SPECIFICATION Spec
CONSTANTS
    None = None
    Start <- Project
    Shapes <- DrawnShapes
    Reach = 4
    MaxEdits = 3
    Races = {}
INVARIANTS TypeOK ModelIsCoherent LoadsHaveABearer FootingsKnowTheirGround
PROPERTIES CutsChangeNothing
CHECK_DEADLOCK FALSE
