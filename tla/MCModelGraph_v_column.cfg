SPECIFICATION Spec
CONSTANTS
    None = None
    Start <- Project
    Shapes <- DrawnShapes
    Reach = 4
    MaxEdits = 2
    Races = {"cascade"}
INVARIANT ColumnsExist
CHECK_DEADLOCK FALSE
