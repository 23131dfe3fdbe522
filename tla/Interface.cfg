SPECIFICATION Spec
CONSTANTS
    Files <- MCFiles
    Foreign <- MCForeign
    Names <- MCNames
    Texts <- MCTexts
    Filters <- MCFilters
    ShapeOf <- MCShapeOf
    Volumes = {1, 2}
    Fixed = 10
    Window = 2
    Calls = 3
CHECK_DEADLOCK FALSE
INVARIANTS
    Rebuilt
    ReadBack
PROPERTIES
    NothingLost
