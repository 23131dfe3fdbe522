SPECIFICATION Spec
CONSTANTS
    Items = {2, 11}
    Width = 2
    Fixed = 4
    DimText = 1
    Pipelines <- AllKinds
    LutEntries = 1
    Overhead = 1
    Growth = 1
    Volumes = 2
    Losses = {0, 1, 10}
    Faults = TRUE
INVARIANTS
    TypeOK
    WithinBuffer
    Framed
    SelfContained
    NoErrorHidden
CHECK_DEADLOCK FALSE
