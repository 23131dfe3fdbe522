SPECIFICATION Spec
CONSTANTS
    Items = {4}
    Width = 2
    Fixed = 4
    DimText = 1
    Pipelines <- FilterOnly
    LutEntries = 1
    Overhead = 1
    Growth = 8
    Volumes = 2
    Losses = {0, 1}
    Faults = FALSE
INVARIANTS
    WithinBuffer
