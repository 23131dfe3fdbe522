SPECIFICATION SqySpec
CONSTANTS
    FRAME <- MCFrame
    Volumes <- MCVolumes
    Others <- MCOthers
    Commands <- MCCommands
    Pipelines <- MCPipelines
    FirstNegative = 6
    Memory <- MCMemory
    MaxCommands = 4
CHECK_DEADLOCK FALSE
INVARIANT TiffsKept
