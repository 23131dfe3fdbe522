SPECIFICATION Spec
CONSTANTS
    MaxBytes = 7
    MaxThreads = 3
    FrameStep = 0
    ChunksConfigured = 3
    Bound = 2
    IntHalf = 6
    FullTeam = TRUE
    Faults = TRUE
    CutStreams = TRUE
INVARIANTS
    TypeOK
    SlotsDisjoint
    CompactionSafe
    StreamInOrder
    DecodeAccounts
PROPERTIES
    EncodeReturns
