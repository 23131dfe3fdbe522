SPECIFICATION ChainSpec
CONSTANTS
    Lengths = {1, 4, 5}
    Compressing = {2, 3}
    HasScratchpad = TRUE
    ErrorCodes <- MCErrorCodes
INVARIANTS
    TypeOK
    BuffersDistinct
    ResultInOut
    SuccessMeansRestored
PROPERTIES
    CallsEnd
    ImplementsFilterChain
