SPECIFICATION Spec
CONSTANTS
    MaxValue = 2
    MaxLen = 3
    MaxImages = 2
    Threads = {1, 3}
    Thresholds <- MCThresholds
    Modulus = 1000
INVARIANTS
    CountsExact
    Summary
    SupportRight
PROPERTIES
    FillReturns
