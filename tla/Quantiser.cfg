SPECIFICATION Spec
CONSTANTS
    MaxRaw = 4
    Levels = 3
    Signedness = {TRUE, FALSE}
    Weightings <- AllWeightings
    Power <- Square
    Histograms <- OnePeak
    Volumes = 2
INVARIANTS
    TypeOK
    Representative
    OrderKept
    Lossless
PROPERTIES
    EncodeReturns
