SPECIFICATION PSSpec
CONSTANTS
    MaxPieces = 3
    MaxItem = 1
    Requests = {1, 2}
    MaxTeam = 3
INVARIANTS
    TypeOK
    SumsAwaited
    SameAsSerial
PROPERTIES
    SumReturns
