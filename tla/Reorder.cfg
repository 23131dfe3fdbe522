SPECIFICATION Spec
CONSTANTS
    Jobs <- MCJobs
    Levels = {1, 2, 3}
    DefaultTeam = 2
INVARIANTS
    Restored
    InBuffers
    TilesTakenOnce
PROPERTIES
    JobEnds
