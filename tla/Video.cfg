SPECIFICATION Spec
CONSTANTS
    Jobs <- MCJobs
    Delay = 2
INVARIANTS
    VideoRestored
