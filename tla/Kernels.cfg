SPECIFICATION KernelSpec
CONSTANTS
    Jobs <- MCJobs
    Width = 4
    Lanes = 2
    Extent = 3
    Stale = 15
INVARIANT
    KernelsRight
