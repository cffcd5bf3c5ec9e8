CONSTANTS
    j1 = j1
    j2 = j2
    j3 = j3
    Jobs = {j1, j2}
    MaxOffset = 2
    MaxJobs = 2
    MaxTimeouts = 1
    MaxDisconnects = 1
    MaxCrashes = 1
    Siblings = FALSE
    None = None
SPECIFICATION FairSpec
INVARIANTS NewBatchesAreOwn
PROPERTY EveryJobEnds
