CONSTANTS
    j1 = j1
    j2 = j2
    j3 = j3
    Jobs = {j1, j2, j3}
    MaxOffset = 2
    MaxJobs = 2
    MaxTimeouts = 1
    MaxDisconnects = 2
    MaxCrashes = 2
    Siblings = TRUE
    None = None
SYMMETRY Symmetry
CONSTRAINT StillInTurn
SPECIFICATION Spec
INVARIANTS NeverClaimsUnreceived PublishedHasNoGaps AppendsToActive FilesDisjoint
PROPERTIES StaysPublished
