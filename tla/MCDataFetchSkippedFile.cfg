CONSTANTS
    MaxOffset = 3
    ChunkSize = 2
    MaxSessions = 2
    MaxReadErrors = 0
    PartialFiles = FALSE
    MayStall = FALSE
SPECIFICATION Spec
INVARIANT NothingMissing
