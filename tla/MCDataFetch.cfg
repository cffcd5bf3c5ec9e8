CONSTANTS
    MaxOffset = 5
    ChunkSize = 2
    MaxSessions = 3
    MaxReadErrors = 1
    PartialFiles = TRUE
    MayStall = TRUE
SPECIFICATION FairSpec
INVARIANTS InOrder NoGapInSession FlowControl
PROPERTIES EverySessionEnds ImplementsRecordDelivery
