CONSTANTS
    h1 = h1
    h2 = h2
    h3 = h3
    s1 = s1
    s2 = s2
    NoBatch = NoBatch
    Handlers = {h1, h2, h3}
    Streams <- TwoStreams
    Batches <- FiveBatches
    Existing <- AllRows
    InitActive <- OneInitActive
    Requests <- Uploaders
    PoolSize = 4
SPECIFICATION FairSpec
INVARIANTS TypeOK AtMostOneActive
PROPERTIES StaysPublished EveryRequestEnds SwitchedAllAtOnce ImplementsPublishedBatches
