SPECIFICATION FairSpec
CONSTANTS
    None = None
    Torn = Torn
    Combinations <- MCCombinations
    MaxRecords = 2
    MaxProduced = 2
    MaxEvents = 2
INVARIANTS SavedIsWritten UpToDateIsComplete ExactlyOnce
PROPERTIES CatchesUp
CHECK_DEADLOCK FALSE
