SPECIFICATION FairSpec
CONSTANTS
    c1 = c1
    c2 = c2
    c3 = c3
    Commands = {c1, c2}
    MaxAsked = 2
    MaxFaults = 1
    None = None
INVARIANTS OneUpdateAtATime
PROPERTIES EveryCommandEnds LockComesBack
CHECK_DEADLOCK FALSE
