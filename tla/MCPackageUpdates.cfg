CONSTANTS
    p1 = p1
    p2 = p2
    p3 = p3
    Packages = {p1, p2, p3}
    Ticks = {1, 2}
    Limit = 2
    Touched = {p2}
    MaxChanges = 1
    MaxCrashes = 1
    Deleted = Deleted
SPECIFICATION FairUpdatesSpec
INVARIANT ChangesStand
PROPERTY EveryPackageUpdated
