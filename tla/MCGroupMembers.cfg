SPECIFICATION FairSpec
CONSTANTS
    a = a
    b = b
    c = c
    NoRow = NoRow
    Users = {a, b, c}
    Creator = a
    Requests = {1, 2}
    Lists <- MCLists
    MaxRequests = 3
    MaxFailures = 1
    MaxDeletedUsers = 1
INVARIANTS ManagedWhenAlone OneRowPerMember
PROPERTIES EveryRequestEnds
CHECK_DEADLOCK FALSE
