CONSTANTS
    s1 = s1
    s2 = s2
    u1 = u1
    u2 = u2
    r1 = r1
    r2 = r2
    Servers = {s1, s2}
    Recipients = {u1, u2}
    Runs = {r1, r2}
    MaxEvents = 2
    MaxFaults = 1
    None = None
SPECIFICATION FairServicesSpec
INVARIANTS OneLeader NoEventSkipped ToldOnce
PROPERTY EveryoneTold
