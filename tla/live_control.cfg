SPECIFICATION FairSpec
CONSTANTS
    r1 = r1
    r2 = r2
    op = op
    Registered = {"sku"}
    Skus = {0, 1}
    Operators = {op}
    Runs = {r1, r2}
    MaxStamp = 3
    Faults = {"db", "crash", "session"}
INVARIANT MemoryIsStored
PROPERTY SkuTaskLosesNothing
PROPERTY ScheduleFollowsConfig
PROPERTY ShutdownEnds
