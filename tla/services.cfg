SPECIFICATION ServicesSpec
CONSTANTS
    i1 = i1
    i2 = i2
    p1 = p1
    Orders = {1, 2}
    Parcels = {p1}
    Empty = {}
    Size = 1
    Start = {1}
    PageSize = 1
    Faults = {"void", "fetch", "lookup", "page"}
    World = {"warehouse"}
    Enabled = {"push", "ack", "ship", "invoice"}
    ManualJobs = {}
    Unmapped = {}
    Banned = {}
    AdminStatuses = {}
    CheckMax = 1
    Items = {i1, i2}
    Names = {i1, i2, p1}
    Partner <- Partners2
    Events = 3
    PullBatch = 2
    FirstAtLeast = 2
    StableWait = 2
    IdleWait = 3
    Longest = 9
    Pause = 1
    StreamFaults = {"start", "sync", "read", "list", "payload", "blank", "delete"}
    Clients = {"run1", "run2"}
    Life = 2
    Leeway = 1
    Delay = 1
    TokenFaults = {"lost", "refused", "http", "empty", "noexpiry"}
    Stores = {"x", "y"}
    MSkus = {"m1", "m2"}
    Skus = {"s1", "s2"}
    PairPage = 1
    MaxPairs = 2
    PairFaults = {"fail", "null", "shift"}
    Rows = {1, 2, 3}
    ExportPage = 1
    Threshold = 2
    MaxFiles = 2
    ExportFaults = {"read", "crash", "remove"}
    Letters <- ItemLetters
    SkuLength = 2
    MaxLines = 2
INVARIANT NoFalseAlarm
INVARIANT StreamComplete
INVARIANT NoStreamLeft
INVARIANT LastTokenServes
INVARIANT RefusalIsError
INVARIANT SavedIsMap
INVARIANT SavedIsListing
INVARIANT ExportComplete
INVARIANT CleanEnough
INVARIANT BanSeesOrder
PROPERTY StreamRunsOut
CHECK_DEADLOCK FALSE
