SPECIFICATION Spec
CONSTANTS
    p1 = p1
    Orders = {1, 2}
    Parcels = {p1}
    Empty = {}
    Size = 2
    Start = {1}
    PageSize = 1
    Faults = {"void", "db", "fetch", "send", "abort", "late"}
    World = {"warehouse"}
    Enabled = {"push", "ack", "ship", "invoice"}
    ManualJobs = {}
    Unmapped = {}
    Banned = {}
    AdminStatuses = {}
INVARIANT OneTaskPerOrder
PROPERTY LifecycleSpec
CHECK_DEADLOCK FALSE
