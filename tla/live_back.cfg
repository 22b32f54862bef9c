SPECIFICATION FairSpec
CONSTANTS
    p1 = p1
    Orders = {1, 2}
    Parcels = {p1}
    Empty = {}
    Size = 2
    Start = {3}
    PageSize = 1
    Faults = {"late"}
    World = {"warehouse"}
    Enabled = {"ship", "invoice"}
    ManualJobs = {}
    Unmapped = {}
    Banned = {}
    AdminStatuses = {}
PROPERTY EventuallyInvoiced
CHECK_DEADLOCK FALSE
