SPECIFICATION FairSpec
CONSTANTS
    p1 = p1
    Orders = {1, 2}
    Parcels = {p1}
    Empty = {}
    Size = 1
    Start = {0}
    PageSize = 1
    Faults = {}
    World = {}
    Enabled = {"pull", "push", "ack"}
    ManualJobs = {}
    Unmapped = {}
    Banned = {}
    AdminStatuses = {}
PROPERTY OlderOrdersAcknowledged
