SPECIFICATION Spec
CONSTANTS
    p1 = p1
    Orders = {1}
    Parcels = {p1}
    Empty = {}
    Size = 2
    Start = {0}
    PageSize = 1
    Faults = {}
    World = {}
    Enabled = {"pull", "push"}
    ManualJobs = {}
    Unmapped = {}
    Banned = {}
    AdminStatuses = {}
PROPERTY NoStatusRegression
CHECK_DEADLOCK FALSE
