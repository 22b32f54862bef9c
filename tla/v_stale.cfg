SPECIFICATION Spec
CONSTANTS
    w1 = w1
    s1 = s1
    Warehouses = {w1}
    Skus = {s1}
    MaxQty = 1
    PageLength = 2
    Size = 1
    SyncModes = {FALSE}
    Stream = TRUE
    DiffOnly = {TRUE}
    Events = 2
INVARIANT DailySendsLatest
