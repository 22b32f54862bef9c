SPECIFICATION FairSpec
CONSTANTS
    w1 = w1
    s1 = s1
    s2 = s2
    Warehouses = {w1}
    Skus = {s1, s2}
    MaxQty = 1
    PageLength = 2
    Size = 1
    SyncModes = {TRUE, FALSE}
    Stream = TRUE
    DiffOnly = {TRUE, FALSE}
    Events = 3
INVARIANT TypeOK
PROPERTY SuccessMeansAccepted
PROPERTY StockReachesDsco
