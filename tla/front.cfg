SPECIFICATION Spec
CONSTANTS
    p1 = p1
    Orders = {1, 2}
    Parcels = {p1}
    Empty = {}
    Size = 2
    Start = {0}
    PageSize = 1
    Faults = {"void", "db", "page", "fetch", "send", "reject", "abort"}
    World = {"cancel", "autoack"}
    Enabled = {"pull", "push", "ack"}
    ManualJobs = {}
    Unmapped = {}
    Banned = {2}
    AdminStatuses = {}
INVARIANT TypeOK
INVARIANT StageEvidence
INVARIANT OneLingXingOrder
INVARIANT AckOnlyReviewed
INVARIANT NothingPassed
PROPERTY PullRewritesNewestOnly
