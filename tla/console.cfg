SPECIFICATION Spec
CONSTANTS
    p1 = p1
    Orders = {1}
    Parcels = {p1}
    Empty = {}
    Size = 2
    Start = {2}
    PageSize = 1
    Faults = {"late", "decode"}
    World = {"warehouse", "complete"}
    Enabled = {"pull", "ack", "ship", "invoice"}
    ManualJobs = {"pull", "ship"}
    Unmapped = {}
    Banned = {}
    AdminStatuses = {3}
INVARIANT LocalTrackingConfirmed
INVARIANT InvoiceRecorded
INVARIANT InvoiceOnlyAfterShipment
INVARIANT StageEvidence
