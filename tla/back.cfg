SPECIFICATION Spec
CONSTANTS
    p1 = p1
    p2 = p2
    Orders = {1, 2}
    Parcels = {p1, p2}
    Empty = {}
    Size = 2
    Start = {3}
    PageSize = 1
    Faults = {"fetch", "send", "reject", "late"}
    World = {"warehouse"}
    Enabled = {"ship", "invoice"}
    ManualJobs = {}
    Unmapped = {}
    Banned = {}
    AdminStatuses = {}
SYMMETRY ParcelSymmetry
INVARIANT LocalTrackingConfirmed
INVARIANT InvoiceRecorded
INVARIANT InvoiceOnlyAfterShipment
CHECK_DEADLOCK FALSE
