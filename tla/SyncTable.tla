----------------------------- MODULE SyncTable -----------------------------
(***************************************************************************)
(* The table dsco_order_sync and the store operations on it                *)
(* (infra/store/dsco_order_sync_store.go).  An order is named by the rank  *)
(* of its dsco_create_time, so "oldest first" is the order on numbers; the *)
(* columns kept are the ones the tasks read back: status,                  *)
(* shipped_tracking_no (a set of tracking numbers) and dsco_invoice_id     *)
(* (empty or the PO number: the task never writes another value).          *)
(***************************************************************************)
EXTENDS Naturals, FiniteSets

CONSTANTS
    Orders,   \* the PO numbers DSCO will ever send, ranked by creation time
    Parcels,  \* the tracking numbers an order is shipped under
    Size,     \* batch size of a scheduled task (jobs.*.size)
    Start     \* statuses rows may already have when the service starts

ASSUME OrdersAssumption  == Orders \subseteq Nat /\ IsFiniteSet(Orders)
ASSUME ParcelsAssumption == IsFiniteSet(Parcels) /\ Parcels # {}
ASSUME SizeAssumption    == Size \in Nat \ {0}
ASSUME StartAssumption   == Start \subseteq 0..3

VARIABLE row   \* row[o]: the row of order o; status 0 means "no row yet"

Row   == [st : 0..6, trk : SUBSET Parcels, inv : BOOLEAN]

\* A row as an INSERT or UpdateStatusAndFields(po, s, "", "") leaves it.
Cleared(s) == [st |-> s, trk |-> {}, inv |-> FALSE]

RowInit == \E f \in [Orders -> Start] : row = [o \in Orders |-> Cleared(f[o])]

-----------------------------------------------------------------------------
(* Queries *)

WithStatus(s) == {o \in Orders : row[o].st = s}

\* Mutant: the newest `limit` rows.
FindNewestByStatus(s, limit) ==
    {o \in WithStatus(s) :
        Cardinality({p \in WithStatus(s) : p > o}) < limit}

\* FindByStatus: the oldest `limit` rows of that status.
FindByStatus(s, limit) ==
    {o \in WithStatus(s) :
        Cardinality({p \in WithStatus(s) : p < o}) < limit}

\* FindByStatusAndPONumber: the order asked for, if it still has the status.
FindByStatusAndPONumber(s, only) == only \cap WithStatus(s)

\* The batch of a task whose input status is s: the order an operator asked
\* for, or the oldest Size.
Batch(s, only) == IF only = {} THEN FindByStatus(s, Size)
                  ELSE FindByStatusAndPONumber(s, only)

\* GetMaxDSCOCreateTime as its caller uses it: o is not older than the newest
\* order stored; every order is as long as the table is empty.
SinceMaxCreateTime(o) == \A p \in Orders : row[p].st # 0 => p <= o

-----------------------------------------------------------------------------
(* Updates; none of them looks at the status the row has now. *)

Upsert(o, s)                   == row' = [row EXCEPT ![o] = Cleared(s)]
UpdateStatusAndFields(o, s)    == row' = [row EXCEPT ![o] = Cleared(s)]
UpdateStatus(o, s)             == row' = [row EXCEPT ![o].st = s]
UpdateStatusAndTrackingNo(o, s, t) ==
    row' = [row EXCEPT ![o].st = s, ![o].trk = t]
UpdateStatusAndInvoiceID(o, s) ==
    row' = [row EXCEPT ![o].st = s, ![o].inv = TRUE]

-----------------------------------------------------------------------------
\* The tasks walk their batch oldest first.
IsOldest(o, S) == o \in S /\ \A p \in S : o <= p
=============================================================================
