---------------------------- MODULE OrderSyncProps ----------------------------
(***************************************************************************)
(* The correctness properties of OrderSync.  All but the last hold; that   *)
(* one is a statement of the repository's documents the code does not      *)
(* keep.                                                                   *)
(***************************************************************************)
EXTENDS OrderSync

\* LingXing has order o, or answered a create call for it with a success that
\* says nothing, which the push task takes for a created order.
Taken(o) == lx[o].n > 0 \/ lx[o].void

-----------------------------------------------------------------------------
(* State invariants *)

\* A tracking number stored in a row is one DSCO has for that order, however
\* requests time out, fail in part or are processed late, and whatever the
\* operator does to the row: later runs take the row's numbers for reported
\* ones when DSCO cannot be read (ship_to_dsco, "already").
LocalTrackingConfirmed ==
    \A o \in Orders : row[o].trk \subseteq dsco[o].pkg \cup Empty

\* A row with an invoice id belongs to an order DSCO has an invoice of: the
\* id is written after the change log or a lookup confirmed it, and scheduled
\* runs skip such a row for ever.
InvoiceRecorded == \A o \in Orders : row[o].inv => dsco[o].inv > 0

\* DSCO gets an invoice only for an order all of whose goods it has as
\* shipped: the invoice task trusts status 4, which the shipping task writes
\* on what it saw some steps before.  (The operator may break this by hand.)
InvoiceOnlyAfterShipment ==
    4 \notin AdminStatuses =>
        \A o \in Orders : dsco[o].inv > 0 => Goods \subseteq dsco[o].pkg

\* A status the operator does not write by hand is backed by the partner it
\* is about, although the tasks write it after reads that are several steps
\* old, over whatever status the row has by then.  For status 2 that is what
\* LingXing answered: after an empty success it may have no order.
StageEvidence ==
    \A o \in Orders : row[o].st \notin AdminStatuses =>
        /\ row[o].st = 2 => Taken(o)
        /\ row[o].st = 3 => lx[o].rv = "all" \/ dsco[o].st # "created"
        /\ row[o].st = 4 => Goods \subseteq dsco[o].pkg

\* An order is created in LingXing once, whatever fails, is retried or is
\* pulled again, as long as the look-up of existing orders works.
OneLingXingOrder == \A o \in Orders : lx[o].n <= 1

\* DSCO is asked to acknowledge an order only when LingXing has reviewed all
\* of it: between the check and the call nothing takes the review back.
AckOnlyReviewed == \A o \in akq : lx[o].rv = "all"

\* The table has no gap: an order older than a stored one is stored, wherever
\* pages failed and runs were cut off, so the next scheduled pull, which
\* starts at the newest one, reaches all that is missing.  It takes orders
\* that can be decoded and stored and no operator who pulls a later range.
NothingPassed ==
    \A o, p \in Orders : o < p /\ row[p].st # 0 => row[o].st # 0

\* Orders a task works on
PushWork == push.todo
AckWork  == ack.todo \cup ack.need
ShipWork == ship.todo \cup Sent
InvWork  == inv.todo \cup inv.send

\* No two tasks have the same order in their batches at one time, although
\* they share no lock: the status column alone keeps them apart.
OneTaskPerOrder ==
    /\ PushWork \cap (AckWork \cup ShipWork \cup InvWork) = {}
    /\ AckWork \cap (ShipWork \cup InvWork) = {}
    /\ ShipWork \cap InvWork = {}

-----------------------------------------------------------------------------
(* Action properties *)

\* A scheduled pull rewrites no row but that of the newest order stored: the
\* window starts at the greatest creation time, inclusive.
PullRewritesNewestOnly ==
    [][\A o \in Orders :
          pull' # pull /\ row[o].st # 0 /\ row'[o] # row[o] =>
              \A p \in Orders : p > o => row[p].st = 0]_vars

-----------------------------------------------------------------------------
(* The pipeline implements the life cycle of an order. *)

Lifecycle == INSTANCE OrderLifecycle WITH
    stage    <- [o \in Orders |-> row[o].st],
    taken    <- {o \in Orders : Taken(o)},
    reviewed <- {o \in Orders : lx[o].rv = "all" \/ dsco[o].st \notin {"none", "created"}},
    shipped  <- {o \in Orders : Goods \subseteq dsco[o].pkg},
    invoiced <- {o \in Orders : dsco[o].inv > 0}

\* Each step of the four later tasks moves an order by one stage, with the
\* evidence for it, or leaves its stage alone.
LifecycleSpec == Lifecycle!Spec

-----------------------------------------------------------------------------
(* Liveness *)

\* Every order but the newest is acknowledged in the end; the newest is put
\* back to status 1 by every pull.
OlderOrdersAcknowledged ==
    \A o \in Orders : (\E p \in Orders : p > o) => <>(dsco[o].st \in Confirmed)

\* An order waiting for its shipment is shipped, invoiced and closed in the
\* end, also when every change log comes too late for the run that waits.
EventuallyInvoiced ==
    \A o \in Orders : row[o].st = 3 ~> (row[o].st = 5 /\ row[o].inv)

-----------------------------------------------------------------------------
(* A statement of the documents that the code does not keep *)

\* "Running any task again on an order causes no second write, no second
\* report and no status regression" (requirements 7.1): no status goes down.
NoStatusRegression ==
    [][\A o \in Orders : row'[o].st >= row[o].st]_vars
=============================================================================
