----------------------------- MODULE OrderSyncInd -----------------------------
(***************************************************************************)
(* The inductive invariants behind the safety properties: what a task      *)
(* holds in its own memory between two steps is tied to what the partner   *)
(* it came from can still take back, and every write is made on the        *)
(* strength of that memory.                                                *)
(***************************************************************************)
EXTENDS OrderSyncProps

\* What DSCO has of an order, with the parcels nothing is sent for.
Known(o) == dsco[o].pkg \cup Empty

\* The tracking numbers the shipping task carries along: those it read are
\* DSCO's (DSCO drops no package), those it will store are DSCO's or in its
\* own request, and a request whose log says "ok" was processed as a whole.
\* The last point needs DSCO to log an order once per request.
TrackInv ==
    \A o \in Orders :
        /\ row[o].trk \subseteq Known(o)
        /\ ship.loc[o] \subseteq Known(o)
        /\ ship.pkg[o] \subseteq dsco[o].pkg
        /\ ship.mark[o] \subseteq Known(o) \cup ship.send[o]
        /\ ship.res[o] = "ok" => ship.send[o] \subseteq dsco[o].pkg
        /\ ship.pend[o] \in {{}, ship.send[o]}
        /\ ship.pc # "wait" => ship.pend[o] = {}
        /\ ship.pc \notin {"wait", "commit"} => ship.res[o] = "none"

\* The invoices the invoice task takes for confirmed are there.
InvoiceInv ==
    \A o \in Orders : row[o].inv \/ o \in inv.ok => dsco[o].inv > 0

\* Orders past their shipment: in the table, in the batch of the invoice
\* task, in its requests, late ones included, and in DSCO's books.
PastShipment ==
    {o \in Orders : \/ row[o].st = 4
                    \/ o \in inv.todo \cup inv.send \cup inv.pend
                    \/ ivq[o] > 0 \/ dsco[o].inv > 0}

\* They are shipped; and an order the shipping task is about to move there
\* will have every parcel with goods in its row.
AfterInv ==
    /\ \A o \in PastShipment : Goods \subseteq dsco[o].pkg
    /\ \A o \in Orders : ship.send[o] # {} => Goods \subseteq ship.mark[o]

\* The look-up of a batch stays good while the batch is worked on: the push
\* task alone creates orders, and each one once.
CreateInv ==
    \A o \in Orders :
        /\ lx[o].n <= 1
        /\ lx[o].rv # "no" => lx[o].n > 0
        /\ o \in push.exist => lx[o].n > 0
        /\ o \in push.todo \ push.exist =>
              /\ push.pc = "work" => lx[o].n = 0
              /\ push.pc = "update" => IF IsOldest(o, push.todo)
                                       THEN Taken(o)
                                       ELSE lx[o].n = 0

\* Orders on their way to an acknowledge are reviewed, and stay so.
AckInv ==
    \A o \in Orders :
        /\ o \in akq => lx[o].rv = "all"
        /\ ack.pc \in {"send", "commit"} /\ o \in ack.need => lx[o].rv = "all"
        /\ o \in ack.conf => dsco[o].st \notin {"none", "created"}

\* The orders that have a row, and those a scheduled pull still has to store.
Stored     == {o \in Orders : row[o].st # 0}
WindowLeft == pull.todo \cup InPage(pull.page)

\* The later tasks work on orders that have a row.
WorkInv == PushWork \cup AckWork \cup ShipWork \cup InvWork \subseteq Stored

\* Orders come in the order of their creation; what a scheduled pull still has
\* to store is not older than any stored order, its page is the oldest part
\* of it.
WindowInv ==
    /\ \A o \in Stored : dsco[o].st # "none"
    /\ \A o, p \in Orders : o < p /\ dsco[p].st # "none" => dsco[o].st # "none"
    /\ pull.pc # "rows" => InPage(pull.page) = {}
    /\ pull.pc # "idle" =>
          \A q \in WindowLeft :
             /\ dsco[q].st # "none"
             /\ \A p \in Stored : p <= q
             /\ q \in InPage(pull.page) => \A t \in pull.todo : q < t

\* Neither the table nor the window of a pull has a gap.
GapInv ==
    /\ NothingPassed
    /\ pull.pc # "idle" =>
          \A q \in WindowLeft, o \in Orders \ Stored : o < q => o \in WindowLeft

\* StageEvidence with what keeps it: DSCO's status never goes back.
EvidenceInv ==
    \A o \in Orders : row[o].st \notin AdminStatuses =>
        /\ row[o].st = 2 => Taken(o)
        /\ row[o].st = 3 => lx[o].rv = "all" \/ dsco[o].st \notin {"none", "created"}

\* A task has an order once: still to be looked at, or on its way.
Divided == /\ ack.todo \cap ack.need = {}
           /\ ship.todo \cap Sent = {}
           /\ inv.todo \cap inv.send = {}

\* Without pulls and operators an order is worked on by the task its status
\* names.
StatusInv ==
    /\ pull.pc = "idle" /\ adm = AdmIdle
    /\ \A o \in Orders : /\ o \in PushWork => row[o].st = 1
                         /\ o \in AckWork  => row[o].st = 2
                         /\ o \in ShipWork => row[o].st = 3
                         /\ o \in InvWork  => row[o].st = 4
    /\ Divided

\* Whatever fails and whatever DSCO logs, DSCO and LingXing have what a row is
\* about.  Every order with a row, and every one a pull has read, is DSCO's.
ListedInv ==
    \A o \in Orders : row[o].st # 0 \/ o \in InPage(pull.page) => dsco[o].st # "none"

\* LingXing has, or says it took, the orders at 2 and the one the push task is
\* about to write; it has those the push task found.  A look-up that fails
\* only finds fewer of them.
FoundInv ==
    \A o \in Orders :
        /\ row[o].st = 2 => Taken(o) \/ 2 \in AdminStatuses
        /\ o \in push.exist => lx[o].n > 0
        /\ push.pc = "update" /\ IsOldest(o, push.todo) => Taken(o)

\* DSCO has some package of an order at 4, of one with a tracking number in
\* the table or in the shipping task's memory, and of one whose log says "ok";
\* and an order with a package is shipped and never cancelled.
SomeParcelInv ==
    \A o \in Orders :
        /\ dsco[o].pkg # {} => dsco[o].st \in {"shipped", "completed"}
        /\ \/ row[o].st = 4 /\ 4 \notin AdminStatuses
           \/ row[o].trk # {} \/ ship.loc[o] # {} \/ ship.pkg[o] # {}
           \/ ship.res[o] = "ok"
           => dsco[o].pkg # {}
=============================================================================
