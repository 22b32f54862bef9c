----------------------------- MODULE Partners ------------------------------
(***************************************************************************)
(* The two systems the service talks to, as the code in                    *)
(* integration/dsco_lingxing uses them: DSCO (order status, packages,      *)
(* invoices, asynchronous batch requests) and LingXing (orders under a     *)
(* platform order number, WMS outbound orders).  Both are outside the      *)
(* repository; every definition here is external.                          *)
(*                                                                         *)
(* `Faults` names what may go wrong in a run of the model, `World` what    *)
(* the partners may do on their own.                                       *)
(***************************************************************************)
EXTENDS SyncTable

CONSTANTS
    Empty,   \* parcels whose outbound order lists no product that counts
    Faults, World

FaultKinds == {"db",      \* an UPDATE of dsco_order_sync fails
               "page",    \* a page of DSCO orders cannot be read
               "decode",  \* an order of a page cannot be decoded or stored
               "lookup",  \* ListOrdersV2 fails and the per-order fallback runs,
                          \* or it succeeds without data
               "fetch",   \* a DSCO order or invoice cannot be read or is empty
               "wms",     \* WmsOrderList fails or is empty, a mapping is missing
               "send",    \* a write to a partner returns an error
               "void",    \* CreateOrdersV2 succeeds without data, creating nothing
               "reject",  \* a partner rejects what was sent
               "late",    \* a change log is not complete in time
               "abort"}   \* a run ends between two steps: crash, cancelled request
WorldKinds == {"cancel",    \* DSCO cancels an order that is not shipped
               "complete",  \* DSCO completes a shipped order
               "autoack",   \* DSCO confirms an order by itself
               "warehouse", \* the warehouse works on reviewed orders
               "perpkg"}    \* DSCO processes and logs the packages one by one

Goods == Parcels \ Empty

ASSUME GoodsAssumption  == Empty \subseteq Parcels /\ Goods # {}
ASSUME FaultsAssumption == Faults \subseteq FaultKinds
ASSUME WorldAssumption  == World \subseteq WorldKinds

VARIABLES
    dsco,  \* dsco[o]: status, packages and number of invoices of the order
    lx,    \* lx[o]: LingXing orders under that PO, how far their review is, and
           \* (history) whether a create call was answered as in "void"
    wms,   \* wms[o]: parcels of the order with an outbound order, with tracking
    akq,   \* orders whose acknowledge request DSCO has not processed yet
    shq,   \* shq[o]: shipment requests in DSCO that no task waits for any more
    ivq    \* ivq[o]: number of such invoice requests

partners == <<dsco, lx, wms, akq, shq, ivq>>

\* Counters of orders, invoices and late requests saturate here.
DupCap  == 2
Bump(n) == IF n < DupCap THEN n + 1 ELSE n

DscoStatus == {"none", "created", "shipment_pending", "shipped", "completed",
               "cancelled"}
Confirmed  == {"shipment_pending", "shipped", "completed"}

DscoOrder == [st : DscoStatus, pkg : SUBSET Parcels, inv : 0..DupCap]
LxOrder   == [n : 0..DupCap, rv : {"no", "part", "all"}, void : BOOLEAN]
WmsOrder  == [out : SUBSET Parcels, trk : SUBSET Parcels]

PartnersTypeOK ==
    /\ dsco \in [Orders -> DscoOrder]
    /\ lx  \in [Orders -> LxOrder]
    /\ wms \in [Orders -> WmsOrder]
    /\ akq \subseteq Orders
    /\ shq \in [Orders -> SUBSET (SUBSET Parcels)]
    /\ ivq \in [Orders -> 0..DupCap]

\* The partners' side of rows the service finds when it starts: status 1 is
\* an order not pushed yet, 2 one that LingXing has, 3 an acknowledged one.
PartnersInit ==
    /\ dsco = [o \in Orders |->
                 [st  |-> CASE row[o].st = 0 -> "none"
                            [] row[o].st = 3 -> "shipment_pending"
                            [] OTHER         -> "created",
                  pkg |-> {}, inv |-> 0]]
    /\ lx  = [o \in Orders |-> [n  |-> IF row[o].st >= 2 THEN 1 ELSE 0,
                                rv |-> IF row[o].st = 3 THEN "all" ELSE "no",
                                void |-> FALSE]]
    /\ wms = [o \in Orders |-> [out |-> {}, trk |-> {}]]
    /\ akq = {}
    /\ shq = [o \in Orders |-> {}]
    /\ ivq = [o \in Orders |-> 0]

-----------------------------------------------------------------------------
(* What the partners do by themselves *)

DscoMove(o, from, to) == /\ dsco[o].st \in from
                         /\ dsco' = [dsco EXCEPT ![o].st = to]
                         /\ UNCHANGED <<lx, wms, akq, shq, ivq>>

\* Orders arrive in the order of their creation time.
Arrive(o)   == /\ \A p \in Orders : p < o => dsco[p].st # "none"
               /\ DscoMove(o, {"none"}, "created")
AutoAck(o)  == "autoack" \in World /\ DscoMove(o, {"created"}, "shipment_pending")
Cancel(o)   == /\ "cancel" \in World
               /\ DscoMove(o, {"created", "shipment_pending"}, "cancelled")
Complete(o) == "complete" \in World /\ DscoMove(o, {"shipped"}, "completed")

\* LingXing reviews the sub-orders of a PO one after the other.
Review(o) ==
    /\ lx[o].n > 0
    /\ \/ lx[o].rv = "no"  /\ lx' = [lx EXCEPT ![o].rv = "part"]
       \/ lx[o].rv # "all" /\ lx' = [lx EXCEPT ![o].rv = "all"]
    /\ UNCHANGED <<dsco, wms, akq, shq, ivq>>

\* A parcel gets its outbound order, and at some later time its tracking number.
Outbound(o, p) ==
    /\ "warehouse" \in World
    /\ lx[o].rv = "all" /\ p \notin wms[o].out
    /\ wms' = [wms EXCEPT ![o].out = @ \cup {p}]
    /\ UNCHANGED <<dsco, lx, akq, shq, ivq>>
AssignTracking(o, p) ==
    /\ p \in wms[o].out \ wms[o].trk
    /\ wms' = [wms EXCEPT ![o].trk = @ \cup {p}]
    /\ UNCHANGED <<dsco, lx, akq, shq, ivq>>

-----------------------------------------------------------------------------
(* How the partners process requests *)

\* LingXing creates one more order under the PO; it still has to be reviewed.
CreateInLx(o) == lx' = [lx EXCEPT ![o] =
    [n |-> Bump(@.n), rv |-> IF @.n = 0 THEN "no"
                             ELSE IF @.rv = "all" THEN "part" ELSE @.rv,
     void |-> @.void]]

\* LingXing answers with success, with nothing in either list of results, and
\* creates nothing.
CreateVoid(o) == "void" \in Faults /\ lx' = [lx EXCEPT ![o].void = TRUE]

\* DSCO processes an acknowledge some time after it answered the call.
AckProcessed(o) ==
    /\ o \in akq
    /\ akq' = akq \ {o}
    /\ \/ dsco' = [dsco EXCEPT ![o].st = IF @ = "created" THEN "shipment_pending"
                                         ELSE @]
       \/ "reject" \in Faults /\ dsco' = dsco
    /\ UNCHANGED <<lx, wms, shq, ivq>>

\* Packages t become part of the order.
AddPackages(o, t) ==
    [dsco EXCEPT ![o].pkg = @ \cup t,
                 ![o].st  = IF @ \in {"created", "shipment_pending"} /\ t # {}
                            THEN "shipped" ELSE @]
TakesShipment(o) == dsco[o].st \notin {"none", "cancelled"}

\* One step of DSCO on a request for the packages `pend` of order o: `done`
\* are dealt with, and with what result the change log shows.  A rejected
\* request may have added some of its packages.
ShipmentStep(o, pend, done, ok) ==
    /\ done \in IF "perpkg" \in World THEN {{p} : p \in pend} ELSE {pend}
    /\ \/ ok /\ TakesShipment(o) /\ dsco' = AddPackages(o, done)
       \/ ~ok /\ "reject" \in Faults /\ TakesShipment(o)
              /\ \E t \in (SUBSET done) \ {done} : dsco' = AddPackages(o, t)
       \/ ~ok /\ ~TakesShipment(o) /\ dsco' = dsco
AddInvoice(o)    == [dsco EXCEPT ![o].inv = Bump(@)]

\* A shipment or invoice request nobody waits for is processed late.
LateShipment(o) ==
    \E s \in shq[o] :
        /\ shq' = [shq EXCEPT ![o] = @ \ {s}]
        /\ \E t \in CASE ~TakesShipment(o)    -> {{}}
                      [] TakesShipment(o) /\ "reject" \in Faults -> SUBSET s
                      [] OTHER               -> {s} :
              dsco' = AddPackages(o, t)
        /\ UNCHANGED <<lx, wms, akq, ivq>>
LateInvoice(o) ==
    /\ ivq[o] > 0
    /\ ivq' = [ivq EXCEPT ![o] = @ - 1]
    /\ \/ dsco' = AddInvoice(o)
       \/ "reject" \in Faults /\ dsco' = dsco
    /\ UNCHANGED <<lx, wms, akq, shq>>

PartnerStep ==
    \E o \in Orders :
        \/ Arrive(o) \/ AutoAck(o) \/ Cancel(o) \/ Complete(o) \/ Review(o)
        \/ \E p \in Parcels : Outbound(o, p) \/ AssignTracking(o, p)
        \/ AckProcessed(o) \/ LateShipment(o) \/ LateInvoice(o)
=============================================================================
