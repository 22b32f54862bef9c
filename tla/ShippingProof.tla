---------------------------- MODULE ShippingProof ----------------------------
(***************************************************************************)
(* The shipping half of the pipeline: tracking numbers in the table are    *)
(* DSCO's, invoice ids in it belong to invoices DSCO has, and DSCO gets an *)
(* invoice only for what it has as shipped.  The argument: DSCO's books    *)
(* only grow (Grows), the tasks that neither ship nor invoice add nothing  *)
(* to a row (Harmless), so each invariant can only be broken by steps of   *)
(* the two tasks it speaks of.                                             *)
(***************************************************************************)
EXTENDS OrderSyncProof

\* DSCO takes back neither packages nor invoices, nor a confirmation.
Grows == \A o \in Orders :
    /\ dsco[o].pkg \subseteq dsco'[o].pkg
    /\ dsco[o].inv > 0 => dsco'[o].inv > 0
    /\ dsco[o].st \notin {"none", "created"} => dsco'[o].st \notin {"none", "created"}

\* A step that adds no tracking number, no invoice id and no status 4.
Harmless == \A o \in Orders :
    /\ row'[o].trk \subseteq row[o].trk
    /\ row'[o].inv => row[o].inv
    /\ row'[o].st = 4 => row[o].st = 4 \/ 4 \in AdminStatuses

-----------------------------------------------------------------------------
(* DSCO's books *)

LEMMA PackagesGrow ==
    ASSUME dsco \in [Orders -> DscoOrder], NEW o \in Orders,
           NEW t \in SUBSET Parcels, dsco' = AddPackages(o, t)
    PROVE  Grows
  BY DEF Grows, AddPackages, DscoOrder, DscoStatus

LEMMA InvoicesGrow ==
    ASSUME dsco \in [Orders -> DscoOrder], NEW o \in Orders, dsco' = AddInvoice(o)
    PROVE  Grows /\ dsco'[o].inv > 0
<1>1. \A p \in Orders : dsco[p].inv \in 0..2
  BY DEF DscoOrder, DupCap
<1>2. \A p \in Orders : Bump(dsco[p].inv) > 0
  BY <1>1 DEF Bump, DupCap
<1>3. \A p \in Orders : dsco'[p] = IF p = o THEN [dsco[o] EXCEPT !.inv = Bump(dsco[o].inv)]
                                            ELSE dsco[p]
  BY DEF AddInvoice
<1>4. \A p \in Orders : /\ dsco'[p].pkg = dsco[p].pkg /\ dsco'[p].st = dsco[p].st
                        /\ dsco'[p].inv = IF p = o THEN Bump(dsco[p].inv) ELSE dsco[p].inv
  BY <1>3 DEF DscoOrder
<1> QED BY <1>2, <1>4 DEF Grows

LEMMA PartnersGrow ==
    ASSUME PartnersTypeOK, PartnerStep
    PROVE  Grows
<1> PICK o \in Orders :
        \/ Arrive(o) \/ AutoAck(o) \/ Cancel(o) \/ Complete(o) \/ Review(o)
        \/ \E p \in Parcels : Outbound(o, p) \/ AssignTracking(o, p)
        \/ AckProcessed(o) \/ LateShipment(o) \/ LateInvoice(o)
  BY DEF PartnerStep
<1>0. dsco \in [Orders -> DscoOrder] /\ shq \in [Orders -> SUBSET (SUBSET Parcels)]
  BY DEF PartnersTypeOK
<1>1. CASE Arrive(o) \/ AutoAck(o) \/ Cancel(o) \/ Complete(o)
  BY <1>0, <1>1 DEF Arrive, AutoAck, Cancel, Complete, DscoMove, Grows, DscoOrder
<1>2. CASE Review(o) \/ \E p \in Parcels : Outbound(o, p) \/ AssignTracking(o, p)
  BY <1>2 DEF Review, Outbound, AssignTracking, Grows
<1>3. CASE AckProcessed(o)
  BY <1>0, <1>3 DEF AckProcessed, Grows, DscoOrder
<1>4. CASE LateShipment(o)
  <2>1. \E t \in SUBSET Parcels : dsco' = AddPackages(o, t)
    <3>1. PICK s \in shq[o] :
             \E t \in CASE ~TakesShipment(o)    -> {{}}
                        [] TakesShipment(o) /\ "reject" \in Faults -> SUBSET s
                        [] OTHER               -> {s} :
                dsco' = AddPackages(o, t)
      BY <1>4 DEF LateShipment
    <3> QED BY <3>1, <1>0
  <2> QED BY <2>1, <1>0, PackagesGrow
<1>5. CASE LateInvoice(o)
  <2>1. dsco' = AddInvoice(o) \/ dsco' = dsco
    BY <1>5 DEF LateInvoice
  <2> QED BY <2>1, <1>0, InvoicesGrow DEF Grows
<1> QED BY <1>1, <1>2, <1>3, <1>4, <1>5

-----------------------------------------------------------------------------
(* The tasks before shipping, and the operator *)

LEMMA WritesHarmless ==
    ASSUME row \in [Orders -> Row], NEW o \in Orders, NEW s \in (0..6) \ {4}
    PROVE  Upsert(o, s) \/ UpdateStatusAndFields(o, s) \/ UpdateStatus(o, s)
              => Harmless
<1>1. Upsert(o, s) \/ UpdateStatusAndFields(o, s) => Harmless
  BY DEF Upsert, UpdateStatusAndFields, Cleared, Harmless, Row
<1>2. UpdateStatus(o, s) => Harmless
  BY DEF UpdateStatus, Harmless, Row
<1> QED BY <1>1, <1>2

LEMMA FrontHarmless ==
    ASSUME TypeOK, Pull \/ Push \/ Ack
    PROVE  /\ Harmless /\ dsco' = dsco /\ ivq' = ivq
           /\ UNCHANGED <<ship, inv>>
<1>0. row \in [Orders -> Row]
  BY DEF TypeOK
<1>a. row' = row => Harmless
  BY DEF Harmless
<1>1. CASE Pull
  <2>1. ASSUME NEW o \in Orders, PullRow(o)
        PROVE  Harmless /\ dsco' = dsco /\ ivq' = ivq
    <3>1. SyncStatus(pull.page[o]) \in (0..6) \ {4}
      BY DEF SyncStatus
    <3> QED BY <3>1, <2>1, <1>0, <1>a, WritesHarmless DEF PullRow, partners
  <2>2. PullStart \/ PullManual \/ PullPage \/ PullAbort
           => Harmless /\ dsco' = dsco /\ ivq' = ivq
    BY <1>a DEF PullStart, PullManual, PullOpen, PullPage, PullAbort, partners
  <2> QED BY <2>1, <2>2, <1>1 DEF Pull, PullStep
<1>2. CASE Push
  <2>1. ASSUME NEW o \in Orders,
               PushExisting(o) \/ PushSkip(o) \/ PushCreate(o) \/ PushUpdate(o)
        PROVE  Harmless /\ dsco' = dsco /\ ivq' = ivq
    BY <2>1, <1>0, <1>a, WritesHarmless
       DEF PushExisting, PushSkip, PushCreate, PushUpdate, partners
  <2>2. PushStart({}) \/ PushLookup \/ PushAbort
           => Harmless /\ dsco' = dsco /\ ivq' = ivq
    BY <1>a DEF PushStart, PushLookup, PushAbort, partners
  <2> QED BY <2>1, <2>2, <1>2 DEF Push, PushStep
<1>3. CASE Ack
  <2>1. ASSUME NEW o \in Orders, AckConfirmed(o) \/ AckSort(o) \/ AckCommit(o)
        PROVE  Harmless /\ dsco' = dsco /\ ivq' = ivq
    BY <2>1, <1>0, <1>a, WritesHarmless DEF AckConfirmed, AckSort, AckCommit, partners
  <2>2. AckStart({}) \/ AckFetch \/ AckList \/ AckSend \/ AckAbort
           => Harmless /\ dsco' = dsco /\ ivq' = ivq
    BY <1>a DEF AckStart, AckFetch, AckList, AckSend, AckAbort, partners
  <2> QED BY <2>1, <2>2, <1>3 DEF Ack, AckStep
<1> QED BY <1>1, <1>2, <1>3
\* Of the operator's steps: a start of the two last tasks is theirs, all
\* others are harmless.
LEMMA AdminSplit ==
    ASSUME TypeOK, Admin
    PROVE  \/ /\ Harmless /\ dsco' = dsco /\ ivq' = ivq
              /\ UNCHANGED <<ship, inv>>
           \/ ShipStart(adm.po) /\ inv' = inv
           \/ InvStart(adm.po) /\ ship' = ship
<1>0. row \in [Orders -> Row]
  BY DEF TypeOK
<1>a. row' = row => Harmless
  BY DEF Harmless
<1>1. ASSUME NEW o \in Orders, NEW s \in AdminStatuses, AdminSetStatus(o, s)
      PROVE  Harmless
  <2>1. CASE s = 4
    BY <1>0, <1>1, <2>1 DEF AdminSetStatus, UpdateStatus, Harmless, Row
  <2>2. CASE s # 4
    <3>1. s \in (0..6) \ {4}
      BY AdminAssumption, <2>2
    <3> QED BY <3>1, <1>0, <1>1, WritesHarmless DEF AdminSetStatus
  <2> QED BY <2>1, <2>2
<1>2. ASSUME NEW o \in Orders, NEW s \in AdminStatuses, AdminSetStatus(o, s)
      PROVE  dsco' = dsco /\ ivq' = ivq /\ UNCHANGED <<ship, inv>>
  BY <1>2 DEF AdminSetStatus, partners, tasks
<1>3. ASSUME NEW o \in Orders, AdminRead(o) \/ AdminNoRun
      PROVE  Harmless /\ dsco' = dsco /\ ivq' = ivq /\ UNCHANGED <<ship, inv>>
  BY <1>3, <1>a DEF AdminRead, AdminNoRun, partners, tasks
<1>4. AdminNoRun => Harmless /\ dsco' = dsco /\ ivq' = ivq /\ UNCHANGED <<ship, inv>>
  BY <1>a DEF AdminNoRun, partners, tasks
<1>5. CASE AdminRun
  BY <1>5, <1>a DEF AdminRun, PushStart, AckStart, partners
<1> QED BY <1>1, <1>2, <1>3, <1>4, <1>5 DEF Admin

-----------------------------------------------------------------------------
(* Tracking numbers *)

\* What leaves the shipping task's memory alone and adds nothing to the rows
\* cannot break TrackInv.
LEMMA TrackFrame ==
    ASSUME TrackInv, Grows, ship' = ship,
           \A o \in Orders : row'[o].trk \subseteq row[o].trk
    PROVE  TrackInv'
  BY DEF TrackInv, Known, Grows

LEMMA InitTrack == Init => TrackInv
<1> SUFFICES ASSUME Init PROVE TrackInv
  OBVIOUS
<1>1. \A o \in Orders : row[o].trk = {}
  BY DEF Init, RowInit, Cleared
<1> QED BY <1>1 DEF Init, ShipInit, ShipIdle, Nothing, TrackInv, Known

\* ShipPlanned changes one order of the batch; all else keeps.
LEMMA TrackPlanned ==
    ASSUME TypeOK, TrackInv, NEW o \in Orders, NEW s \in SUBSET Parcels,
           NEW m \in SUBSET Parcels, ShipPlanned(o, s, m), dsco' = dsco,
           ship.pc = "plan", m \subseteq Known(o) \cup s,
           \A q \in Orders : row'[q].trk \subseteq row[q].trk
    PROVE  TrackInv'
<1>0. ship \in ShipType
  BY DEF TypeOK
<1>1. CASE ship' = ShipIdle
  BY <1>1 DEF TrackInv, Known, ShipIdle, Nothing
<1>2. ASSUME NEW pc \in {"plan", "send"},
             ship' = [ship EXCEPT !.pc = pc, !.todo = @ \ {o}, !.send[o] = s,
                              !.mark[o] = m, !.loc[o] = {}, !.seen[o] = "none",
                              !.pkg[o] = {}]
      PROVE  TrackInv'
  <2>1. /\ ship'.pc = pc /\ ship'.pend = ship.pend /\ ship'.res = ship.res
        /\ ship'.send = [ship.send EXCEPT ![o] = s]
        /\ ship'.mark = [ship.mark EXCEPT ![o] = m]
        /\ ship'.loc = [ship.loc EXCEPT ![o] = {}]
        /\ ship'.pkg = [ship.pkg EXCEPT ![o] = {}]
    BY <1>0, <1>2 DEF ShipType
  <2>2. \A q \in Orders : ship.pend[q] = {} /\ ship.res[q] = "none"
    BY DEF TrackInv
  <2> SUFFICES ASSUME NEW q \in Orders
               PROVE  /\ row'[q].trk \subseteq Known(q)
                      /\ ship'.loc[q] \subseteq Known(q)
                      /\ ship'.pkg[q] \subseteq dsco[q].pkg
                      /\ ship'.mark[q] \subseteq Known(q) \cup ship'.send[q]
    BY <2>1, <2>2 DEF TrackInv, Known
  <2>3. row'[q].trk \subseteq Known(q)
    BY DEF TrackInv
  <2>4. ship'.loc[q] \in {ship.loc[q], {}} /\ ship'.pkg[q] \in {ship.pkg[q], {}}
    BY <2>1, <1>0 DEF ShipType
  <2>5. /\ q = o => ship'.mark[q] = m /\ ship'.send[q] = s
        /\ q # o => ship'.mark[q] = ship.mark[q] /\ ship'.send[q] = ship.send[q]
    BY <2>1, <1>0 DEF ShipType
  <2>6. ship'.mark[q] \subseteq Known(q) \cup ship'.send[q]
    BY <2>5 DEF TrackInv
  <2> QED BY <2>3, <2>4, <2>6 DEF TrackInv
<1> QED BY <1>1, <1>2 DEF ShipPlanned

LEMMA TrackShip ==
    ASSUME "perpkg" \notin World, TypeOK, TrackInv, NEW only \in SUBSET Orders,
           \/ ShipStart(only) \/ ShipStep \/ ShipAbort
           \/ \E o \in Orders : ShipProcessed(o)
    PROVE  TrackInv'
<1>0. ship \in ShipType /\ row \in [Orders -> Row] /\ dsco \in [Orders -> DscoOrder]
  BY DEF TypeOK, PartnersTypeOK
<1>1. CASE ShipStart(only)
  <2>1. /\ ship'.pc = "fetch" /\ row' = row /\ dsco' = dsco
        /\ \A o \in Orders :
              /\ ship'.loc[o] \subseteq row[o].trk
              /\ ship'.pkg[o] = {} /\ ship'.send[o] = {} /\ ship'.mark[o] = {}
              /\ ship'.pend[o] = {} /\ ship'.res[o] = "none"
    BY <1>1 DEF ShipStart, ShipIdle, Nothing, partners
  <2> QED BY <2>1 DEF TrackInv, Known
<1>2. CASE ShipAbort
  BY <1>2 DEF ShipAbort, ShipIdle, Nothing, TrackInv, Known
<1>3. CASE ShipFetch
  <2>1. /\ ship'.pc = "plan" /\ row' = row /\ dsco' = dsco
        /\ ship.pc = "fetch"
        /\ ship'.loc = ship.loc /\ ship'.send = ship.send /\ ship'.mark = ship.mark
        /\ ship'.pend = ship.pend /\ ship'.res = ship.res
        /\ \A o \in Orders : ship'.pkg[o] \subseteq dsco[o].pkg
    BY <1>0, <1>3 DEF ShipFetch, ShipType, partners
  <2> QED BY <2>1 DEF TrackInv, Known
<1>4. CASE ShipSend
  <2>1. row' = row /\ dsco' = dsco
    BY <1>4 DEF ShipSend
  <2>2. CASE ship' = ShipIdle
    BY <2>1, <2>2 DEF TrackInv, Known, ShipIdle, Nothing
  <2>3. CASE ship' = [ship EXCEPT !.pc = "wait", !.pend = ship.send]
    <3>1. /\ ship'.pc = "wait" /\ ship'.pend = ship.send /\ ship'.loc = ship.loc
          /\ ship'.pkg = ship.pkg /\ ship'.send = ship.send
          /\ ship'.mark = ship.mark /\ ship'.res = ship.res
      BY <1>0, <2>3 DEF ShipType
    <3> QED BY <2>1, <3>1 DEF TrackInv, Known
  <2> QED BY <1>4, <2>2, <2>3 DEF ShipSend
<1>5. CASE ShipVerified
  <2>1. /\ ship'.pc = "commit" /\ ship'.pend = Nothing /\ ship'.loc = ship.loc
        /\ ship'.pkg = ship.pkg /\ ship'.send = ship.send
        /\ ship'.mark = ship.mark /\ ship'.res = ship.res
        /\ row' = row /\ dsco' = dsco
    BY <1>0, <1>5 DEF ShipVerified, ShipType
  <2> QED BY <2>1 DEF TrackInv, Known, Nothing
<1>6. ASSUME NEW o \in Orders, ShipProcessed(o)
      PROVE  TrackInv'
  <2>1. PICK done \in SUBSET ship.pend[o], ok \in BOOLEAN :
           /\ ShipmentStep(o, ship.pend[o], done, ok)
           /\ ship' = [ship EXCEPT
                         !.pend[o] = @ \ done,
                         !.res[o]  = IF ok /\ @ # "fail" THEN "ok" ELSE "fail"]
    BY <1>6 DEF ShipProcessed
  <2>2. ship.pc = "wait" /\ ship.pend[o] # {} /\ row' = row
    BY <1>6 DEF ShipProcessed
  <2>3. done = ship.send[o] /\ ship.pend[o] = ship.send[o]
    BY <2>1, <2>2 DEF ShipmentStep, TrackInv
  <2>4. done \in SUBSET Parcels
    BY <1>0 DEF ShipType
  <2>5. Grows
    BY <2>1, <2>4, <1>0, PackagesGrow DEF ShipmentStep, Grows
  <2>6. ok => done \subseteq dsco'[o].pkg
    BY <2>1, <2>4, <1>0 DEF ShipmentStep, AddPackages, DscoOrder
  <2>7. /\ ship'.pc = ship.pc /\ ship'.loc = ship.loc /\ ship'.pkg = ship.pkg
        /\ ship'.send = ship.send /\ ship'.mark = ship.mark
        /\ \A q \in Orders :
              /\ ship'.pend[q] = IF q = o THEN ship.pend[o] \ done ELSE ship.pend[q]
              /\ q # o => ship'.res[q] = ship.res[q]
        /\ ship'.res[o] = "ok" => ok
    BY <1>0, <2>1 DEF ShipType
  <2> QED BY <2>2, <2>3, <2>5, <2>6, <2>7 DEF TrackInv, Known, Grows
<1>7. ASSUME NEW o \in Orders, ShipSkip(o) \/ ShipNothingNew(o) \/ ShipPrepare(o)
      PROVE  TrackInv'
  <2>1. ship.pc = "plan" /\ dsco' = dsco
    BY <1>7 DEF ShipSkip, ShipNothingNew, ShipPrepare, partners
  <2>2. \A q \in Orders : row'[q].trk \subseteq row[q].trk
    BY <1>7, <1>0 DEF ShipSkip, ShipNothingNew, ShipPrepare, UpdateStatus, Row
  <2>3. ShipSkip(o) \/ ShipNothingNew(o) => ShipPlanned(o, {}, {})
    BY DEF ShipSkip, ShipNothingNew
  <2>4. CASE ShipPrepare(o)
    <3>1. New(o) \in SUBSET Parcels
      BY DEF New, TypeOK, PartnersTypeOK, WmsOrder
    <3>2. ship.loc[o] \cup ship.pkg[o] \cup New(o) \subseteq Known(o) \cup (New(o) \ Empty)
      BY DEF TrackInv, Known
    <3>3. ship.loc[o] \cup ship.pkg[o] \cup New(o) \in SUBSET Parcels
      BY <1>0, <3>1 DEF ShipType
    <3>4. ShipPlanned(o, New(o) \ Empty, ship.loc[o] \cup ship.pkg[o] \cup New(o))
      BY <2>4 DEF ShipPrepare
    <3> QED BY <2>1, <2>2, <3>1, <3>2, <3>3, <3>4, TrackPlanned
  <2> QED BY <2>1, <2>2, <2>3, <2>4, <1>7, TrackPlanned
<1>8. ASSUME NEW o \in Orders, ShipCommit(o)
      PROVE  TrackInv'
  <2>1. dsco' = dsco /\ ship.pc = "commit"
    BY <1>8 DEF ShipCommit, partners
  <2>2. \A q \in Orders : row'[q].trk \subseteq Known(q)
    <3>1. CASE row' = row
      BY <3>1 DEF TrackInv
    <3>2. CASE ship.res[o] = "ok" /\ UpdateStatusAndTrackingNo(o, 4, ship.mark[o])
      <4>1. ship.mark[o] \subseteq Known(o)
        BY <3>2 DEF TrackInv, Known
      <4>2. \A q \in Orders : row'[q].trk = IF q = o THEN ship.mark[o] ELSE row[q].trk
        BY <3>2, <1>0 DEF UpdateStatusAndTrackingNo, Row
      <4> QED BY <4>1, <4>2 DEF TrackInv
    <3> QED BY <3>1, <3>2, <1>8 DEF ShipCommit
  <2>3. CASE ship' = ShipIdle
    BY <2>1, <2>2, <2>3 DEF TrackInv, Known, ShipIdle, Nothing
  <2>4. CASE ship' = [ship EXCEPT !.send[o] = {}, !.mark[o] = {}, !.res[o] = "none"]
    <3>1. /\ ship'.pc = ship.pc /\ ship'.loc = ship.loc /\ ship'.pkg = ship.pkg
          /\ ship'.pend = ship.pend
          /\ \A q \in Orders :
                /\ ship'.send[q] = IF q = o THEN {} ELSE ship.send[q]
                /\ ship'.mark[q] = IF q = o THEN {} ELSE ship.mark[q]
                /\ ship'.res[q] = IF q = o THEN "none" ELSE ship.res[q]
      BY <1>0, <2>4 DEF ShipType
    <3> QED BY <2>1, <2>2, <3>1 DEF TrackInv, Known
  <2> QED BY <1>8, <2>3, <2>4 DEF ShipCommit
<1> QED BY <1>1, <1>2, <1>3, <1>4, <1>5, <1>6, <1>7, <1>8 DEF ShipStep
\* The shipping task touches no invoice id, and DSCO's books grow under it.
LEMMA ShipGrows ==
    ASSUME TypeOK, NEW only \in SUBSET Orders,
           \/ ShipStart(only) \/ ShipStep \/ ShipAbort
           \/ \E o \in Orders : ShipProcessed(o)
    PROVE  Grows /\ ivq' = ivq /\ \A o \in Orders : row'[o].inv = row[o].inv
<1>0. ship \in ShipType /\ row \in [Orders -> Row] /\ dsco \in [Orders -> DscoOrder]
  BY DEF TypeOK, PartnersTypeOK
<1>1. CASE ShipStart(only) \/ ShipAbort \/ ShipFetch \/ ShipSend \/ ShipVerified
  BY <1>1 DEF ShipStart, ShipAbort, ShipFetch, ShipSend, ShipVerified, partners, Grows
<1>2. ASSUME NEW o \in Orders, ShipProcessed(o)
      PROVE  Grows /\ ivq' = ivq /\ row' = row
  <2>1. \E t \in SUBSET Parcels : dsco' = AddPackages(o, t) \/ dsco' = dsco
    BY <1>0, <1>2 DEF ShipProcessed, ShipmentStep, ShipType
  <2>2. Grows
    BY <2>1, <1>0, PackagesGrow DEF Grows
  <2> QED BY <2>2, <1>2 DEF ShipProcessed
<1>3. ASSUME NEW o \in Orders,
             ShipSkip(o) \/ ShipNothingNew(o) \/ ShipPrepare(o) \/ ShipCommit(o)
      PROVE  Grows /\ ivq' = ivq /\ \A q \in Orders : row'[q].inv = row[q].inv
  <2>1. UNCHANGED partners
    BY <1>3 DEF ShipSkip, ShipNothingNew, ShipPrepare, ShipCommit
  <2>2. \/ row' = row \/ UpdateStatus(o, 4)
        \/ UpdateStatusAndTrackingNo(o, 4, ship.mark[o])
    BY <1>3 DEF ShipSkip, ShipNothingNew, ShipPrepare, ShipCommit
  <2>3. \A q \in Orders : row'[q].inv = row[q].inv
    BY <2>2, <1>0 DEF UpdateStatus, UpdateStatusAndTrackingNo, Row
  <2> QED BY <2>1, <2>3 DEF partners, Grows
<1> QED BY <1>1, <1>2, <1>3 DEF ShipStep

\* The invoice task touches no tracking number and leaves no row at 4 that
\* was not there.
LEMMA InvGrows ==
    ASSUME TypeOK, NEW only \in SUBSET Orders,
           \/ InvStart(only) \/ InvStep \/ InvAbort
           \/ \E o \in Orders : InvProcessed(o)
    PROVE  Grows /\ \A o \in Orders : /\ row'[o].trk = row[o].trk
                                      /\ row'[o].st = 4 => row[o].st = 4
<1>0. inv \in InvType /\ row \in [Orders -> Row] /\ dsco \in [Orders -> DscoOrder]
  BY DEF TypeOK, PartnersTypeOK
<1>1. CASE InvStart(only) \/ InvAbort \/ InvSend \/ InvVerified
  BY <1>1 DEF InvStart, InvAbort, InvSend, InvVerified, partners, Grows
<1>2. ASSUME NEW o \in Orders, InvProcessed(o)
      PROVE  Grows /\ row' = row
  BY <1>0, <1>2, InvoicesGrow DEF InvProcessed, Grows
<1>3. ASSUME NEW o \in Orders, InvSkip(o) \/ InvPrepare(o) \/ InvCommit(o)
      PROVE  Grows /\ \A q \in Orders : /\ row'[q].trk = row[q].trk
                                        /\ row'[q].st = 4 => row[q].st = 4
  <2>1. UNCHANGED partners
    BY <1>3 DEF InvSkip, InvPrepare, InvCommit
  <2>2. row' = row \/ UpdateStatusAndInvoiceID(o, 5)
    BY <1>3 DEF InvSkip, InvPrepare, InvCommit
  <2>3. \A q \in Orders : /\ row'[q].trk = row[q].trk
                          /\ row'[q].st = 4 => row[q].st = 4
    BY <2>2, <1>0 DEF UpdateStatusAndInvoiceID, Row
  <2>4. Grows
    BY <2>1 DEF partners, Grows
  <2> QED BY <2>3, <2>4
<1> QED BY <1>1, <1>2, <1>3 DEF InvStep

\* TrackInv is inductive.
LEMMA NextTrack ==
    ASSUME "perpkg" \notin World, TypeOK, TrackInv, [Next]_vars
    PROVE  TrackInv'
<1>0. dsco' = dsco => Grows
  BY DEF Grows
<1>1. CASE Pull \/ Push \/ Ack
  BY <1>1, <1>0, FrontHarmless, TrackFrame DEF Harmless
<1>2. CASE Ship
  BY <1>2, TrackShip DEF Ship
<1>3. CASE Invoice
  BY <1>3, InvGrows, TrackFrame DEF Invoice
<1>4. CASE Admin
  <2>1. adm.po \in SUBSET Orders
    BY DEF TypeOK, AdmType
  <2> QED BY <1>4, <1>0, <2>1, AdminSplit, TrackShip, InvGrows, TrackFrame DEF Harmless
<1>5. CASE Environment
  BY <1>5, PartnersGrow, TrackFrame DEF Environment, tasks, TypeOK
<1>6. CASE UNCHANGED vars
  BY <1>6, <1>0, TrackFrame DEF vars, tasks, partners
<1> QED BY <1>1, <1>2, <1>3, <1>4, <1>5, <1>6 DEF Next

\* Tracking numbers in the table are DSCO's, for any number of orders and
\* parcels and all faults together, the operator included, provided DSCO
\* logs an order once per request.
THEOREM TrackingConfirmed ==
    ASSUME "perpkg" \notin World
    PROVE  Spec => []LocalTrackingConfirmed
<1>1. Init => TypeOK /\ TrackInv
  BY InitTyped, InitTrack
<1>2. TypeOK /\ TrackInv /\ [Next]_vars => (TypeOK /\ TrackInv)'
  BY NextTyped, NextTrack
<1>3. TrackInv => LocalTrackingConfirmed
  BY DEF TrackInv, Known, LocalTrackingConfirmed
<1> QED BY <1>1, <1>2, <1>3, PTL DEF Spec
-----------------------------------------------------------------------------
(* Invoice ids *)

LEMMA InitInvoice == Init => InvoiceInv
<1> SUFFICES ASSUME Init PROVE InvoiceInv
  OBVIOUS
<1>1. \A o \in Orders : ~row[o].inv
  BY DEF Init, RowInit, Cleared
<1> QED BY <1>1 DEF Init, InvInit, InvIdle, InvoiceInv

LEMMA InvoiceFrame ==
    ASSUME InvoiceInv, Grows, inv' = inv,
           \A o \in Orders : row'[o].inv => row[o].inv
    PROVE  InvoiceInv'
  BY DEF InvoiceInv, Grows

LEMMA InvoiceInvTask ==
    ASSUME TypeOK, InvoiceInv, NEW only \in SUBSET Orders,
           \/ InvStart(only) \/ InvStep \/ InvAbort
           \/ \E o \in Orders : InvProcessed(o)
    PROVE  InvoiceInv'
<1>0. inv \in InvType /\ row \in [Orders -> Row] /\ dsco \in [Orders -> DscoOrder]
  BY DEF TypeOK, PartnersTypeOK
<1>1. CASE InvStart(only) \/ InvAbort \/ InvSend
  <2>1. row' = row /\ dsco' = dsco
    BY <1>1 DEF InvStart, InvAbort, InvSend, partners
  <2>2. inv'.ok = {} \/ inv'.ok = inv.ok
    <3>1. InvIdle.ok = {}
      BY DEF InvIdle
    <3>2. ASSUME InvStart(only) PROVE inv'.ok = {}
      BY <3>2 DEF InvStart, InvIdle
    <3>3. ASSUME InvAbort PROVE inv'.ok = {}
      BY <3>1, <3>3 DEF InvAbort
    <3>4. ASSUME InvSend PROVE inv'.ok = {} \/ inv'.ok = inv.ok
      BY <1>0, <3>1, <3>4 DEF InvSend, InvType
    <3> QED BY <3>2, <3>3, <3>4, <1>1
  <2> QED BY <2>1, <2>2 DEF InvoiceInv
<1>2. CASE InvVerified
  <2>1. PICK found \in SUBSET {o \in inv.pend : dsco[o].inv > 0} :
           inv' = [inv EXCEPT !.pc = "commit", !.pend = {}, !.ok = @ \cup found]
    BY <1>2 DEF InvVerified
  <2>2. row' = row /\ dsco' = dsco /\ inv'.ok = inv.ok \cup found
    BY <1>0, <1>2, <2>1 DEF InvVerified, InvType
  <2> QED BY <2>2 DEF InvoiceInv
<1>3. ASSUME NEW o \in Orders, InvProcessed(o)
      PROVE  InvoiceInv'
  <2>1. row' = row
    BY <1>3 DEF InvProcessed
  <2>2. CASE dsco' = AddInvoice(o) /\ inv'.ok = inv.ok \cup {o}
    <3>1. Grows /\ dsco'[o].inv > 0
      BY <1>0, <2>2, InvoicesGrow
    <3> QED BY <2>1, <2>2, <3>1 DEF InvoiceInv, Grows
  <2>3. CASE dsco' = dsco /\ inv'.ok = inv.ok
    BY <2>1, <2>3 DEF InvoiceInv
  <2> QED BY <2>2, <2>3, <1>0, <1>3 DEF InvProcessed, InvType
<1>4. ASSUME NEW o \in Orders, InvSkip(o) \/ InvPrepare(o)
      PROVE  InvoiceInv'
  <2>1. row' = row /\ dsco' = dsco
    BY <1>4 DEF InvSkip, InvPrepare, partners
  <2>2. ASSUME NEW send, InvPlanned(o, send)
        PROVE  inv'.ok = {} \/ inv'.ok = inv.ok
    BY <1>0, <2>2 DEF InvPlanned, InvIdle, InvType
  <2>3. inv'.ok = {} \/ inv'.ok = inv.ok
    BY <1>4, <2>2 DEF InvSkip, InvPrepare
  <2> QED BY <2>1, <2>3 DEF InvoiceInv
<1>5. ASSUME NEW o \in Orders, InvCommit(o)
      PROVE  InvoiceInv'
  <2>1. dsco' = dsco /\ inv'.ok \subseteq inv.ok
    BY <1>0, <1>5 DEF InvCommit, InvIdle, InvType, partners
  <2>2. \A q \in Orders : row'[q].inv => row[q].inv \/ q \in inv.ok
    BY <1>0, <1>5 DEF InvCommit, UpdateStatusAndInvoiceID, Row
  <2> QED BY <2>1, <2>2 DEF InvoiceInv
<1> QED BY <1>1, <1>2, <1>3, <1>4, <1>5 DEF InvStep

LEMMA NextInvoice ==
    ASSUME TypeOK, InvoiceInv, [Next]_vars
    PROVE  InvoiceInv'
<1>0. dsco' = dsco => Grows
  BY DEF Grows
<1>1. CASE Pull \/ Push \/ Ack
  BY <1>1, <1>0, FrontHarmless, InvoiceFrame DEF Harmless
<1>2. CASE Ship
  BY <1>2, ShipGrows, InvoiceFrame DEF Ship
<1>3. CASE Invoice
  BY <1>3, InvoiceInvTask DEF Invoice
<1>4. CASE Admin
  <2>1. adm.po \in SUBSET Orders
    BY DEF TypeOK, AdmType
  <2> QED
    BY <1>4, <1>0, <2>1, AdminSplit, ShipGrows, InvoiceInvTask, InvoiceFrame DEF Harmless
<1>5. CASE Environment
  BY <1>5, PartnersGrow, InvoiceFrame DEF Environment, tasks, TypeOK
<1>6. CASE UNCHANGED vars
  BY <1>6, <1>0, InvoiceFrame DEF vars, tasks, partners
<1> QED BY <1>1, <1>2, <1>3, <1>4, <1>5, <1>6 DEF Next

\* A row gets an invoice id only when DSCO has an invoice of the order, in
\* every environment the model knows.
THEOREM InvoicesRecorded == Spec => []InvoiceRecorded
<1>1. Init => TypeOK /\ InvoiceInv
  BY InitTyped, InitInvoice
<1>2. TypeOK /\ InvoiceInv /\ [Next]_vars => (TypeOK /\ InvoiceInv)'
  BY NextTyped, NextInvoice
<1>3. InvoiceInv => InvoiceRecorded
  BY DEF InvoiceInv, InvoiceRecorded
<1> QED BY <1>1, <1>2, <1>3, PTL DEF Spec
-----------------------------------------------------------------------------
(* Invoices only after the shipment *)

\* The two halves of AfterInv.
Shipped(o) == Goods \subseteq dsco[o].pkg
Marked == \A o \in Orders : ship.send[o] # {} => Goods \subseteq ship.mark[o]

LEMMA InitAfter == Init => AfterInv
<1> SUFFICES ASSUME Init PROVE AfterInv
  OBVIOUS
<1>1. \A o \in Orders : row[o].st # 4
  <2>1. PICK f \in [Orders -> Start] : row = [o \in Orders |-> Cleared(f[o])]
    BY DEF Init, RowInit
  <2>2. \A o \in Orders : f[o] # 4
    BY StartAssumption
  <2> QED BY <2>1, <2>2 DEF Cleared
<1>2. PastShipment = {}
  <2>1. inv.todo \cup inv.send \cup inv.pend = {}
    BY DEF Init, InvInit, InvIdle
  <2>2. \A o \in Orders : ivq[o] = 0 /\ dsco[o].inv = 0
    BY DEF Init, PartnersInit
  <2> QED BY <1>1, <2>1, <2>2 DEF PastShipment
<1>3. Marked
  BY DEF Init, ShipInit, ShipIdle, Nothing, Marked
<1> QED BY <1>2, <1>3 DEF AfterInv, Marked

\* Steps that bring no order past its shipment and leave the shipping task
\* alone.
LEMMA AfterFrame ==
    ASSUME AfterInv, Grows, ship' = ship, PastShipment' \subseteq PastShipment
    PROVE  AfterInv'
<1>1. \A o \in Orders : Shipped(o) => Shipped(o)'
  BY DEF Shipped, Grows
<1>2. PastShipment' \subseteq Orders
  BY DEF PastShipment
<1> QED BY <1>1, <1>2 DEF AfterInv, Shipped

LEMMA AfterFront ==
    ASSUME 4 \notin AdminStatuses, AfterInv, Harmless, dsco' = dsco,
           ivq' = ivq, UNCHANGED <<ship, inv>>
    PROVE  AfterInv'
<1>1. PastShipment' \subseteq PastShipment
  BY DEF PastShipment, Harmless
<1> QED BY <1>1, AfterFrame DEF Grows

\* Partners: an invoice comes from a late request of a shipped order.
LEMMA AfterPartners ==
    ASSUME TypeOK, AfterInv, Environment
    PROVE  AfterInv'
<1>0. Grows
  BY PartnersGrow DEF Environment, TypeOK
<1>1. UNCHANGED <<row, ship, inv>>
  BY DEF Environment, tasks
<1>2. \A q \in Orders : /\ ivq'[q] > 0 => ivq[q] > 0
                        /\ dsco'[q].inv > 0 => dsco[q].inv > 0 \/ ivq[q] > 0
  <2>0. /\ dsco \in [Orders -> DscoOrder] /\ ivq \in [Orders -> 0..2]
        /\ shq \in [Orders -> SUBSET (SUBSET Parcels)]
    BY DEF TypeOK, PartnersTypeOK, DupCap
  <2> PICK o \in Orders :
        \/ Arrive(o) \/ AutoAck(o) \/ Cancel(o) \/ Complete(o) \/ Review(o)
        \/ \E p \in Parcels : Outbound(o, p) \/ AssignTracking(o, p)
        \/ AckProcessed(o) \/ LateShipment(o) \/ LateInvoice(o)
    BY DEF Environment, PartnerStep
  <2>1. CASE Arrive(o) \/ AutoAck(o) \/ Cancel(o) \/ Complete(o)
    BY <2>0, <2>1 DEF Arrive, AutoAck, Cancel, Complete, DscoMove, DscoOrder
  <2>2. CASE Review(o) \/ \E p \in Parcels : Outbound(o, p) \/ AssignTracking(o, p)
    BY <2>2 DEF Review, Outbound, AssignTracking
  <2>3. CASE AckProcessed(o)
    BY <2>0, <2>3 DEF AckProcessed, DscoOrder
  <2>4. CASE LateShipment(o)
    <3>1. PICK t : dsco' = AddPackages(o, t)
      BY <2>4 DEF LateShipment
    <3>2. \A q \in Orders : dsco'[q].inv = dsco[q].inv
      BY <2>0, <3>1 DEF AddPackages, DscoOrder
    <3> QED BY <2>4, <3>2 DEF LateShipment
  <2>5. CASE LateInvoice(o)
    <3>1. \A q \in Orders : ivq'[q] > 0 => ivq[q] > 0
      BY <2>0, <2>5 DEF LateInvoice
    <3>2. \A q \in Orders : dsco'[q].inv > 0 => dsco[q].inv > 0 \/ ivq[q] > 0
      BY <2>0, <2>5 DEF LateInvoice, AddInvoice, DscoOrder
    <3> QED BY <3>1, <3>2
  <2> QED BY <2>1, <2>2, <2>3, <2>4, <2>5
<1>3. PastShipment' \subseteq PastShipment
  BY <1>1, <1>2 DEF PastShipment
<1> QED BY <1>0, <1>1, <1>3, AfterFrame

\* The invoice task: its batch comes from rows at 4, its requests from its
\* batch, an invoice from its requests.
LEMMA AfterInvoice ==
    ASSUME TypeOK, AfterInv, NEW only \in SUBSET Orders, ship' = ship,
           \/ InvStart(only) \/ InvStep \/ InvAbort
           \/ \E o \in Orders : InvProcessed(o)
    PROVE  AfterInv'
<1>0. inv \in InvType /\ dsco \in [Orders -> DscoOrder] /\ ivq \in [Orders -> 0..2]
  BY DEF TypeOK, PartnersTypeOK, DupCap
<1>g. Grows /\ \A q \in Orders : row'[q].st = 4 => row[q].st = 4
  BY InvGrows
<1>a. \A left : \A q \in Orders : InvOrphaned(left)[q] > 0 => ivq[q] > 0 \/ q \in left
  BY <1>0 DEF InvOrphaned
<1>1. ASSUME NEW q \in Orders,
             q \in inv'.todo \cup inv'.send \cup inv'.pend
      PROVE  q \in PastShipment
  <2> DEFINE mine == inv.todo \cup inv.send \cup inv.pend
  <2>0. mine \cap Orders \subseteq PastShipment
    BY DEF PastShipment
  <2>1. CASE InvStart(only)
    <3>1. inv'.todo = Batch(4, only) /\ inv'.send = {} /\ inv'.pend = {}
      BY <2>1 DEF InvStart, InvIdle
    <3>2. row[q].st = 4
      BY <3>1, <1>1, BatchOfStatus
    <3> QED BY <3>2 DEF PastShipment
  <2>2. CASE ~InvStart(only)
    <3>0. inv' = InvIdle => FALSE
      BY <1>1 DEF InvIdle
    <3>1. CASE InvAbort \/ InvSend
      BY <3>0, <3>1, <1>0, <1>1, <2>0 DEF InvAbort, InvSend, InvType
    <3>2. CASE InvVerified
      BY <3>2, <1>0, <1>1, <2>0 DEF InvVerified, InvType
    <3>3. ASSUME NEW o \in Orders, InvProcessed(o)
          PROVE  q \in mine
      <4>1. inv'.todo = inv.todo /\ inv'.send = inv.send
        BY <3>3, <1>0 DEF InvProcessed, InvType
      <4>2. inv'.pend = inv.pend \ {o}
        BY <3>3, <1>0 DEF InvProcessed, InvType
      <4> QED BY <4>1, <4>2, <1>1
    <3>4. ASSUME NEW o \in Orders, InvSkip(o) \/ InvPrepare(o)
          PROVE  q \in mine
      <4>1. PICK send \in {inv.send, inv.send \cup {o}} : InvPlanned(o, send)
        BY <3>4 DEF InvSkip, InvPrepare
      <4>2. o \in inv.todo
        BY <3>4 DEF InvSkip, InvPrepare, IsOldest
      <4>3. inv' = [inv EXCEPT !.todo = @ \ {o}, !.send = send]
            \/ inv' = [InvIdle EXCEPT !.pc = "send", !.send = send]
        BY <4>1, <3>0 DEF InvPlanned
      <4>4. inv'.todo \cup inv'.send \cup inv'.pend \subseteq inv.todo \cup send \cup inv.pend
        <5>1. CASE inv' = [inv EXCEPT !.todo = @ \ {o}, !.send = send]
          BY <5>1, <1>0 DEF InvType
        <5>2. CASE inv' = [InvIdle EXCEPT !.pc = "send", !.send = send]
          BY <5>2 DEF InvIdle
        <5> QED BY <4>3, <5>1, <5>2
      <4> QED BY <4>1, <4>2, <4>4, <1>1
    <3>5. ASSUME NEW o \in Orders, InvCommit(o)
          PROVE  q \in mine
      BY <3>0, <3>5, <1>0, <1>1 DEF InvCommit, InvType
    <3> QED BY <2>0, <2>2, <3>1, <3>2, <3>3, <3>4, <3>5 DEF InvStep
  <2> QED BY <2>1, <2>2
<1>2. ASSUME NEW q \in Orders, ivq'[q] > 0
      PROVE  q \in PastShipment
  <2>1. PICK left \in {{}, inv.send, inv.pend} :
            ivq' = ivq \/ ivq' = InvOrphaned(left)
    BY DEF InvStart, InvStep, InvAbort, InvSend, InvVerified, InvSkip, InvPrepare,
           InvCommit, InvProcessed, partners
  <2> QED BY <2>1, <1>2, <1>a DEF PastShipment
<1>3. ASSUME NEW q \in Orders, dsco'[q].inv > 0
      PROVE  q \in PastShipment
  <2>1. dsco' = dsco \/ \E o \in inv.pend : dsco' = AddInvoice(o)
    BY DEF InvStart, InvStep, InvAbort, InvSend, InvVerified, InvSkip, InvPrepare,
           InvCommit, InvProcessed, partners
  <2>2. dsco[q].inv > 0 \/ q \in inv.pend
    BY <2>1, <1>0, <1>3 DEF AddInvoice, DscoOrder, InvType
  <2> QED BY <2>2 DEF PastShipment
<1>4. PastShipment' \subseteq PastShipment
  BY <1>g, <1>1, <1>2, <1>3 DEF PastShipment
<1> QED BY <1>4, <1>g, AfterFrame
\* The shipping task: a row moves to 4 with every good in DSCO's books,
\* whether it reported them itself or found them there.
LEMMA AfterShip ==
    ASSUME "perpkg" \notin World, TypeOK, TrackInv, AfterInv,
           NEW only \in SUBSET Orders, inv' = inv,
           \/ ShipStart(only) \/ ShipStep \/ ShipAbort
           \/ \E o \in Orders : ShipProcessed(o)
    PROVE  AfterInv'
<1>0. ship \in ShipType /\ row \in [Orders -> Row] /\ dsco \in [Orders -> DscoOrder]
  BY DEF TypeOK, PartnersTypeOK
<1>g. Grows /\ ivq' = ivq
  BY ShipGrows
<1>m. Marked
  BY DEF AfterInv, Marked
<1>1. \A q \in Orders : dsco'[q].inv = dsco[q].inv
  <2>1. ASSUME NEW o \in Orders, ShipProcessed(o)
        PROVE  \A q \in Orders : dsco'[q].inv = dsco[q].inv
    <3>1. \E t : dsco' = AddPackages(o, t) \/ dsco' = dsco
      BY <2>1 DEF ShipProcessed, ShipmentStep
    <3> QED BY <3>1, <1>0 DEF AddPackages, DscoOrder
  <2>2. ShipStart(only) \/ ShipStep \/ ShipAbort => dsco' = dsco
    BY DEF ShipStart, ShipStep, ShipAbort, ShipFetch, ShipSend, ShipVerified,
           ShipSkip, ShipNothingNew, ShipPrepare, ShipCommit, partners
  <2> QED BY <2>1, <2>2
<1>2. ASSUME NEW q \in Orders, row'[q].st = 4
      PROVE  row[q].st = 4 \/ Shipped(q)
  <2>1. ASSUME NEW o \in Orders, ShipNothingNew(o), row[q].st # 4
        PROVE  Shipped(q)
    <3>1. q = o
      BY <2>1, <1>2, <1>0 DEF ShipNothingNew, UpdateStatus, Row
    <3>2. Goods \subseteq wms[o].trk /\ wms[o].trk \subseteq Already(o)
      BY <2>1 DEF ShipNothingNew, FullyTracked, New
    <3>3. Already(o) \subseteq Known(o)
      BY DEF Already, TrackInv, Known
    <3> QED BY <3>1, <3>2, <3>3 DEF Known, Goods, Shipped
  <2>2. ASSUME NEW o \in Orders, ShipCommit(o), row[q].st # 4
        PROVE  Shipped(q)
    <3>1. q = o /\ ship.res[o] = "ok"
      BY <2>2, <1>2, <1>0 DEF ShipCommit, UpdateStatusAndTrackingNo, Row
    <3>2. Goods \subseteq ship.mark[o]
      BY <2>2, <1>m DEF ShipCommit, IsOldest, Sent, Marked
    <3>3. ship.mark[o] \subseteq Known(o)
      BY <3>1 DEF TrackInv, Known
    <3> QED BY <3>1, <3>2, <3>3 DEF Known, Goods, Shipped
  <2>3. ASSUME row' = row PROVE row[q].st = 4
    BY <2>3, <1>2
  <2> QED
    BY <2>1, <2>2, <2>3 DEF ShipStart, ShipStep, ShipAbort, ShipFetch, ShipSend,
       ShipVerified, ShipProcessed, ShipSkip, ShipPrepare
<1>3. \A q \in Orders : q \in PastShipment' => q \in PastShipment \/ Shipped(q)
  BY <1>g, <1>1, <1>2 DEF PastShipment
<1>4. \A q \in Orders : Shipped(q) => Shipped(q)'
  BY <1>g DEF Grows, Shipped
<1>5. Marked'
  <2>1. CASE ship'.send = ship.send /\ ship'.mark = ship.mark
    BY <2>1, <1>m DEF Marked
  <2>2. CASE \A q \in Orders : ship'.send[q] = {}
    BY <2>2 DEF Marked
  <2>3. ShipStart(only) \/ ShipAbort => \A q \in Orders : ship'.send[q] = {}
    <3>1. ShipStart(only) => ship'.send = Nothing
      BY DEF ShipStart, ShipIdle
    <3>2. ShipAbort => ship'.send = Nothing
      BY DEF ShipAbort, ShipIdle
    <3> QED BY <3>1, <3>2 DEF Nothing
  <2>4. ShipIdle.send = Nothing
    BY DEF ShipIdle
  <2>5. ShipFetch \/ ShipVerified \/ (\E o \in Orders : ShipProcessed(o))
           => ship'.send = ship.send /\ ship'.mark = ship.mark
    BY <1>0 DEF ShipFetch, ShipVerified, ShipProcessed, ShipType
  <2>6. ShipSend => \/ \A q \in Orders : ship'.send[q] = {}
                    \/ ship'.send = ship.send /\ ship'.mark = ship.mark
    BY <1>0, <2>4 DEF ShipSend, ShipType, Nothing
  <2>7. ASSUME NEW o \in Orders, NEW s \in SUBSET Parcels, NEW m \in SUBSET Parcels,
               ShipPlanned(o, s, m), s # {} => Goods \subseteq m
        PROVE  Marked'
    <3>1. CASE ship' = ShipIdle
      BY <3>1, <2>4 DEF Marked, Nothing
    <3>2. CASE ship' # ShipIdle
      <4>1. /\ ship'.send = [ship.send EXCEPT ![o] = s]
            /\ ship'.mark = [ship.mark EXCEPT ![o] = m]
        BY <2>7, <3>2, <1>0 DEF ShipPlanned, ShipType
      <4>2. ship.send \in [Orders -> SUBSET Parcels]
            /\ ship.mark \in [Orders -> SUBSET Parcels]
        BY <1>0 DEF ShipType
      <4> QED BY <4>1, <4>2, <2>7, <1>m DEF Marked
    <3> QED BY <3>1, <3>2
  <2>8. ASSUME NEW o \in Orders, ShipSkip(o) \/ ShipNothingNew(o) \/ ShipPrepare(o)
        PROVE  Marked'
    <3>1. CASE ShipPrepare(o)
      <4>1. New(o) \in SUBSET Parcels
        BY DEF New, TypeOK, PartnersTypeOK, WmsOrder
      <4>2. ship.loc[o] \cup ship.pkg[o] \cup New(o) \in SUBSET Parcels
        BY <4>1, <1>0 DEF ShipType
      <4>3. Goods \subseteq ship.loc[o] \cup ship.pkg[o] \cup New(o)
        BY <3>1 DEF ShipPrepare, FullyTracked, New, Already
      <4> QED BY <3>1, <4>1, <4>2, <4>3, <2>7 DEF ShipPrepare
    <3>2. ShipSkip(o) \/ ShipNothingNew(o) => ShipPlanned(o, {}, {})
      BY DEF ShipSkip, ShipNothingNew
    <3> QED BY <3>1, <3>2, <2>7, <2>8
  <2>9. ASSUME NEW o \in Orders, ShipCommit(o)
        PROVE  Marked'
    <3>1. CASE ship' = ShipIdle
      BY <3>1, <2>4 DEF Marked, Nothing
    <3>2. CASE ship' = [ship EXCEPT !.send[o] = {}, !.mark[o] = {}, !.res[o] = "none"]
      <4>1. /\ ship'.send = [ship.send EXCEPT ![o] = {}]
            /\ ship'.mark = [ship.mark EXCEPT ![o] = {}]
        BY <3>2, <1>0 DEF ShipType
      <4>2. ship.send \in [Orders -> SUBSET Parcels]
            /\ ship.mark \in [Orders -> SUBSET Parcels]
        BY <1>0 DEF ShipType
      <4> QED BY <4>1, <4>2, <1>m DEF Marked
    <3> QED BY <3>1, <3>2, <2>9 DEF ShipCommit
  <2> QED BY <2>1, <2>2, <2>3, <2>5, <2>6, <2>8, <2>9 DEF ShipStep
<1> QED BY <1>3, <1>4, <1>5 DEF AfterInv, Shipped, Marked, PastShipment
\* AfterInv is inductive, given TrackInv, if nobody writes 4 by hand.
LEMMA NextAfter ==
    ASSUME "perpkg" \notin World, 4 \notin AdminStatuses,
           TypeOK, TrackInv, AfterInv, [Next]_vars
    PROVE  AfterInv'
<1>1. CASE Pull \/ Push \/ Ack
  BY <1>1, FrontHarmless, AfterFront
<1>2. CASE Ship
  BY <1>2, AfterShip DEF Ship
<1>3. CASE Invoice
  BY <1>3, AfterInvoice DEF Invoice
<1>4. CASE Admin
  <2>1. adm.po \in SUBSET Orders
    BY DEF TypeOK, AdmType
  <2> QED BY <1>4, <2>1, AdminSplit, AfterFront, AfterShip, AfterInvoice
<1>5. CASE Environment
  BY <1>5, AfterPartners
<1>6. CASE UNCHANGED vars
  <2>1. Harmless
    BY <1>6 DEF vars, Harmless
  <2> QED BY <1>6, <2>1, AfterFront DEF vars, tasks, partners
<1> QED BY <1>1, <1>2, <1>3, <1>4, <1>5, <1>6 DEF Next

\* DSCO has an invoice only of orders it has all the goods of as shipped,
\* unless the operator writes status 4 by hand or DSCO logs packages one by
\* one.
THEOREM InvoicedAfterShipment ==
    ASSUME "perpkg" \notin World
    PROVE  Spec => []InvoiceOnlyAfterShipment
<1>1. CASE 4 \in AdminStatuses
  <2>1. InvoiceOnlyAfterShipment
    BY <1>1 DEF InvoiceOnlyAfterShipment
  <2> QED BY <2>1, PTL
<1>2. CASE 4 \notin AdminStatuses
  <2>1. Init => TypeOK /\ TrackInv /\ AfterInv
    BY InitTyped, InitTrack, InitAfter
  <2>2. TypeOK /\ TrackInv /\ AfterInv /\ [Next]_vars
           => (TypeOK /\ TrackInv /\ AfterInv)'
    BY <1>2, NextTyped, NextTrack, NextAfter
  <2>3. AfterInv => InvoiceOnlyAfterShipment
    BY DEF AfterInv, PastShipment, InvoiceOnlyAfterShipment
  <2> QED BY <2>1, <2>2, <2>3, PTL DEF Spec
<1> QED BY <1>1, <1>2
=============================================================================
