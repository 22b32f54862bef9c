------------------------------ MODULE CheckProof ------------------------------
(***************************************************************************)
(* The order check raises no false alarm while it gets its answers, for    *)
(* every set of orders, every interleaving with the tasks and every        *)
(* failure of theirs.  The argument: whatever goes wrong, the partners     *)
(* have what a row of the tasks is about, or said they took it (ListedInv, *)
(* FoundInv, SomeParcelInv, InvoiceInv); they take none of it back         *)
(* (Lasts), so it is still so when the check, which has read the row       *)
(* first, gets to read them (CheckInv).                                    *)
(***************************************************************************)
EXTENDS EvidenceProof, OrderCheck

-----------------------------------------------------------------------------
(* Orders with a row are DSCO's *)

LEMMA InitListed == Init => ListedInv
<1> SUFFICES ASSUME Init PROVE ListedInv
  OBVIOUS
<1>1. \A o \in Orders : dsco[o].st = "none" <=> row[o].st = 0
  BY DEF Init, PartnersInit
<1>2. InPage(pull.page) = {}
  BY DEF Init, PullInit, PullIdle, NoPage, InPage
<1> QED BY <1>1, <1>2 DEF ListedInv

LEMMA NextListed ==
    ASSUME TypeOK, WorkInv, ListedInv, [Next]_vars
    PROVE  ListedInv' /\ WorkInv' /\ InOrder
<1>0. row \in [Orders -> Row] /\ pull \in PullType
  BY DEF TypeOK
<1>1. CASE ~Pull
  BY <1>1, NextAside DEF Next, Aside, SameRows, InOrder, ListedInv, InPage
<1>2. CASE Pull
  <2>1. dsco' = dsco /\ InOrder
    BY <1>2, FrontHarmless DEF InOrder
  <2> SUFFICES ListedInv' /\ WorkInv'
    BY <2>1
  <2>2. Stored \subseteq Stored' => WorkInv'
    BY <1>2 DEF Pull, WorkInv, PushWork, AckWork, ShipWork, InvWork, Sent
  <2>3. ASSUME row' = row, \A o \in Orders : pull'.page[o] \in {"none", pull.page[o], dsco[o].st}
        PROVE  ListedInv' /\ WorkInv'
    BY <2>1, <2>2, <2>3 DEF ListedInv, InPage, Stored
  <2>4. CASE PullStart \/ PullManual
    BY <2>3, <2>4 DEF PullStart, PullManual, PullOpen, PullIdle, NoPage
  <2>5. CASE PullPage
    <3> DEFINE next == {o \in pull.todo :
                          Cardinality({p \in pull.todo : p < o}) < PageSize}
    <3> DEFINE page == [o \in Orders |-> IF o \in next THEN dsco[o].st ELSE "none"]
    <3>1. \/ pull' = [pc |-> "rows", todo |-> pull.todo \ next, page |-> page]
          \/ pull' = PullIdle
      BY <2>5 DEF PullPage
    <3>2. \A o \in Orders : page[o] \in {"none", dsco[o].st} /\ PullIdle.page[o] = "none"
      BY DEF PullIdle, NoPage
    <3> HIDE DEF next, page
    <3>3. pull'.page = page \/ pull' = PullIdle
      BY <3>1
    <3> QED BY <2>3, <2>5, <3>2, <3>3 DEF PullPage
  <2>6. CASE PullAbort
    BY <2>3, <2>6 DEF PullAbort, PullIdle, NoPage
  <2>7. ASSUME NEW o \in Orders, PullRow(o)
        PROVE  ListedInv' /\ WorkInv'
    <3>1. o \in InPage(pull.page) /\ SyncStatus(pull.page[o]) # 0
      BY <2>7 DEF PullRow, IsOldest, SyncStatus
    <3>2. \A q \in Orders : /\ pull'.page[q] \in {"none", pull.page[q]}
      BY <2>7, <1>0 DEF PullRow, PullType
    <3>3. row' = row \/ row' = [row EXCEPT ![o] = Cleared(SyncStatus(pull.page[o]))]
      BY <2>7 DEF PullRow, Upsert
    <3>4. \A q \in Orders : row'[q].st # 0 <=> row[q].st # 0 \/ (q = o /\ row' # row)
      BY <3>1, <3>3, <1>0 DEF Cleared
    <3>5. ListedInv'
      BY <2>1, <3>1, <3>2, <3>4 DEF ListedInv, InPage
    <3> QED BY <2>2, <3>4, <3>5 DEF Stored
  <2> QED BY <1>2, <2>4, <2>5, <2>6, <2>7 DEF Pull, PullStep
<1> QED BY <1>1, <1>2

-----------------------------------------------------------------------------
(* LingXing has the orders at 2, or said it took them *)

\* LingXing drops no order.
Kept == \A o \in Orders : /\ lx[o].n > 0 => lx'[o].n > 0
                          /\ lx[o].void => lx'[o].void

\* A step that writes no status 2.
NoTwo == \A o \in Orders : row'[o].st = 2 => row[o].st = 2 \/ 2 \in AdminStatuses

LEMMA InitFound == Init => FoundInv
  BY DEF Init, PartnersInit, PushInit, PushIdle, FoundInv, Taken

\* A step of another task, of the operator or of a partner.
LEMMA FoundFrame ==
    ASSUME FoundInv, push' = push \/ (push'.exist = {} /\ push'.pc # "update"), Kept, NoTwo
    PROVE  FoundInv'
<1>1. \A o \in Orders : Taken(o) => Taken(o)'
  BY DEF Kept, Taken
<1> QED BY <1>1 DEF FoundInv, Kept, NoTwo, IsOldest

LEMMA CreateKept ==
    ASSUME TypeOK, NEW o \in Orders, CreateInLx(o) \/ CreateVoid(o)
    PROVE  Kept /\ Taken(o)'
<1>1. lx \in [Orders -> LxOrder]
  BY DEF TypeOK, PartnersTypeOK
<1>2. \A q \in Orders : lx[q].n \in 0..2
  BY <1>1 DEF LxOrder, DupCap
<1>3. CASE CreateInLx(o)
  <2>1. /\ lx'[o].n = Bump(lx[o].n) /\ lx'[o].void = lx[o].void
        /\ \A q \in Orders : q # o => lx'[q] = lx[q]
    BY <1>1, <1>3 DEF CreateInLx
  <2> QED BY <2>1, <1>2 DEF Bump, DupCap, Kept, Taken
<1>4. CASE CreateVoid(o)
  <2>1. /\ lx'[o].n = lx[o].n /\ lx'[o].void
        /\ \A q \in Orders : q # o => lx'[q] = lx[q]
    BY <1>1, <1>4 DEF CreateVoid, LxOrder
  <2> QED BY <2>1 DEF Kept, Taken
<1> QED BY <1>3, <1>4

LEMMA PushFound ==
    ASSUME TypeOK, FoundInv, NEW only \in SUBSET Orders,
           PushStart(only) \/ PushStep \/ PushAbort
    PROVE  FoundInv' /\ Kept
<1>0. push \in PushType /\ row \in [Orders -> Row]
  BY DEF TypeOK
<1>a. (row' = row => NoTwo) /\ (lx' = lx => Kept)
  BY DEF NoTwo, Kept
<1>1. CASE PushStart(only) \/ PushAbort
  <2>1. row' = row /\ lx' = lx /\ push'.exist = {} /\ push'.pc # "update"
    <3>1. PushStart(only) => push'.exist = {} /\ push'.pc # "update"
      BY DEF PushStart, PushIdle
    <3>2. PushAbort => push'.exist = {} /\ push'.pc # "update"
      BY DEF PushAbort, PushIdle
    <3> QED BY <1>1, <3>1, <3>2 DEF PushStart, PushAbort, partners
  <2> QED BY <2>1, <1>a, FoundFrame
<1>2. CASE PushLookup
  <2>1. /\ row' = row /\ lx' = lx /\ push'.pc = "work"
        /\ \A o \in push'.exist : lx[o].n > 0
    BY <1>2, <1>0 DEF PushLookup, PushType, partners
  <2>2. \A o \in Orders : Taken(o)' <=> Taken(o)
    BY <2>1 DEF Taken
  <2> QED BY <2>1, <2>2, <1>a DEF FoundInv
<1>3. ASSUME NEW o \in Orders, PushDone(o), Kept,
             \A q \in Orders : row'[q].st = 2 => row[q].st = 2 \/ Taken(q)'
      PROVE  FoundInv' /\ Kept
  <2>1. push'.pc # "update" /\ push'.exist \subseteq push.exist
    BY <1>3, <1>0 DEF PushDone, PushIdle, PushType
  <2>2. \A q \in Orders : Taken(q) => Taken(q)'
    BY <1>3 DEF Kept, Taken
  <2> QED BY <2>1, <2>2, <1>3 DEF FoundInv, Kept
<1>4. ASSUME NEW o \in Orders, PushExisting(o) \/ PushSkip(o) \/ PushUpdate(o)
      PROVE  FoundInv' /\ Kept
  <2>1. lx' = lx /\ PushDone(o) /\ Kept
    BY <1>4 DEF PushExisting, PushSkip, PushUpdate, partners, Kept
  <2>2. row' = row \/ (UpdateStatusAndFields(o, 2) /\ Taken(o))
    BY <1>4 DEF PushExisting, PushSkip, PushUpdate, FoundInv, Taken
  <2>3. \A q \in Orders : row'[q].st = 2 => row[q].st = 2 \/ Taken(q)'
    BY <2>1, <2>2, <1>0 DEF UpdateStatusAndFields, Taken
  <2> QED BY <2>1, <2>3, <1>3
<1>5. ASSUME NEW o \in Orders, PushCreate(o)
      PROVE  FoundInv' /\ Kept
  <2>1. row' = row /\ Kept
    BY <1>5, <1>a, CreateKept DEF PushCreate
  <2>2. CASE /\ CreateInLx(o) \/ CreateVoid(o)
             /\ push' = [push EXCEPT !.pc = "update"]
    <3>1. push'.todo = push.todo /\ push'.exist = push.exist
      BY <2>2, <1>0 DEF PushType
    <3>2. Taken(o)'
      BY <2>2, CreateKept
    <3>4. \A q \in Orders : Taken(q) => Taken(q)'
      BY <2>1 DEF Kept, Taken
    <3>3. \A q \in Orders : IsOldest(q, push'.todo) => q = o
      BY <3>1, <1>5, OldestUnique DEF PushCreate
    <3> QED BY <2>1, <3>1, <3>2, <3>3, <3>4 DEF FoundInv, Kept
  <2>3. CASE PushDone(o)
    BY <2>1, <2>3, <1>3
  <2> QED BY <1>5, <2>2, <2>3 DEF PushCreate
<1> QED BY <1>1, <1>2, <1>4, <1>5 DEF PushStep

LEMMA NextFound ==
    ASSUME TypeOK, FoundInv, [Next]_vars
    PROVE  FoundInv' /\ Kept
<1>0. row \in [Orders -> Row] /\ lx \in [Orders -> LxOrder]
  BY DEF TypeOK, PartnersTypeOK
<1>a. (row' = row => NoTwo) /\ (lx' = lx => Kept)
  BY DEF NoTwo, Kept
<1>b. ASSUME NEW o \in Orders, NEW s \in 0..6, NEW t, s # 2 \/ 2 \in AdminStatuses,
             \/ Upsert(o, s) \/ UpdateStatusAndFields(o, s) \/ UpdateStatus(o, s)
             \/ UpdateStatusAndTrackingNo(o, s, t) \/ UpdateStatusAndInvoiceID(o, s)
      PROVE  NoTwo
  BY <1>b, <1>0 DEF Upsert, UpdateStatusAndFields, UpdateStatus, UpdateStatusAndTrackingNo,
                    UpdateStatusAndInvoiceID, Cleared, NoTwo, Row
<1>1. CASE Pull \/ Ack \/ Ship \/ Invoice
  <2>1. push' = push /\ lx' = lx
    BY <1>1, OthersCreate
  <2>2. CASE Pull
    <3>1. ASSUME NEW o \in Orders, PullRow(o)
          PROVE  NoTwo
      BY <3>1, <1>a, <1>b DEF PullRow, SyncStatus
    <3>2. PullStart \/ PullManual \/ PullPage \/ PullAbort => NoTwo
      BY <1>a DEF PullStart, PullManual, PullOpen, PullPage, PullAbort
    <3> QED BY <2>1, <2>2, <3>1, <3>2, <1>a, FoundFrame DEF Pull, PullStep
  <2>3. CASE Ack
    <3>1. ASSUME NEW o \in Orders, AckConfirmed(o) \/ AckSort(o) \/ AckCommit(o)
          PROVE  NoTwo
      BY <3>1, <1>a, <1>b DEF AckConfirmed, AckSort, AckCommit
    <3>2. AckStart({}) \/ AckFetch \/ AckList \/ AckSend \/ AckAbort => NoTwo
      BY <1>a DEF AckStart, AckFetch, AckList, AckSend, AckAbort
    <3> QED BY <2>1, <2>3, <3>1, <3>2, <1>a, FoundFrame DEF Ack, AckStep
  <2>4. CASE Ship
    <3>1. ASSUME NEW o \in Orders,
                 ShipSkip(o) \/ ShipNothingNew(o) \/ ShipPrepare(o) \/ ShipCommit(o)
          PROVE  NoTwo
      BY <3>1, <1>a, <1>b DEF ShipSkip, ShipNothingNew, ShipPrepare, ShipCommit
    <3>2. ASSUME NEW o \in Orders, ShipProcessed(o)
          PROVE  NoTwo
      BY <3>2, <1>a DEF ShipProcessed
    <3>3. ShipStart({}) \/ ShipFetch \/ ShipSend \/ ShipVerified \/ ShipAbort => NoTwo
      BY <1>a DEF ShipStart, ShipFetch, ShipSend, ShipVerified, ShipAbort
    <3> QED BY <2>1, <2>4, <3>1, <3>2, <3>3, <1>a, FoundFrame DEF Ship, ShipStep
  <2>5. CASE Invoice
    <3>1. ASSUME NEW o \in Orders, InvSkip(o) \/ InvPrepare(o) \/ InvCommit(o)
          PROVE  NoTwo
      BY <3>1, <1>a, <1>b DEF InvSkip, InvPrepare, InvCommit
    <3>2. ASSUME NEW o \in Orders, InvProcessed(o)
          PROVE  NoTwo
      BY <3>2, <1>a DEF InvProcessed
    <3>3. InvStart({}) \/ InvSend \/ InvVerified \/ InvAbort => NoTwo
      BY <1>a DEF InvStart, InvSend, InvVerified, InvAbort
    <3> QED BY <2>1, <2>5, <3>1, <3>2, <3>3, <1>a, FoundFrame DEF Invoice, InvStep
  <2> QED BY <1>1, <2>2, <2>3, <2>4, <2>5
<1>2. CASE Push
  BY <1>2, PushFound DEF Push
<1>3. CASE Admin
  <2>1. adm.po \in SUBSET Orders
    BY DEF TypeOK, AdmType
  <2>2. (push' = push \/ PushStart(adm.po)) /\ lx' = lx
    BY <1>3 DEF Admin, AdminSetStatus, AdminRead, AdminNoRun, AdminRun, PushStart,
                AckStart, ShipStart, InvStart, tasks, partners
  <2>3. ASSUME NEW o \in Orders, NEW s \in AdminStatuses, AdminSetStatus(o, s)
        PROVE  NoTwo
    BY <2>3, <1>b, AdminAssumption DEF AdminSetStatus
  <2>4. AdminRun \/ AdminNoRun \/ (\E o \in Orders : AdminRead(o)) => NoTwo
    BY <1>a DEF AdminRead, AdminNoRun, AdminRun, PushStart, AckStart, ShipStart, InvStart
  <2>5. NoTwo
    BY <1>3, <2>3, <2>4 DEF Admin
  <2> QED BY <2>1, <2>2, <2>5, <1>a, FoundFrame, PushFound
<1>4. CASE Environment
  <2>1. row' = row /\ push' = push
    BY <1>4 DEF Environment, tasks
  <2>2. Kept
    <3> PICK o \in Orders :
          \/ Arrive(o) \/ AutoAck(o) \/ Cancel(o) \/ Complete(o) \/ Review(o)
          \/ \E p \in Parcels : Outbound(o, p) \/ AssignTracking(o, p)
          \/ AckProcessed(o) \/ LateShipment(o) \/ LateInvoice(o)
      BY <1>4 DEF Environment, PartnerStep
    <3>1. Review(o) => Kept
      BY <1>0 DEF Review, Kept, LxOrder
    <3>2. ~Review(o) => lx' = lx
      BY DEF Arrive, AutoAck, Cancel, Complete, DscoMove, Outbound, AssignTracking,
             AckProcessed, LateShipment, LateInvoice
    <3> QED BY <3>1, <3>2, <1>a
  <2> QED BY <2>1, <2>2, <1>a, FoundFrame
<1>5. CASE UNCHANGED vars
  BY <1>5, <1>a, FoundFrame DEF vars, tasks, partners
<1> QED BY <1>1, <1>2, <1>3, <1>4, <1>5 DEF Next

-----------------------------------------------------------------------------
(* Orders at 4 are shipped *)

PackedShipped == \A o \in Orders : dsco[o].pkg # {} => dsco[o].st \in {"shipped", "completed"}

\* What only an order with a package has.
Claims(o) == \/ row[o].st = 4 /\ 4 \notin AdminStatuses
             \/ row[o].trk # {} \/ ship.loc[o] # {} \/ ship.pkg[o] # {}
             \/ ship.res[o] = "ok"

LEMMA SomeParcelIs ==
    SomeParcelInv <=> PackedShipped /\ \A o \in Orders : Claims(o) => dsco[o].pkg # {}
  BY DEF SomeParcelInv, PackedShipped, Claims

LEMMA InitParcel == Init => SomeParcelInv
<1> SUFFICES ASSUME Init PROVE SomeParcelInv
  OBVIOUS
<1>1. PICK f \in [Orders -> Start] : row = [o \in Orders |-> Cleared(f[o])]
  BY DEF Init, RowInit
<1>2. \A o \in Orders : row[o].st = f[o] /\ f[o] \in 0..3 /\ row[o].trk = {}
  BY <1>1, StartAssumption DEF Cleared
<1>3. \A o \in Orders : dsco[o].pkg = {}
  BY DEF Init, PartnersInit
<1>4. \A o \in Orders : ship.loc[o] = {} /\ ship.pkg[o] = {} /\ ship.res[o] = "none"
  BY DEF Init, ShipInit, ShipIdle, Nothing
<1> QED BY <1>2, <1>3, <1>4 DEF SomeParcelInv

LEMMA AddPacked ==
    ASSUME dsco \in [Orders -> DscoOrder], PackedShipped, NEW o \in Orders,
           NEW t \in SUBSET Parcels, t = {} \/ TakesShipment(o), dsco' = AddPackages(o, t)
    PROVE  PackedShipped'
  BY DEF PackedShipped, TakesShipment, AddPackages, DscoOrder, DscoStatus

LEMMA ShipPacked ==
    ASSUME TypeOK, PackedShipped, NEW only \in SUBSET Orders,
           \/ ShipStart(only) \/ ShipStep \/ ShipAbort
           \/ \E o \in Orders : ShipProcessed(o)
    PROVE  PackedShipped'
<1>0. ship \in ShipType /\ dsco \in [Orders -> DscoOrder]
  BY DEF TypeOK, PartnersTypeOK
<1>1. dsco' = dsco => PackedShipped'
  BY DEF PackedShipped
<1>2. ASSUME NEW o \in Orders, ShipProcessed(o)
      PROVE  PackedShipped'
  <2>1. PICK done \in SUBSET ship.pend[o], ok \in BOOLEAN :
           ShipmentStep(o, ship.pend[o], done, ok)
    BY <1>2 DEF ShipProcessed
  <2>2. \/ dsco' = dsco
        \/ TakesShipment(o) /\ \E t \in SUBSET Parcels : dsco' = AddPackages(o, t)
    BY <2>1, <1>0 DEF ShipmentStep, ShipType
  <2> QED BY <2>2, <1>0, <1>1, AddPacked
<1>3. ShipStart(only) \/ ShipStep \/ ShipAbort => dsco' = dsco
  BY DEF ShipStart, ShipStep, ShipAbort, ShipFetch, ShipSend, ShipVerified, ShipSkip,
         ShipNothingNew, ShipPrepare, ShipCommit, partners
<1> QED BY <1>1, <1>2, <1>3

LEMMA NextPacked ==
    ASSUME TypeOK, PackedShipped, [Next]_vars
    PROVE  PackedShipped'
<1>0. dsco \in [Orders -> DscoOrder] /\ shq \in [Orders -> SUBSET (SUBSET Parcels)]
  BY DEF TypeOK, PartnersTypeOK
<1>a. dsco' = dsco => PackedShipped'
  BY DEF PackedShipped
<1>b. ASSUME NEW o \in Orders, dsco' = AddInvoice(o)
      PROVE  PackedShipped'
  BY <1>b, <1>0 DEF AddInvoice, PackedShipped, DscoOrder
<1>1. CASE Pull \/ Push \/ Ack
  BY <1>1, <1>a, FrontHarmless
<1>2. CASE Ship
  BY <1>2, ShipPacked DEF Ship
<1>3. CASE Invoice
  <2>1. dsco' = dsco \/ \E o \in Orders : dsco' = AddInvoice(o)
    BY <1>3 DEF Invoice, InvStart, InvStep, InvAbort, InvProcessed, InvSend, InvVerified,
                InvSkip, InvPrepare, InvCommit, partners
  <2> QED BY <2>1, <1>a, <1>b
<1>4. CASE Admin
  BY <1>4, <1>a DEF Admin, AdminRead, AdminSetStatus, AdminNoRun, AdminRun, PushStart,
                    AckStart, ShipStart, InvStart, partners
<1>5. CASE Environment
  <2> PICK o \in Orders :
        \/ Arrive(o) \/ AutoAck(o) \/ Cancel(o) \/ Complete(o) \/ Review(o)
        \/ \E p \in Parcels : Outbound(o, p) \/ AssignTracking(o, p)
        \/ AckProcessed(o) \/ LateShipment(o) \/ LateInvoice(o)
    BY <1>5 DEF Environment, PartnerStep
  <2>1. CASE Arrive(o) \/ AutoAck(o) \/ Cancel(o) \/ Complete(o)
    BY <2>1, <1>0 DEF Arrive, AutoAck, Cancel, Complete, DscoMove, PackedShipped, DscoOrder
  <2>2. CASE Review(o) \/ \E p \in Parcels : Outbound(o, p) \/ AssignTracking(o, p)
    BY <2>2, <1>a DEF Review, Outbound, AssignTracking
  <2>3. CASE AckProcessed(o)
    BY <2>3, <1>0, <1>a DEF AckProcessed, PackedShipped, DscoOrder
  <2>4. CASE LateShipment(o)
    <3>1. \E t \in SUBSET Parcels : /\ t = {} \/ TakesShipment(o)
                                    /\ dsco' = AddPackages(o, t)
      <4>1. PICK s \in shq[o] :
               \E t \in CASE ~TakesShipment(o)    -> {{}}
                          [] TakesShipment(o) /\ "reject" \in Faults -> SUBSET s
                          [] OTHER               -> {s} :
                  dsco' = AddPackages(o, t)
        BY <2>4 DEF LateShipment
      <4>2. s \in SUBSET Parcels
        BY <1>0
      <4>3. CASE TakesShipment(o)
        BY <4>1, <4>2, <4>3
      <4>4. CASE ~TakesShipment(o)
        BY <4>1, <4>4
      <4> QED BY <4>3, <4>4
    <3> QED BY <3>1, <1>0, AddPacked
  <2>5. CASE LateInvoice(o)
    BY <2>5, <1>a, <1>b DEF LateInvoice
  <2> QED BY <2>1, <2>2, <2>3, <2>4, <2>5
<1>6. CASE UNCHANGED vars
  BY <1>6, <1>a DEF vars, partners
<1> QED BY <1>1, <1>2, <1>3, <1>4, <1>5, <1>6 DEF Next

Claimed == \A o \in Orders : Claims(o) => dsco[o].pkg # {}

\* Nothing new is claimed but of an order with a package.
LEMMA ClaimedStep ==
    ASSUME Claimed, Grows, \A o \in Orders : Claims(o)' => Claims(o) \/ dsco[o].pkg # {}
    PROVE  Claimed'
  BY DEF Claimed, Grows

\* A step that leaves the shipping task's memory alone.
LEMMA ClaimedFrame ==
    ASSUME Claimed, Grows, ship' = ship,
           \A o \in Orders : /\ row'[o].trk \subseteq row[o].trk
                             /\ row'[o].st = 4 => row[o].st = 4 \/ 4 \in AdminStatuses
    PROVE  Claimed'
<1>1. \A o \in Orders : Claims(o)' => Claims(o)
  BY DEF Claims
<1> QED BY <1>1, ClaimedStep

LEMMA ShipClaimed ==
    ASSUME TypeOK, Claimed, NEW only \in SUBSET Orders,
           \/ ShipStart(only) \/ ShipStep \/ ShipAbort
           \/ \E o \in Orders : ShipProcessed(o)
    PROVE  Claimed'
<1>0. ship \in ShipType /\ row \in [Orders -> Row] /\ dsco \in [Orders -> DscoOrder]
  BY DEF TypeOK, PartnersTypeOK
<1>a. Grows
  BY ShipGrows
<1>b. \A o \in Orders : ShipIdle.loc[o] = {} /\ ShipIdle.pkg[o] = {} /\ ShipIdle.res[o] = "none"
  BY DEF ShipIdle, Nothing
\* A step that only forgets, or reads DSCO's packages.
<1>c. ASSUME row' = row,
             \A o \in Orders :
                 /\ ship'.loc[o] \in {ship.loc[o], row[o].trk, {}}
                 /\ ship'.pkg[o] \in {ship.pkg[o], dsco[o].pkg, {}}
                 /\ ship'.res[o] \in {ship.res[o], "none"}
      PROVE  Claimed'
  <2>1. \A o \in Orders : Claims(o)' => Claims(o) \/ dsco[o].pkg # {}
    BY <1>c DEF Claims
  <2> QED BY <2>1, <1>a, ClaimedStep
<1>1. CASE ShipStart(only)
  <2>1. /\ row' = row
        /\ \A o \in Orders : /\ ship'.loc[o] \in {row[o].trk, {}}
                              /\ ship'.pkg[o] = {} /\ ship'.res[o] = "none"
    BY <1>1 DEF ShipStart, ShipIdle, Nothing
  <2> QED BY <2>1, <1>c
<1>2. CASE ShipAbort
  BY <1>2, <1>b, <1>c DEF ShipAbort
<1>3. CASE ShipFetch
  <2>1. /\ row' = row /\ ship'.loc = ship.loc /\ ship'.res = ship.res
        /\ \A o \in Orders : ship'.pkg[o] \in {dsco[o].pkg, {}}
    BY <1>0, <1>3 DEF ShipFetch, ShipType
  <2> QED BY <2>1, <1>c
<1>4. CASE ShipSend
  <2>1. CASE ship' = [ship EXCEPT !.pc = "wait", !.pend = ship.send]
    <3>1. ship'.loc = ship.loc /\ ship'.pkg = ship.pkg /\ ship'.res = ship.res
      BY <2>1, <1>0 DEF ShipType
    <3> QED BY <3>1, <1>4, <1>c DEF ShipSend
  <2>2. CASE ship' = ShipIdle
    BY <2>2, <1>4, <1>b, <1>c DEF ShipSend
  <2> QED BY <1>4, <2>1, <2>2 DEF ShipSend
<1>5. CASE ShipVerified
  <2>1. /\ row' = row /\ ship'.loc = ship.loc /\ ship'.pkg = ship.pkg /\ ship'.res = ship.res
    BY <1>0, <1>5 DEF ShipVerified, ShipType
  <2> QED BY <2>1, <1>c
<1>6. ASSUME NEW o \in Orders, ShipProcessed(o)
      PROVE  Claimed'
  <2>1. PICK done \in SUBSET ship.pend[o], ok \in BOOLEAN :
           /\ ShipmentStep(o, ship.pend[o], done, ok)
           /\ ship' = [ship EXCEPT
                         !.pend[o] = @ \ done,
                         !.res[o]  = IF ok /\ @ # "fail" THEN "ok" ELSE "fail"]
    BY <1>6 DEF ShipProcessed
  <2>2. row' = row /\ ship.pend[o] # {}
    BY <1>6 DEF ShipProcessed
  <2>3. done # {} /\ done \in SUBSET Parcels
    <3>1. done # {}
      BY <2>1, <2>2 DEF ShipmentStep
    <3>2. ship.pend[o] \in SUBSET Parcels
      BY <1>0 DEF ShipType
    <3> QED BY <3>1, <3>2
  <2>4. ok => dsco'[o].pkg # {}
    BY <2>1, <2>3, <1>0 DEF ShipmentStep, AddPackages, DscoOrder
  <2>5. /\ ship'.loc = ship.loc /\ ship'.pkg = ship.pkg
        /\ \A q \in Orders : q # o => ship'.res[q] = ship.res[q]
        /\ ship'.res[o] = "ok" => ok
    BY <1>0, <2>1 DEF ShipType
  <2>6. \A q \in Orders : Claims(q)' => Claims(q) \/ dsco'[q].pkg # {}
    BY <2>2, <2>4, <2>5 DEF Claims
  <2> QED BY <2>6, <1>a DEF Claimed, Grows
<1>7. ASSUME NEW o \in Orders, NEW s, NEW m, ShipPlanned(o, s, m)
      PROVE  \A q \in Orders : /\ ship'.loc[q] \in {ship.loc[q], {}}
                               /\ ship'.pkg[q] \in {ship.pkg[q], {}}
                               /\ ship'.res[q] \in {ship.res[q], "none"}
  <2>1. CASE ship' = ShipIdle
    BY <2>1, <1>b
  <2>2. CASE ship' # ShipIdle
    BY <1>7, <2>2, <1>0 DEF ShipPlanned, ShipType
  <2> QED BY <2>1, <2>2
<1>8. ASSUME NEW o \in Orders, ShipSkip(o) \/ ShipPrepare(o)
      PROVE  Claimed'
  <2>1. row' = row /\ \E s, m : ShipPlanned(o, s, m)
    BY <1>8 DEF ShipSkip, ShipPrepare
  <2> QED BY <2>1, <1>7, <1>c
<1>9. ASSUME NEW o \in Orders, ShipNothingNew(o)
      PROVE  Claimed'
  <2>1. dsco[o].pkg # {}
    <3>1. Already(o) # {}
      BY <1>9, GoodsAssumption DEF ShipNothingNew, FullyTracked, New, Goods
    <3>2. ship.loc[o] # {} \/ ship.pkg[o] # {}
      BY <3>1 DEF Already
    <3> QED BY <3>2 DEF Claimed, Claims
  <2>2. \A q \in Orders : /\ row'[q].trk = row[q].trk
                          /\ q # o => row'[q].st = row[q].st
    BY <1>9, <1>0 DEF ShipNothingNew, UpdateStatus, Row
  <2>3. ShipPlanned(o, {}, {})
    BY <1>9 DEF ShipNothingNew
  <2>4. \A q \in Orders : Claims(q)' => Claims(q) \/ dsco[q].pkg # {}
    BY <2>1, <2>2, <2>3, <1>7 DEF Claims
  <2> QED BY <2>4, <1>a, ClaimedStep
<1>10. ASSUME NEW o \in Orders, ShipCommit(o)
       PROVE  Claimed'
  <2>1. \A q \in Orders : /\ ship'.loc[q] \in {ship.loc[q], {}}
                          /\ ship'.pkg[q] \in {ship.pkg[q], {}}
                          /\ ship'.res[q] \in {ship.res[q], "none"}
    <3>1. CASE ship' = ShipIdle
      BY <3>1, <1>b
    <3>2. CASE ship' = [ship EXCEPT !.send[o] = {}, !.mark[o] = {}, !.res[o] = "none"]
      BY <3>2, <1>0 DEF ShipType
    <3> QED BY <1>10, <3>1, <3>2 DEF ShipCommit
  <2>2. CASE row' = row
    BY <2>1, <2>2, <1>c
  <2>3. CASE ship.res[o] = "ok" /\ UpdateStatusAndTrackingNo(o, 4, ship.mark[o])
    <3>1. dsco[o].pkg # {}
      BY <2>3 DEF Claimed, Claims
    <3>2. \A q \in Orders : q # o => row'[q] = row[q]
      BY <2>3, <1>0 DEF UpdateStatusAndTrackingNo
    <3>3. \A q \in Orders : Claims(q)' => Claims(q) \/ dsco[q].pkg # {}
      BY <2>1, <3>1, <3>2 DEF Claims
    <3> QED BY <3>3, <1>a, ClaimedStep
  <2> QED BY <1>10, <2>2, <2>3 DEF ShipCommit
<1> QED BY <1>1, <1>2, <1>3, <1>4, <1>5, <1>6, <1>8, <1>9, <1>10 DEF ShipStep

LEMMA NextParcel ==
    ASSUME TypeOK, SomeParcelInv, [Next]_vars
    PROVE  SomeParcelInv'
<1>0. dsco' = dsco => Grows
  BY DEF Grows
<1>a. PackedShipped /\ Claimed
  BY SomeParcelIs DEF Claimed
<1>b. Claimed' => SomeParcelInv'
  BY <1>a, NextPacked DEF SomeParcelInv, PackedShipped, Claimed, Claims
<1>1. CASE Pull \/ Push \/ Ack
  BY <1>1, <1>0, <1>a, <1>b, FrontHarmless, ClaimedFrame DEF Harmless
<1>2. CASE Ship
  BY <1>2, <1>a, <1>b, ShipClaimed DEF Ship
<1>3. CASE Invoice
  BY <1>3, <1>a, <1>b, InvGrows, ClaimedFrame DEF Invoice
<1>4. CASE Admin
  <2>1. adm.po \in SUBSET Orders
    BY DEF TypeOK, AdmType
  <2> QED BY <1>4, <1>0, <1>a, <1>b, <2>1, AdminSplit, ShipClaimed, InvGrows, ClaimedFrame
             DEF Harmless
<1>5. CASE Environment
  BY <1>5, <1>a, <1>b, PartnersGrow, ClaimedFrame DEF Environment, tasks, TypeOK
<1>6. CASE UNCHANGED vars
  BY <1>6, <1>0, <1>a, <1>b, ClaimedFrame DEF vars, tasks, partners
<1> QED BY <1>1, <1>2, <1>3, <1>4, <1>5, <1>6 DEF Next

-----------------------------------------------------------------------------
(* The check *)

\* What the table and the partners have at any moment.
ShownInv == WorkInv /\ ListedInv /\ FoundInv /\ SomeParcelInv /\ InvoiceInv

\* The partners take nothing back of what a verdict looks for.
Lasts == \A o \in Orders : /\ dsco[o].st # "none" => dsco'[o].st # "none"
                           /\ lx[o].n > 0 => lx'[o].n > 0
                           /\ lx[o].void => lx'[o].void
                           /\ dsco[o].pkg # {} => dsco'[o].pkg # {}
                           /\ dsco[o].inv > 0 => dsco'[o].inv > 0

\* What a row the check has read is about, the partners have.
CopyInv ==
    \A o \in Orders :
        LET r == check.local[o]
        IN  /\ r.st # 0 => o \in check.asked /\ dsco[o].st # "none"
            /\ r.st = 2 => Taken(o) \/ 2 \in AdminStatuses
            /\ r.st = 4 => dsco[o].pkg # {} \/ 4 \in AdminStatuses
            /\ r.inv => dsco[o].inv > 0

\* And a check that gets its answers has seen it, once it has read them.
Sighted == /\ "dsco" \notin check.blind
           /\ check.one \/ Cardinality(check.asked) <= CheckMax

SightInv ==
    Sighted => \A o \in Orders :
        LET r == check.local[o]
        IN  /\ check.pc \in {"lingxing", "invoices"} =>
                  /\ r.st # 0 => check.seen[o] # "none"
                  /\ r.st = 4 => check.seen[o] \in {"shipped", "completed"} \/ 4 \in AdminStatuses
            /\ check.pc = "invoices" =>
                  /\ r.st = 2 /\ "lingxing" \notin check.blind =>
                        o \in check.listed \/ lx[o].void \/ 2 \in AdminStatuses
                  /\ r.st = 5 /\ r.inv /\ "invoices" \notin check.blind =>
                        o \in check.todo \cup check.billed

CheckInv == CheckTypeOK /\ CopyInv /\ SightInv

LEMMA NextShown ==
    ASSUME TypeOK, ShownInv, [Next]_vars
    PROVE  ShownInv' /\ Lasts
<1>1. WorkInv' /\ ListedInv' /\ InOrder
  BY NextListed DEF ShownInv
<1>2. FoundInv' /\ Kept
  BY NextFound DEF ShownInv
<1>3. SomeParcelInv' /\ InvoiceInv' /\ Grows
  BY NextParcel, NextInvoice, NextGrows DEF ShownInv
<1> QED BY <1>1, <1>2, <1>3 DEF ShownInv, Lasts, InOrder, Kept, Grows

LEMMA InitChecked == CheckInit => CheckInv
<1> SUFFICES ASSUME CheckInit PROVE CheckInv
  OBVIOUS
<1>1. /\ check.pc = "idle" /\ check.blind = {}
      /\ \A o \in Orders : check.local[o] = Cleared(0)
  BY DEF CheckInit, CheckIdle
<1>2. CheckTypeOK
  BY DEF CheckInit, CheckIdle, CheckTypeOK, CheckType, Cleared, Row, DscoStatus, Sources
<1> QED BY <1>1, <1>2 DEF CheckInv, CopyInv, SightInv, Cleared

\* The check stands still while the others go on.
LEMMA CheckWaits ==
    ASSUME CheckInv, Lasts, check' = check
    PROVE  CheckInv'
<1>1. CheckTypeOK' /\ SightInv'
  BY DEF CheckInv, CheckTypeOK, SightInv, Sighted, Lasts
<1>2. CopyInv'
  BY DEF CheckInv, CopyInv, Lasts, Taken
<1> QED BY <1>1, <1>2 DEF CheckInv

\* A range that is not cut off is read as a whole.
LEMMA PageIsWhole ==
    ASSUME CheckTypeOK, check.one \/ Cardinality(check.asked) <= CheckMax,
           NEW o \in check.asked, dsco[o].st # "none"
    PROVE  o \in DscoPage
<1> DEFINE there == {q \in check.asked : dsco[q].st # "none"}
           before == {q \in there : q < o}
<1>0. check.asked \subseteq Orders
  BY DEF CheckTypeOK, CheckType
<1>1. CASE check.one
  BY <1>1 DEF DscoPage
<1>2. CASE ~check.one
  <2>1. IsFiniteSet(check.asked)
    BY <1>0, OrdersAssumption, FS_Subset
  <2>2. before \subseteq check.asked \ {o}
    <3>1. o \in Nat
      BY <1>0, OrdersAssumption DEF OrdersAssumption
    <3>2. ~(o < o)
      BY <3>1
    <3> QED BY <3>2
  <2>3. /\ IsFiniteSet(check.asked \ {o})
        /\ Cardinality(check.asked \ {o}) = Cardinality(check.asked) - 1
    BY <2>1, FS_RemoveElement
  <2>4. IsFiniteSet(before) /\ Cardinality(before) <= Cardinality(check.asked) - 1
    BY <2>2, <2>3, FS_Subset
  <2>5. Cardinality(check.asked) \in Nat /\ Cardinality(before) \in Nat
    BY <2>1, <2>4, FS_CardinalityType
  <2>6. Cardinality(before) < CheckMax
    BY <1>2, <2>4, <2>5, CheckMaxAssumption
  <2> QED BY <1>2, <2>6 DEF DscoPage
<1> QED BY <1>1, <1>2

\* A step of the check.
LEMMA CheckSteps ==
    ASSUME TypeOK, ShownInv, CheckInv, CheckStep, UNCHANGED vars
    PROVE  CheckInv'
<1>0. /\ check \in CheckType /\ row \in [Orders -> Row] /\ dsco \in [Orders -> DscoOrder]
      /\ lx \in [Orders -> LxOrder]
  BY DEF CheckInv, CheckTypeOK, TypeOK, PartnersTypeOK
<1>a. /\ row' = row /\ dsco' = dsco /\ lx' = lx
      /\ \A o \in Orders : Taken(o)' <=> Taken(o)
  BY DEF vars, partners, Taken
<1>b. check' = CheckIdle => CheckInv'
  BY DEF CheckIdle, CheckInv, CopyInv, SightInv, CheckTypeOK, CheckType, Cleared, Row,
         DscoStatus, Sources
<1>1. ASSUME NEW asked \in SUBSET Orders, NEW one \in BOOLEAN, CheckStart(asked, one)
      PROVE  CheckInv'
  <2>1. /\ check'.pc = "dsco" /\ check'.asked = asked
        /\ check'.local = [o \in Orders |-> IF o \in asked THEN row[o] ELSE Cleared(0)]
    BY <1>1 DEF CheckStart, CheckIdle
  <2>2. CheckTypeOK'
    <3>1. CheckIdle \in CheckType
      BY DEF CheckIdle, CheckType, Cleared, Row, DscoStatus, Sources
    <3>2. check'.local \in [Orders -> Row]
      BY <2>1, <1>0 DEF Cleared, Row
    <3>3. check' = [CheckIdle EXCEPT !.pc = "dsco", !.asked = asked, !.one = one,
                                     !.local = check'.local]
      BY <1>1, <2>1 DEF CheckStart
    <3> QED BY <3>1, <3>2, <3>3 DEF CheckTypeOK, CheckType
  <2>3. CopyInv'
    BY <2>1, <1>a DEF CopyInv, Cleared, ShownInv, ListedInv, FoundInv, SomeParcelInv, InvoiceInv
  <2>4. SightInv'
    BY <2>1 DEF SightInv
  <2> QED BY <2>2, <2>3, <2>4 DEF CheckInv
<1>c. \A found \in SUBSET Orders : Shown(found) \in [Orders -> DscoStatus \cup {"blank"}]
  BY <1>0 DEF Shown, DscoOrder, DscoStatus
<1>2. ASSUME NEW seen \in [Orders -> DscoStatus \cup {"blank"}], NEW blind \in SUBSET Sources,
             CheckSee(seen, blind), "dsco" \in blind \/ seen = Shown(DscoPage)
      PROVE  CheckInv'
  <2>1. /\ check'.pc = "lingxing" /\ check'.blind = blind /\ check'.one = check.one
        /\ check'.asked = check.asked /\ check'.local = check.local
        /\ check'.seen = seen
    BY <1>2, <1>0 DEF CheckSee, CheckType
  <2>2. CheckTypeOK'
    BY <1>2, <1>0 DEF CheckSee, CheckTypeOK, CheckType
  <2>3. CopyInv'
    BY <2>1, <1>a DEF CheckInv, CopyInv
  <2>4. SightInv'
    <3> SUFFICES ASSUME Sighted', NEW o \in Orders
                 PROVE  LET r == check.local[o]
                        IN  /\ r.st # 0 => check'.seen[o] # "none"
                            /\ r.st = 4 => \/ check'.seen[o] \in {"shipped", "completed"}
                                           \/ 4 \in AdminStatuses
      BY <2>1 DEF SightInv
    <3>1. seen = Shown(DscoPage) /\ (check.one \/ Cardinality(check.asked) <= CheckMax)
      BY <1>2, <2>1 DEF Sighted
    <3>2. check.local[o].st # 0 => o \in DscoPage /\ dsco[o].st # "none"
      BY <3>1, PageIsWhole DEF CheckInv, CopyInv
    <3>3. check.local[o].st = 4 =>
             dsco[o].st \in {"shipped", "completed"} \/ 4 \in AdminStatuses
      BY DEF CheckInv, CopyInv, ShownInv, SomeParcelInv
    <3> QED BY <2>1, <3>1, <3>2, <3>3 DEF Shown
  <2> QED BY <2>2, <2>3, <2>4 DEF CheckInv
<1>3. CASE CheckDsco
  <2>1. DscoPage \subseteq Orders
    BY <1>0 DEF DscoPage, CheckType
  <2>2. {} \in SUBSET Sources /\ {"dsco"} \in SUBSET Sources
    BY DEF Sources
  <2>3. CASE CheckSee(Shown(DscoPage), {})
    BY <2>1, <2>2, <2>3, <1>c, <1>2
  <2>4. CASE \E answer \in {"none", "blank"} :
                CheckSee([o \in Orders |-> IF o \in check.asked THEN answer ELSE "none"],
                         {"dsco"})
    <3>1. PICK answer \in {"none", "blank"} :
             CheckSee([o \in Orders |-> IF o \in check.asked THEN answer ELSE "none"],
                      {"dsco"})
      BY <2>4
    <3>2. [o \in Orders |-> IF o \in check.asked THEN answer ELSE "none"]
             \in [Orders -> DscoStatus \cup {"blank"}]
      BY <3>1 DEF DscoStatus
    <3> QED BY <3>1, <3>2, <2>2, <1>2
  <2>5. CASE \E part \in SUBSET DscoPage : CheckSee(Shown(part), {"dsco"})
    <3>1. PICK part \in SUBSET DscoPage : CheckSee(Shown(part), {"dsco"})
      BY <2>5
    <3>2. Shown(part) \in [Orders -> DscoStatus \cup {"blank"}]
      BY <3>1, <2>1, <1>c
    <3> QED BY <3>1, <3>2, <2>2, <1>2
  <2> QED BY <1>3, <2>3, <2>4, <2>5, <1>b DEF CheckDsco
<1>4. CASE CheckLingXing
  <2> DEFINE there == {o \in LocalWith(2) : lx[o].n > 0}
  <2>1. PICK listed, blind :
           /\ check' = [check EXCEPT !.pc = "invoices", !.todo = LocalWith(5),
                         !.listed = listed, !.blind = @ \cup blind]
           /\ \/ listed = there /\ blind = {}
              \/ listed \subseteq there /\ blind = {"lingxing"}
    BY <1>4 DEF CheckLingXing
  <2>2. /\ check'.pc = "invoices" /\ check'.asked = check.asked /\ check'.one = check.one
        /\ check'.local = check.local /\ check'.seen = check.seen
        /\ check'.todo = LocalWith(5) /\ check'.blind = check.blind \cup blind
        /\ "lingxing" \notin blind => check'.listed = there
    BY <2>1, <1>0 DEF CheckType
  <2>3. CheckTypeOK'
    <3>1. there \in SUBSET Orders /\ LocalWith(5) \in SUBSET Orders
      BY DEF LocalWith
    <3>2. listed \in SUBSET Orders /\ blind \in SUBSET Sources
      BY <2>1, <3>1 DEF Sources
    <3> QED BY <2>1, <3>1, <3>2, <1>0 DEF CheckTypeOK, CheckType
  <2>4. CopyInv'
    BY <2>2, <1>a DEF CheckInv, CopyInv
  <2>5. /\ Sighted' => Sighted
        /\ "lingxing" \notin check'.blind => check'.listed = there
    BY <2>2 DEF Sighted
  <2>6. check.pc = "lingxing"
    BY <1>4 DEF CheckLingXing
  <2>7. \A o \in Orders : check.local[o].st = 2 =>
                             o \in there \/ lx[o].void \/ 2 \in AdminStatuses
    BY DEF CheckInv, CopyInv, Taken, LocalWith
  <2> HIDE DEF there
  <2>8. SightInv'
    BY <2>2, <2>5, <2>6, <2>7, <1>a DEF CheckInv, SightInv, LocalWith
  <2> QED BY <2>3, <2>4, <2>8 DEF CheckInv
<1>5. ASSUME NEW o \in Orders, CheckInvoice(o)
      PROVE  CheckInv'
  <2>1. /\ check'.pc = "invoices" /\ check'.asked = check.asked /\ check'.one = check.one
        /\ check'.local = check.local /\ check'.seen = check.seen
        /\ check'.listed = check.listed /\ check'.todo = check.todo \ {o}
        /\ \/ /\ check'.blind = check.blind
              /\ check'.billed = check.billed \cup (IF dsco[o].inv > 0 THEN {o} ELSE {})
           \/ check'.blind = check.blind \cup {"invoices"}
    BY <1>5, <1>0 DEF CheckInvoice, CheckType
  <2>2. CheckTypeOK'
    <3>1. \/ check' = [check EXCEPT !.todo = @ \ {o},
                          !.billed = @ \cup (IF dsco[o].inv > 0 THEN {o} ELSE {})]
          \/ check' = [check EXCEPT !.todo = @ \ {o}, !.blind = @ \cup {"invoices"}]
      BY <1>5 DEF CheckInvoice
    <3>2. /\ check.blind \cup {"invoices"} \in SUBSET Sources
          /\ check.todo \ {o} \in SUBSET Orders
          /\ check.billed \cup (IF dsco[o].inv > 0 THEN {o} ELSE {}) \in SUBSET Orders
      BY <1>0 DEF CheckType, Sources
    <3> QED BY <3>1, <3>2, <1>0 DEF CheckTypeOK, CheckType
  <2>3. CopyInv'
    BY <2>1, <1>a DEF CheckInv, CopyInv, Taken
  <2>4. SightInv'
    BY <2>1, <1>5, <1>a DEF CheckInvoice, CheckInv, SightInv, Sighted, CopyInv
  <2> QED BY <2>2, <2>3, <2>4 DEF CheckInv
<1>6. CASE CheckReport
  BY <1>6, <1>b DEF CheckReport
<1>7. ASSUME NEW o \in Orders, CheckOne(o)
      PROVE  CheckInv'
  BY <1>7, <1>1 DEF CheckOne
<1>8. ASSUME NEW from \in Orders, NEW to \in Orders, CheckRange(from, to)
      PROVE  CheckInv'
  BY <1>8, <1>1 DEF CheckRange
<1> QED BY <1>3, <1>4, <1>5, <1>6, <1>7, <1>8 DEF CheckStep

LEMMA NextChecked ==
    ASSUME TypeOK, ShownInv, CheckInv, [CheckNext]_<<vars, check>>
    PROVE  TypeOK' /\ ShownInv' /\ CheckInv'
<1>1. CASE CheckStep /\ UNCHANGED vars
  <2>1. TypeOK' /\ ShownInv'
    BY <1>1, NextTyped, NextShown
  <2> QED BY <1>1, <2>1, CheckSteps
<1>2. CASE [Next]_vars /\ check' = check
  BY <1>2, NextTyped, NextShown, CheckWaits
<1> QED BY <1>1, <1>2 DEF CheckNext

\* What the invariant says of a verdict.
LEMMA VerdictOk == CheckInv => NoFalseAlarm
<1> SUFFICES ASSUME CheckInv, CheckRead, Sighted, NEW o \in Orders,
                    check.local[o].st \notin AdminStatuses,
                    \/ check.local[o].st = 2 /\ "lingxing" \notin check.blind
                    \/ check.local[o].st = 4
                    \/ /\ check.local[o].st = 5 /\ check.local[o].inv
                       /\ "invoices" \notin check.blind
             PROVE  Verdict(o) = "ok" \/ (check.local[o].st = 2 /\ lx[o].void)
  BY DEF NoFalseAlarm, Sighted
<1>1. check.pc = "invoices" /\ check.todo = {}
  BY DEF CheckRead
<1>2. o \in check.asked /\ check.seen[o] # "none" /\ check.local[o].st > 1
  BY <1>1 DEF CheckInv, CopyInv, SightInv
<1>3. Backed(o) \/ (check.local[o].st = 2 /\ lx[o].void)
  BY <1>1 DEF CheckInv, SightInv, Backed
<1>4. Backed(o) => Verdict(o) = "ok"
  BY <1>2 DEF Verdict
<1> QED BY <1>3, <1>4

\* NoFalseAlarm holds whatever the tasks do meanwhile, whatever fails for them
\* and however the partners log and process requests: a verdict whose reads
\* were answered finds what the pipeline wrote.  That it needs them answered,
\* and not merely without an error, is part of the statement; and so is the
\* order LingXing only said it took, which is missing there.
THEOREM AlarmsAreTrue == CheckSpec => []NoFalseAlarm
<1>1. CheckInit => TypeOK /\ ShownInv /\ CheckInv
  BY InitTyped, InitCursor, InitListed, InitFound, InitParcel, InitInvoice, InitChecked
     DEF CheckInit, ShownInv
<1>2. TypeOK /\ ShownInv /\ CheckInv /\ [CheckNext]_<<vars, check>>
         => (TypeOK /\ ShownInv /\ CheckInv)'
  BY NextChecked
<1> QED BY <1>1, <1>2, VerdictOk, PTL DEF CheckSpec
=============================================================================
