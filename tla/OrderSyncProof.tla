--------------------------- MODULE OrderSyncProof ----------------------------
(***************************************************************************)
(* The order pipeline: its types, and its cursor.                          *)
(***************************************************************************)
EXTENDS OrderSyncInd, FiniteSetTheorems, TLAPS

-----------------------------------------------------------------------------
(***************************************************************************)
(* TypeOK is an invariant of OrderSync, for every value of the constants:  *)
(* one lemma per task, one for the operator, one for the partners.  The    *)
(* variables a step leaves alone keep their types by Frame.                *)
(***************************************************************************)

\* The writes of the store keep a row a row: every status the tasks write is
\* in the range of the column.
LEMMA RowWrites ==
    ASSUME row \in [Orders -> Row], NEW o \in Orders, NEW s \in 0..6,
           NEW t \in SUBSET Parcels
    PROVE  /\ Upsert(o, s) => row' \in [Orders -> Row]
           /\ UpdateStatusAndFields(o, s) => row' \in [Orders -> Row]
           /\ UpdateStatus(o, s) => row' \in [Orders -> Row]
           /\ UpdateStatusAndTrackingNo(o, s, t) => row' \in [Orders -> Row]
           /\ UpdateStatusAndInvoiceID(o, s) => row' \in [Orders -> Row]
<1>1. Cleared(s) \in Row
  BY DEF Cleared, Row
<1>2. /\ Upsert(o, s) => row' \in [Orders -> Row]
      /\ UpdateStatusAndFields(o, s) => row' \in [Orders -> Row]
  BY <1>1 DEF Upsert, UpdateStatusAndFields
<1>3. UpdateStatus(o, s) => row' \in [Orders -> Row]
  BY DEF UpdateStatus, Row
<1>4. UpdateStatusAndTrackingNo(o, s, t) => row' \in [Orders -> Row]
  BY DEF UpdateStatusAndTrackingNo, Row
<1>5. UpdateStatusAndInvoiceID(o, s) => row' \in [Orders -> Row]
  BY DEF UpdateStatusAndInvoiceID, Row
<1> QED BY <1>2, <1>3, <1>4, <1>5

\* The batch of a task is a set of orders with the status the task is for.
LEMMA BatchOfStatus ==
    ASSUME NEW s, NEW only \in SUBSET Orders
    PROVE  /\ Batch(s, only) \subseteq Orders
           /\ \A o \in Batch(s, only) : row[o].st = s
  BY DEF Batch, FindByStatus, FindByStatusAndPONumber, WithStatus

LEMMA ShipBatchOrders ==
    ASSUME NEW only \in SUBSET Orders
    PROVE  ShipBatch(only) \subseteq Orders
  BY DEF ShipBatch, FindByStatus, WithStatus
LEMMA PartnersFrame ==
    PartnersTypeOK /\ UNCHANGED partners => PartnersTypeOK'
  BY DEF PartnersTypeOK, partners

-----------------------------------------------------------------------------
LEMMA PullTyped ==
    ASSUME TypeOK, PullStart \/ PullManual \/ PullStep \/ PullAbort
    PROVE  row' \in [Orders -> Row] /\ PartnersTypeOK' /\ pull' \in PullType
<1> USE DEF TypeOK
<1>0. PullIdle \in PullType
  BY DEF PullIdle, PullType, NoPage, DscoStatus
<1>5. ASSUME NEW w \in SUBSET Orders, PullOpen(w)
      PROVE  row' = row /\ UNCHANGED partners /\ pull' \in PullType
  BY <1>0, <1>5 DEF PullOpen, PullType
<1>1. CASE PullStart \/ PullManual
  <2>1. \E w \in SUBSET Orders : PullOpen(w)
    <3>1. \A from, to : Window(from, to) \in SUBSET Orders
      BY DEF Window
    <3>2. {o \in Orders : SinceMaxCreateTime(o) /\ dsco[o].st # "none"} \in SUBSET Orders
      OBVIOUS
    <3> QED BY <1>1, <3>1, <3>2 DEF PullStart, PullManual
  <2> QED BY <2>1, <1>5, PartnersFrame
<1>2. CASE PullAbort
  BY <1>0, <1>2, PartnersFrame DEF PullAbort
<1>3. CASE PullPage
  <2>1. dsco \in [Orders -> DscoOrder]
    BY DEF PartnersTypeOK
  <2>2. \A o \in Orders : dsco[o].st \in DscoStatus
    BY <2>1 DEF DscoOrder
  <2>3. ASSUME NEW next \in SUBSET Orders,
               pull' = [pc   |-> "rows", todo |-> pull.todo \ next,
                        page |-> [o \in Orders |-> IF o \in next THEN dsco[o].st
                                                   ELSE "none"]]
        PROVE  pull' \in PullType
    BY <2>2, <2>3 DEF PullType, DscoStatus
  <2>4. {o \in pull.todo : Cardinality({p \in pull.todo : p < o}) < PageSize}
            \in SUBSET Orders
    BY DEF PullType
  <2> QED BY <2>3, <2>4, <1>0, <1>3, PartnersFrame DEF PullPage
<1>4. ASSUME NEW o \in Orders, PullRow(o)
      PROVE  row' \in [Orders -> Row] /\ PartnersTypeOK' /\ pull' \in PullType
  <2>1. pull' \in PullType
    BY <1>4 DEF PullRow, PullType, DscoStatus
  <2>2. SyncStatus(pull.page[o]) \in 0..6
    BY DEF SyncStatus
  <2>3. row' \in [Orders -> Row]
    BY <2>2, <1>4, RowWrites DEF PullRow
  <2> QED BY <2>1, <2>3, <1>4, PartnersFrame DEF PullRow
<1> QED BY <1>1, <1>2, <1>3, <1>4 DEF PullStep
-----------------------------------------------------------------------------
\* Creating an order in LingXing and adding packages keep the partners' types.
LEMMA CreateInLxTyped ==
    ASSUME lx \in [Orders -> LxOrder], NEW o \in Orders, CreateInLx(o) \/ CreateVoid(o)
    PROVE  lx' \in [Orders -> LxOrder]
<1>1. lx[o].n \in 0..2 /\ lx[o].rv \in {"no", "part", "all"} /\ lx[o].void \in BOOLEAN
  BY DEF LxOrder, DupCap
<1>2. Bump(lx[o].n) \in 0..2
  BY <1>1 DEF Bump, DupCap
<1>3. [n  |-> Bump(lx[o].n), rv |-> IF lx[o].n = 0 THEN "no"
                             ELSE IF lx[o].rv = "all" THEN "part" ELSE lx[o].rv,
      void |-> lx[o].void] \in LxOrder
  BY <1>1, <1>2 DEF LxOrder, DupCap
<1>4. [lx[o] EXCEPT !.void = TRUE] \in LxOrder
  BY DEF LxOrder
<1> QED BY <1>3, <1>4 DEF CreateInLx, CreateVoid

LEMMA PushTyped ==
    ASSUME TypeOK, NEW only \in SUBSET Orders,
           PushStart(only) \/ PushStep \/ PushAbort
    PROVE  row' \in [Orders -> Row] /\ PartnersTypeOK' /\ push' \in PushType
<1> USE DEF TypeOK
<1>0. PushIdle \in PushType
  BY DEF PushIdle, PushType
<1>1. CASE PushStart(only)
  <2>1. push' \in PushType
    BY <1>0, <1>1, BatchOfStatus DEF PushStart, PushType
  <2> QED BY <2>1, <1>1, PartnersFrame DEF PushStart
<1>2. CASE PushAbort
  BY <1>0, <1>2, PartnersFrame DEF PushAbort
<1>3. CASE PushLookup
  <2>1. ASSUME NEW found \in SUBSET Orders
        PROVE  [push EXCEPT !.pc = "work", !.exist = found] \in PushType
    BY DEF PushType
  <2>2. PICK found \in SUBSET push.todo :
            push' = [push EXCEPT !.pc = "work", !.exist = found]
    BY <1>3 DEF PushLookup
  <2>3. found \in SUBSET Orders
    BY DEF PushType
  <2> QED BY <2>1, <2>2, <2>3, <1>3, PartnersFrame DEF PushLookup
<1>4. ASSUME NEW o \in Orders,
             PushExisting(o) \/ PushSkip(o) \/ PushCreate(o) \/ PushUpdate(o)
      PROVE  row' \in [Orders -> Row] /\ PartnersTypeOK' /\ push' \in PushType
  <2>0. [push EXCEPT !.pc = "work", !.todo = @ \ {o}] \in PushType
    BY DEF PushType
  <2>1. PushDone(o) => push' \in PushType
    BY <1>0, <2>0 DEF PushDone
  <2>2. row' \in [Orders -> Row]
    BY <1>4, RowWrites DEF PushExisting, PushSkip, PushCreate, PushUpdate
  <2>3. push' \in PushType
    BY <2>1, <1>4 DEF PushExisting, PushSkip, PushCreate, PushUpdate, PushType
  <2>4. CASE PushCreate(o)
    <3>1. lx' \in [Orders -> LxOrder]
      <4>1. CreateInLx(o) \/ CreateVoid(o) \/ lx' = lx
        BY <2>4 DEF PushCreate
      <4> QED BY <4>1, CreateInLxTyped DEF PartnersTypeOK
    <3> QED BY <2>2, <2>3, <2>4, <3>1 DEF PushCreate, PartnersTypeOK
  <2> QED
    BY <2>2, <2>3, <2>4, <1>4, PartnersFrame DEF PushExisting, PushSkip, PushUpdate
<1> QED BY <1>1, <1>2, <1>3, <1>4 DEF PushStep

-----------------------------------------------------------------------------
LEMMA AckTyped ==
    ASSUME TypeOK, NEW only \in SUBSET Orders,
           AckStart(only) \/ AckStep \/ AckAbort
    PROVE  row' \in [Orders -> Row] /\ PartnersTypeOK' /\ ack' \in AckType
<1> USE DEF TypeOK
<1>0. AckIdle \in AckType
  BY DEF AckIdle, AckType
<1>1. CASE AckStart(only)
  <2>1. ack' \in AckType
    BY <1>0, <1>1, BatchOfStatus DEF AckStart, AckType
  <2> QED BY <2>1, <1>1, PartnersFrame DEF AckStart
<1>2. CASE AckAbort
  BY <1>0, <1>2, PartnersFrame DEF AckAbort
<1>3. CASE AckFetch
  <2>1. ASSUME NEW c \in SUBSET Orders
        PROVE  [ack EXCEPT !.pc = "scan", !.conf = c] \in AckType
    BY DEF AckType
  <2>2. PICK c \in SUBSET ack.todo : ack' = [ack EXCEPT !.pc = "scan", !.conf = c]
    BY <1>3 DEF AckFetch
  <2>3. c \in SUBSET Orders
    BY DEF AckType
  <2> QED BY <2>1, <2>2, <2>3, <1>3, PartnersFrame DEF AckFetch
<1>4. CASE AckList
  <2>1. ASSUME NEW ready \in SUBSET ack.need,
               ack' = IF ready = {} THEN AckIdle
                      ELSE [ack EXCEPT !.pc = "send", !.need = ready]
        PROVE  ack' \in AckType
    BY <2>1, <1>0 DEF AckType
  <2>2. \E ready \in SUBSET ack.need :
            ack' = IF ready = {} THEN AckIdle
                   ELSE [ack EXCEPT !.pc = "send", !.need = ready]
    BY <1>4 DEF AckList
  <2> QED BY <2>1, <2>2, <1>4, PartnersFrame DEF AckList
<1>5. CASE AckSend
  BY <1>0, <1>5 DEF AckSend, AckType, PartnersTypeOK
<1>6. ASSUME NEW o \in Orders, AckConfirmed(o) \/ AckSort(o) \/ AckCommit(o)
      PROVE  row' \in [Orders -> Row] /\ PartnersTypeOK' /\ ack' \in AckType
  <2>1. ASSUME NEW need \in SUBSET Orders, AckSorted(o, need)
        PROVE  ack' \in AckType
    BY <2>1, <1>0 DEF AckSorted, AckType
  <2>2. row' \in [Orders -> Row]
    BY <1>6, RowWrites DEF AckConfirmed, AckSort, AckCommit
  <2>3. ack.need \in SUBSET Orders
    BY DEF AckType
  <2>4. AckConfirmed(o) \/ AckSort(o) => ack' \in AckType
    BY <2>1, <2>3 DEF AckConfirmed, AckSort
  <2>5. [ack EXCEPT !.need = @ \ {o}] \in AckType
    BY DEF AckType
  <2>6. AckCommit(o) => ack' \in AckType
    BY <1>0, <2>5 DEF AckCommit
  <2> QED
    BY <2>2, <2>4, <2>6, <1>6, PartnersFrame DEF AckConfirmed, AckSort, AckCommit
<1> QED BY <1>1, <1>2, <1>3, <1>4, <1>5, <1>6 DEF AckStep
-----------------------------------------------------------------------------
LEMMA AddPackagesTyped ==
    ASSUME dsco \in [Orders -> DscoOrder], NEW o \in Orders,
           NEW t \in SUBSET Parcels
    PROVE  AddPackages(o, t) \in [Orders -> DscoOrder]
  BY DEF AddPackages, DscoOrder, DscoStatus

LEMMA AddInvoiceTyped ==
    ASSUME dsco \in [Orders -> DscoOrder], NEW o \in Orders
    PROVE  AddInvoice(o) \in [Orders -> DscoOrder]
<1>1. dsco[o].inv \in 0..2
  BY DEF DscoOrder, DupCap
<1>2. Bump(dsco[o].inv) \in 0..DupCap
  BY <1>1 DEF Bump, DupCap
<1> QED BY <1>2 DEF AddInvoice, DscoOrder

\* Requests nobody waits for are sets of parcels.
LEMMA OrphanedTyped ==
    ASSUME shq \in [Orders -> SUBSET (SUBSET Parcels)],
           NEW left \in [Orders -> SUBSET Parcels]
    PROVE  Orphaned(left) \in [Orders -> SUBSET (SUBSET Parcels)]
  BY DEF Orphaned

LEMMA ShipTyped ==
    ASSUME TypeOK, NEW only \in SUBSET Orders,
           \/ ShipStart(only) \/ ShipStep \/ ShipAbort
           \/ \E o \in Orders : ShipProcessed(o)
    PROVE  row' \in [Orders -> Row] /\ PartnersTypeOK' /\ ship' \in ShipType
<1> USE DEF TypeOK
<1>0. ShipIdle \in ShipType
  BY DEF ShipIdle, ShipType, Nothing, DscoStatus
<1>a. /\ ship.send \in [Orders -> SUBSET Parcels]
      /\ ship.pend \in [Orders -> SUBSET Parcels]
      /\ ship.loc \in [Orders -> SUBSET Parcels]
      /\ ship.pkg \in [Orders -> SUBSET Parcels]
      /\ ship.mark \in [Orders -> SUBSET Parcels]
  BY DEF ShipType
<1>b. dsco \in [Orders -> DscoOrder] /\ shq \in [Orders -> SUBSET (SUBSET Parcels)]
  BY DEF PartnersTypeOK
<1>1. CASE ShipStart(only)
  <2>1. [o \in Orders |-> IF o \in ShipBatch(only) THEN row[o].trk ELSE {}]
           \in [Orders -> SUBSET Parcels]
    BY DEF Row
  <2>2. ship' \in ShipType
    BY <1>0, <1>1, <2>1, ShipBatchOrders DEF ShipStart, ShipType
  <2> QED BY <2>2, <1>1, PartnersFrame DEF ShipStart
<1>2. CASE ShipAbort
  BY <1>0, <1>2, <1>a, <1>b, OrphanedTyped DEF ShipAbort, PartnersTypeOK
<1>3. CASE ShipFetch
  <2>1. PICK read \in SUBSET ship.todo :
           ship' = [ship EXCEPT
                      !.pc   = "plan",
                      !.seen = [o \in Orders |-> IF o \in read THEN dsco[o].st
                                                 ELSE "none"],
                      !.pkg  = [o \in Orders |-> IF o \in read THEN dsco[o].pkg
                                                 ELSE {}]]
    BY <1>3 DEF ShipFetch
  <2>2. [o \in Orders |-> IF o \in read THEN dsco[o].st ELSE "none"]
           \in [Orders -> DscoStatus]
    BY <1>b DEF DscoOrder, DscoStatus
  <2>3. [o \in Orders |-> IF o \in read THEN dsco[o].pkg ELSE {}]
           \in [Orders -> SUBSET Parcels]
    BY <1>b DEF DscoOrder
  <2>4. ship' \in ShipType
    BY <2>1, <2>2, <2>3 DEF ShipType
  <2> QED BY <2>4, <1>3, PartnersFrame DEF ShipFetch
<1>4. CASE ShipSend
  <2>1. ship' \in ShipType
    BY <1>0, <1>4 DEF ShipSend, ShipType
  <2> QED BY <2>1, <1>4, <1>a, <1>b, OrphanedTyped DEF ShipSend, PartnersTypeOK
<1>5. CASE ShipVerified
  <2>1. ship' \in ShipType
    BY <1>5 DEF ShipVerified, ShipType, Nothing
  <2> QED BY <2>1, <1>5, <1>a, <1>b, OrphanedTyped DEF ShipVerified, PartnersTypeOK
<1>6. ASSUME NEW o \in Orders, ShipProcessed(o)
      PROVE  row' \in [Orders -> Row] /\ PartnersTypeOK' /\ ship' \in ShipType
  <2>1. PICK done \in SUBSET ship.pend[o], ok \in BOOLEAN :
           /\ ShipmentStep(o, ship.pend[o], done, ok)
           /\ ship' = [ship EXCEPT
                         !.pend[o] = @ \ done,
                         !.res[o]  = IF ok /\ @ # "fail" THEN "ok" ELSE "fail"]
    BY <1>6 DEF ShipProcessed
  <2>2. done \in SUBSET Parcels
    BY <1>a
  <2>3. dsco' \in [Orders -> DscoOrder]
    BY <2>1, <2>2, <1>b, AddPackagesTyped DEF ShipmentStep
  <2>4. ship' \in ShipType
    BY <2>1 DEF ShipType
  <2> QED BY <2>3, <2>4, <1>6 DEF ShipProcessed, PartnersTypeOK
<1>7. ASSUME NEW o \in Orders,
             ShipSkip(o) \/ ShipNothingNew(o) \/ ShipPrepare(o) \/ ShipCommit(o)
      PROVE  row' \in [Orders -> Row] /\ PartnersTypeOK' /\ ship' \in ShipType
  <2>1. ASSUME NEW s \in SUBSET Parcels, NEW m \in SUBSET Parcels,
               ShipPlanned(o, s, m)
        PROVE  ship' \in ShipType
    <3>1. /\ [ship.send EXCEPT ![o] = s] \in [Orders -> SUBSET Parcels]
          /\ [ship.mark EXCEPT ![o] = m] \in [Orders -> SUBSET Parcels]
          /\ [ship.loc EXCEPT ![o] = {}] \in [Orders -> SUBSET Parcels]
          /\ [ship.pkg EXCEPT ![o] = {}] \in [Orders -> SUBSET Parcels]
          /\ [ship.seen EXCEPT ![o] = "none"] \in [Orders -> DscoStatus]
          /\ ship.todo \ {o} \in SUBSET Orders
      BY <1>a DEF ShipType, DscoStatus
    <3>2. ASSUME NEW pc \in {"send", ship.pc}
          PROVE  [ship EXCEPT !.pc = pc, !.todo = @ \ {o}, !.send[o] = s,
                              !.mark[o] = m, !.loc[o] = {}, !.seen[o] = "none",
                              !.pkg[o] = {}] \in ShipType
      BY <3>1 DEF ShipType
    <3> QED BY <3>2, <2>1, <1>0 DEF ShipPlanned
  <2>2. New(o) \in SUBSET Parcels
    BY DEF New, PartnersTypeOK, WmsOrder
  <2>3. /\ New(o) \ Empty \in SUBSET Parcels
        /\ ship.loc[o] \cup ship.pkg[o] \cup New(o) \in SUBSET Parcels
    BY <1>a, <2>2
  <2>4. ShipSkip(o) \/ ShipNothingNew(o) \/ ShipPrepare(o) => ship' \in ShipType
    BY <2>1, <2>3 DEF ShipSkip, ShipNothingNew, ShipPrepare
  <2>5. [ship EXCEPT !.send[o] = {}, !.mark[o] = {}, !.res[o] = "none"] \in ShipType
    BY DEF ShipType
  <2>6. ShipCommit(o) => ship' \in ShipType
    BY <1>0, <2>5 DEF ShipCommit
  <2>7. ship.mark[o] \in SUBSET Parcels
    BY <1>a
  <2>8. row' \in [Orders -> Row]
    <3>1. ShipCommit(o) => row' \in [Orders -> Row]
      BY <2>7, RowWrites DEF ShipCommit
    <3>2. ShipNothingNew(o) => row' \in [Orders -> Row]
      BY RowWrites DEF ShipNothingNew
    <3> QED BY <3>1, <3>2, <1>7 DEF ShipSkip, ShipPrepare
  <2>9. UNCHANGED partners
    BY <1>7 DEF ShipSkip, ShipNothingNew, ShipPrepare, ShipCommit
  <2> QED BY <2>4, <2>6, <2>8, <2>9, <1>7, PartnersFrame
<1> QED BY <1>1, <1>2, <1>3, <1>4, <1>5, <1>6, <1>7 DEF ShipStep
-----------------------------------------------------------------------------
LEMMA InvOrphanedTyped ==
    ASSUME ivq \in [Orders -> 0..DupCap], NEW left
    PROVE  InvOrphaned(left) \in [Orders -> 0..DupCap]
<1>1. \A o \in Orders : ivq[o] \in 0..2
  BY DEF DupCap
<1>2. \A o \in Orders : Bump(ivq[o]) \in 0..2
  BY <1>1 DEF Bump, DupCap
<1> QED BY <1>1, <1>2 DEF InvOrphaned, DupCap

LEMMA InvTyped ==
    ASSUME TypeOK, NEW only \in SUBSET Orders,
           \/ InvStart(only) \/ InvStep \/ InvAbort
           \/ \E o \in Orders : InvProcessed(o)
    PROVE  row' \in [Orders -> Row] /\ PartnersTypeOK' /\ inv' \in InvType
<1> USE DEF TypeOK
<1>0. InvIdle \in InvType
  BY DEF InvIdle, InvType
<1>a. dsco \in [Orders -> DscoOrder] /\ ivq \in [Orders -> 0..DupCap]
  BY DEF PartnersTypeOK
<1>1. CASE InvStart(only)
  <2>1. inv' \in InvType
    BY <1>0, <1>1, BatchOfStatus DEF InvStart, InvType
  <2> QED BY <2>1, <1>1, PartnersFrame DEF InvStart
<1>2. CASE InvAbort
  BY <1>0, <1>2, <1>a, InvOrphanedTyped DEF InvAbort, PartnersTypeOK
<1>3. CASE InvSend
  <2>1. inv' \in InvType
    BY <1>0, <1>3 DEF InvSend, InvType
  <2> QED BY <2>1, <1>3, <1>a, InvOrphanedTyped DEF InvSend, PartnersTypeOK
<1>4. CASE InvVerified
  <2>1. ASSUME NEW found \in SUBSET Orders
        PROVE  [inv EXCEPT !.pc = "commit", !.pend = {}, !.ok = @ \cup found]
                  \in InvType
    BY DEF InvType
  <2>2. PICK found \in SUBSET {o \in inv.pend : dsco[o].inv > 0} :
           inv' = [inv EXCEPT !.pc = "commit", !.pend = {}, !.ok = @ \cup found]
    BY <1>4 DEF InvVerified
  <2>3. found \in SUBSET Orders
    BY DEF InvType
  <2> QED
    BY <2>1, <2>2, <2>3, <1>4, <1>a, InvOrphanedTyped DEF InvVerified, PartnersTypeOK
<1>5. ASSUME NEW o \in Orders, InvProcessed(o)
      PROVE  row' \in [Orders -> Row] /\ PartnersTypeOK' /\ inv' \in InvType
  <2>1. /\ [inv EXCEPT !.pend = @ \ {o}, !.ok = @ \cup {o}] \in InvType
        /\ [inv EXCEPT !.pend = @ \ {o}] \in InvType
    BY DEF InvType
  <2>2. dsco' = AddInvoice(o) \/ dsco' = dsco
    BY <1>5 DEF InvProcessed
  <2>3. dsco' \in [Orders -> DscoOrder]
    BY <2>2, <1>a, AddInvoiceTyped
  <2> QED BY <2>1, <2>3, <1>5 DEF InvProcessed, PartnersTypeOK
<1>6. ASSUME NEW o \in Orders, InvSkip(o) \/ InvPrepare(o) \/ InvCommit(o)
      PROVE  row' \in [Orders -> Row] /\ PartnersTypeOK' /\ inv' \in InvType
  <2>1. ASSUME NEW send \in SUBSET Orders, InvPlanned(o, send)
        PROVE  inv' \in InvType
    <3>1. /\ [inv EXCEPT !.todo = @ \ {o}, !.send = send] \in InvType
          /\ [InvIdle EXCEPT !.pc = "send", !.send = send] \in InvType
      BY <1>0 DEF InvType
    <3> QED BY <3>1, <2>1, <1>0 DEF InvPlanned
  <2>2. inv.send \in SUBSET Orders /\ inv.send \cup {o} \in SUBSET Orders
    BY DEF InvType
  <2>3. InvSkip(o) \/ InvPrepare(o) => inv' \in InvType
    BY <2>1, <2>2 DEF InvSkip, InvPrepare
  <2>4. [inv EXCEPT !.send = @ \ {o}, !.ok = @ \ {o}] \in InvType
    BY DEF InvType
  <2>5. InvCommit(o) => inv' \in InvType
    BY <2>4, <1>0 DEF InvCommit
  <2>6. row' \in [Orders -> Row]
    BY <1>6, RowWrites DEF InvSkip, InvPrepare, InvCommit
  <2>7. UNCHANGED partners
    BY <1>6 DEF InvSkip, InvPrepare, InvCommit
  <2> QED BY <2>3, <2>5, <2>6, <2>7, <1>6, PartnersFrame
<1> QED BY <1>1, <1>2, <1>3, <1>4, <1>5, <1>6 DEF InvStep

-----------------------------------------------------------------------------
LEMMA PartnersTyped ==
    ASSUME PartnersTypeOK, PartnerStep
    PROVE  PartnersTypeOK'
<1> PICK o \in Orders :
        \/ Arrive(o) \/ AutoAck(o) \/ Cancel(o) \/ Complete(o) \/ Review(o)
        \/ \E p \in Parcels : Outbound(o, p) \/ AssignTracking(o, p)
        \/ AckProcessed(o) \/ LateShipment(o) \/ LateInvoice(o)
  BY DEF PartnerStep
<1> USE DEF PartnersTypeOK
<1>1. CASE Arrive(o) \/ AutoAck(o) \/ Cancel(o) \/ Complete(o)
  <2>1. \A from, to : to \in DscoStatus /\ DscoMove(o, from, to) =>
            /\ dsco' \in [Orders -> DscoOrder]
            /\ UNCHANGED <<lx, wms, akq, shq, ivq>>
    BY DEF DscoMove, DscoOrder
  <2> QED BY <2>1, <1>1 DEF Arrive, AutoAck, Cancel, Complete, DscoStatus
<1>2. CASE Review(o)
  BY <1>2 DEF Review, LxOrder
<1>3. ASSUME NEW p \in Parcels, Outbound(o, p) \/ AssignTracking(o, p)
      PROVE  PartnersTypeOK'
  BY <1>3 DEF Outbound, AssignTracking, WmsOrder
<1>4. CASE AckProcessed(o)
  BY <1>4 DEF AckProcessed, DscoOrder, DscoStatus
<1>5. CASE LateShipment(o)
  <2>1. PICK s \in shq[o] :
           /\ shq' = [shq EXCEPT ![o] = @ \ {s}]
           /\ \E t \in CASE ~TakesShipment(o)    -> {{}}
                        [] TakesShipment(o) /\ "reject" \in Faults -> SUBSET s
                        [] OTHER               -> {s} :
                 dsco' = AddPackages(o, t)
           /\ UNCHANGED <<lx, wms, akq, ivq>>
    BY <1>5 DEF LateShipment
  <2>2. \E t \in SUBSET Parcels : dsco' = AddPackages(o, t)
    BY <2>1
  <2> QED BY <2>1, <2>2, AddPackagesTyped
<1>6. CASE LateInvoice(o)
  BY <1>6, AddInvoiceTyped DEF LateInvoice, DupCap
<1> QED BY <1>1, <1>2, <1>3, <1>4, <1>5, <1>6
-----------------------------------------------------------------------------
LEMMA InitTyped == Init => TypeOK
<1> SUFFICES ASSUME Init PROVE TypeOK
  OBVIOUS
<1> USE DEF Init
<1>1. row \in [Orders -> Row] /\ \A o \in Orders : row[o].st \in 0..3
  <2>1. PICK f \in [Orders -> Start] : row = [o \in Orders |-> Cleared(f[o])]
    BY DEF RowInit
  <2>2. \A o \in Orders : f[o] \in 0..3
    BY StartAssumption
  <2> QED BY <2>1, <2>2 DEF Cleared, Row
<1>2. PartnersTypeOK
  BY <1>1 DEF PartnersInit, PartnersTypeOK, DscoOrder, DscoStatus, LxOrder,
              WmsOrder, DupCap
<1>3. pull \in PullType /\ push \in PushType /\ ack \in AckType
  BY DEF PullInit, PullIdle, PullType, NoPage, DscoStatus, PushInit, PushIdle,
         PushType, AckInit, AckIdle, AckType
<1>4. ship \in ShipType /\ inv \in InvType
  BY DEF ShipInit, ShipIdle, ShipType, Nothing, DscoStatus, InvInit, InvIdle, InvType
<1>5. adm \in AdmType
  BY DEF AdmIdle, AdmType
<1> QED BY <1>1, <1>2, <1>3, <1>4, <1>5 DEF TypeOK

\* Whatever the operator does, a task it starts gets a set of orders.
LEMMA AdminTyped ==
    ASSUME TypeOK, Admin
    PROVE  TypeOK'
<1>1. adm.po \in SUBSET Orders
  BY DEF TypeOK, AdmType
<1>2. AdmIdle \in AdmType
  BY DEF AdmIdle, AdmType
<1>3. ASSUME NEW o \in Orders, AdminRead(o)
      PROVE  TypeOK'
  <2>1. \A s \in 1..4 : JobOf(s) \in JobNames
    BY DEF JobOf, JobNames
  <2>2. adm' \in AdmType
    BY <2>1, <1>3 DEF AdminRead, AdmType
  <2> QED BY <2>2, <1>3, PartnersFrame DEF AdminRead, TypeOK, tasks
<1>4. ASSUME NEW o \in Orders, NEW s \in AdminStatuses, AdminSetStatus(o, s)
      PROVE  TypeOK'
  <2>1. s \in 0..6
    BY AdminAssumption
  <2>2. row' \in [Orders -> Row]
    BY <2>1, <1>4, RowWrites DEF AdminSetStatus, TypeOK
  <2> QED BY <2>2, <1>4, PartnersFrame DEF AdminSetStatus, TypeOK, tasks
<1>5. CASE AdminNoRun
  BY <1>2, <1>5, PartnersFrame DEF AdminNoRun, TypeOK, tasks
<1>6. CASE AdminRun
  <2>1. adm' \in AdmType
    BY <1>2, <1>6 DEF AdminRun
  <2>2. CASE PushStart(adm.po) /\ UNCHANGED <<pull, ack, ship, inv>>
    BY <2>1, <2>2, <1>1, PushTyped DEF TypeOK
  <2>3. CASE AckStart(adm.po) /\ UNCHANGED <<pull, push, ship, inv>>
    BY <2>1, <2>3, <1>1, AckTyped DEF TypeOK
  <2>4. CASE ShipStart(adm.po) /\ UNCHANGED <<pull, push, ack, inv>>
    BY <2>1, <2>4, <1>1, ShipTyped DEF TypeOK
  <2>5. CASE InvStart(adm.po) /\ UNCHANGED <<pull, push, ack, ship>>
    BY <2>1, <2>5, <1>1, InvTyped DEF TypeOK
  <2> QED BY <1>6, <2>2, <2>3, <2>4, <2>5 DEF AdminRun
<1> QED BY <1>3, <1>4, <1>5, <1>6 DEF Admin

LEMMA NextTyped ==
    ASSUME TypeOK, [Next]_vars
    PROVE  TypeOK'
<1>1. CASE Pull
  BY <1>1, PullTyped DEF Pull, TypeOK
<1>2. CASE Push
  BY <1>2, PushTyped DEF Push, TypeOK
<1>3. CASE Ack
  BY <1>3, AckTyped DEF Ack, TypeOK
<1>4. CASE Ship
  BY <1>4, ShipTyped DEF Ship, TypeOK
<1>5. CASE Invoice
  BY <1>5, InvTyped DEF Invoice, TypeOK
<1>6. CASE Admin
  BY <1>6, AdminTyped
<1>7. CASE Environment
  BY <1>7, PartnersTyped DEF Environment, TypeOK, tasks
<1>8. CASE UNCHANGED vars
  BY <1>8, PartnersFrame DEF vars, tasks, TypeOK
<1> QED BY <1>1, <1>2, <1>3, <1>4, <1>5, <1>6, <1>7, <1>8 DEF Next

\* Types hold in every behaviour: the statuses written stay within 0..6, the
\* batches within the orders there are, whatever is interleaved or fails.
THEOREM TypeCorrect == Spec => []TypeOK
  BY InitTyped, NextTyped, PTL DEF Spec

-----------------------------------------------------------------------------
(***************************************************************************)
(* The cursor of the scheduled pull, for every set of orders, page size    *)
(* and schedule of the other tasks: it passes no order, and a pull         *)
(* rewrites no row but the newest one's.  The argument: only the pull adds *)
(* rows (WorkInv: the other tasks write rows that exist), and what is left *)
(* of its window lies behind all stored orders (WindowInv) without a gap   *)
(* (GapInv).                                                               *)
(***************************************************************************)

\* A step that adds and removes no row; one in which DSCO gets no order.
SameRows   == \A o \in Orders : row'[o].st # 0 <=> row[o].st # 0
SameOrders == \A o \in Orders : dsco'[o].st # "none" <=> dsco[o].st # "none"

Work == PushWork \cup AckWork \cup ShipWork \cup InvWork

LEMMA StoredKept == SameRows => Stored' = Stored
  BY DEF SameRows, Stored

-----------------------------------------------------------------------------
(* The later tasks: they write rows that exist, and add none *)

\* A status other than 0, written to a row that exists.
LEMMA WriteKeeps ==
    ASSUME row \in [Orders -> Row], NEW o \in Stored, NEW s \in 1..6, NEW t,
           \/ UpdateStatusAndFields(o, s) \/ UpdateStatus(o, s)
           \/ UpdateStatusAndTrackingNo(o, s, t) \/ UpdateStatusAndInvoiceID(o, s)
    PROVE  SameRows
  BY DEF UpdateStatusAndFields, UpdateStatus, UpdateStatusAndTrackingNo,
         UpdateStatusAndInvoiceID, Cleared, Row, Stored, SameRows

LEMMA BatchStored ==
    ASSUME NEW s \in 1..6, NEW only \in SUBSET Orders
    PROVE  Batch(s, only) \subseteq Stored
  BY BatchOfStatus DEF Stored

LEMMA PushKeeps ==
    ASSUME TypeOK, WorkInv, NEW only \in SUBSET Orders,
           PushStart(only) \/ PushStep \/ PushAbort
    PROVE  SameRows /\ dsco' = dsco /\ PushWork' \subseteq Stored
<1>0. row \in [Orders -> Row] /\ push \in PushType
  BY DEF TypeOK
<1>a. PushWork \subseteq Stored
  BY DEF WorkInv
<1>b. row' = row => SameRows
  BY DEF SameRows
<1>1. CASE PushStart(only)
  BY <1>0, <1>1, <1>b, BatchStored DEF PushStart, PushIdle, PushWork, partners
<1>2. CASE PushAbort
  BY <1>2, <1>b DEF PushAbort, PushIdle, PushWork, partners
<1>3. CASE PushLookup
  BY <1>0, <1>3, <1>a, <1>b DEF PushLookup, PushType, PushWork, partners
<1>4. ASSUME NEW o \in Orders,
             PushExisting(o) \/ PushSkip(o) \/ PushCreate(o) \/ PushUpdate(o)
      PROVE  SameRows /\ dsco' = dsco /\ PushWork' \subseteq Stored
  <2>1. o \in Stored
    BY <1>4, <1>a DEF PushExisting, PushSkip, PushCreate, PushUpdate, IsOldest, PushWork
  <2>2. row' = row \/ UpdateStatusAndFields(o, 2)
    BY <1>4 DEF PushExisting, PushSkip, PushCreate, PushUpdate
  <2>3. SameRows
    BY <2>1, <2>2, <1>0, <1>b, WriteKeeps
  <2>4. dsco' = dsco
    BY <1>4 DEF PushExisting, PushSkip, PushCreate, PushUpdate, partners
  <2>5. PushDone(o) => push'.todo \subseteq push.todo
    BY <1>0 DEF PushDone, PushIdle, PushType
  <2>6. push'.todo \subseteq push.todo
    BY <1>0, <1>4, <2>5
       DEF PushExisting, PushSkip, PushCreate, PushUpdate, PushType
  <2> QED BY <2>3, <2>4, <2>6, <1>a DEF PushWork
<1> QED BY <1>1, <1>2, <1>3, <1>4 DEF PushStep

LEMMA AckKeeps ==
    ASSUME TypeOK, WorkInv, NEW only \in SUBSET Orders,
           AckStart(only) \/ AckStep \/ AckAbort
    PROVE  SameRows /\ dsco' = dsco /\ AckWork' \subseteq Stored
<1>0. row \in [Orders -> Row] /\ ack \in AckType
  BY DEF TypeOK
<1>a. AckWork \subseteq Stored
  BY DEF WorkInv
<1>b. row' = row => SameRows
  BY DEF SameRows
<1>1. CASE AckStart(only)
  BY <1>0, <1>1, <1>b, BatchStored DEF AckStart, AckIdle, AckWork, partners
<1>2. CASE AckAbort
  BY <1>2, <1>b DEF AckAbort, AckIdle, AckWork, partners
<1>3. CASE AckFetch
  BY <1>0, <1>3, <1>a, <1>b DEF AckFetch, AckType, AckWork, partners
<1>4. CASE AckList
  <2>1. \E ready \in SUBSET ack.need :
            ack' = IF ready = {} THEN AckIdle
                   ELSE [ack EXCEPT !.pc = "send", !.need = ready]
    BY <1>4 DEF AckList
  <2>2. AckWork' \subseteq AckWork
    BY <2>1, <1>0 DEF AckWork, AckIdle, AckType
  <2> QED BY <2>2, <1>4, <1>a, <1>b DEF AckList, partners
<1>5. CASE AckSend
  BY <1>0, <1>5, <1>a, <1>b DEF AckSend, AckIdle, AckType, AckWork
<1>6. ASSUME NEW o \in Orders, AckConfirmed(o) \/ AckSort(o) \/ AckCommit(o)
      PROVE  SameRows /\ dsco' = dsco /\ AckWork' \subseteq Stored
  <2>1. o \in AckWork
    BY <1>6 DEF AckConfirmed, AckSort, AckCommit, IsOldest, AckWork
  <2>2. row' = row \/ UpdateStatusAndFields(o, 3)
    BY <1>6 DEF AckConfirmed, AckSort, AckCommit
  <2>3. SameRows
    BY <2>1, <2>2, <1>0, <1>a, <1>b, WriteKeeps
  <2>4. dsco' = dsco
    BY <1>6 DEF AckConfirmed, AckSort, AckCommit, partners
  <2>5. ASSUME NEW need \in SUBSET AckWork, AckSorted(o, need)
        PROVE  AckWork' \subseteq AckWork
    BY <2>5, <1>0 DEF AckSorted, AckIdle, AckType, AckWork
  <2>6. AckConfirmed(o) \/ AckSort(o) => AckWork' \subseteq AckWork
    BY <2>1, <2>5 DEF AckConfirmed, AckSort, AckWork
  <2>7. AckCommit(o) => AckWork' \subseteq AckWork
    BY <1>0 DEF AckCommit, AckIdle, AckType, AckWork
  <2> QED BY <2>3, <2>4, <2>6, <2>7, <1>6, <1>a
<1> QED BY <1>1, <1>2, <1>3, <1>4, <1>5, <1>6 DEF AckStep

\* DSCO's books: a request gives no order to DSCO and takes none away.
LEMMA BooksKeepOrders ==
    ASSUME dsco \in [Orders -> DscoOrder], NEW o \in Orders, NEW t \in SUBSET Parcels,
           dsco' = AddPackages(o, t) \/ dsco' = AddInvoice(o) \/ dsco' = dsco
    PROVE  SameOrders
  BY DEF SameOrders, AddPackages, AddInvoice, DscoOrder, DscoStatus

LEMMA ShipKeeps ==
    ASSUME TypeOK, WorkInv, NEW only \in SUBSET Orders,
           \/ ShipStart(only) \/ ShipStep \/ ShipAbort
           \/ \E o \in Orders : ShipProcessed(o)
    PROVE  SameRows /\ SameOrders /\ ShipWork' \subseteq Stored
<1>0. row \in [Orders -> Row] /\ ship \in ShipType /\ dsco \in [Orders -> DscoOrder]
  BY DEF TypeOK, PartnersTypeOK
<1>a. ShipWork \subseteq Stored
  BY DEF WorkInv
<1>b. (row' = row => SameRows) /\ (dsco' = dsco => SameOrders)
  BY DEF SameRows, SameOrders
<1>c. ship' = ShipIdle => ShipWork' = {}
  BY DEF ShipIdle, ShipWork, Sent, Nothing
<1>1. CASE ShipStart(only)
  <2>1. ShipBatch(only) \subseteq Stored
    BY <1>0 DEF ShipBatch, FindByStatus, WithStatus, Stored, Row
  <2>2. ship'.todo = ShipBatch(only) /\ ship'.send = Nothing
    BY <1>1 DEF ShipStart, ShipIdle
  <2>3. ShipWork' \subseteq Stored
    BY <2>1, <2>2 DEF ShipWork, Sent, Nothing
  <2> QED BY <2>3, <1>1, <1>b DEF ShipStart, partners
<1>2. CASE ShipAbort
  BY <1>2, <1>b, <1>c DEF ShipAbort
<1>3. CASE ShipFetch \/ ShipVerified
  <2>1. ship'.todo = ship.todo /\ ship'.send = ship.send
    BY <1>0, <1>3 DEF ShipFetch, ShipVerified, ShipType
  <2>2. ShipWork' = ShipWork
    BY <2>1 DEF ShipWork, Sent
  <2> QED BY <2>2, <1>3, <1>a, <1>b DEF ShipFetch, ShipVerified, partners
<1>4. CASE ShipSend
  <2>1. ship' = ShipIdle \/ ship' = [ship EXCEPT !.pc = "wait", !.pend = ship.send]
    BY <1>4 DEF ShipSend
  <2>2. ShipWork' \subseteq ShipWork
    <3>1. CASE ship' = ShipIdle
      BY <3>1, <1>c
    <3>2. CASE ship' = [ship EXCEPT !.pc = "wait", !.pend = ship.send]
      <4>1. ship'.todo = ship.todo /\ ship'.send = ship.send
        BY <1>0, <3>2 DEF ShipType
      <4> QED BY <4>1 DEF ShipWork, Sent
    <3> QED BY <2>1, <3>1, <3>2
  <2> QED BY <2>2, <1>4, <1>a, <1>b DEF ShipSend
<1>5. ASSUME NEW o \in Orders, ShipProcessed(o)
      PROVE  SameRows /\ SameOrders /\ ShipWork' \subseteq Stored
  <2>1. ship'.todo = ship.todo /\ ship'.send = ship.send
    BY <1>0, <1>5 DEF ShipProcessed, ShipType
  <2>2. ShipWork' = ShipWork
    BY <2>1 DEF ShipWork, Sent
  <2>3. \E t \in SUBSET Parcels : dsco' = AddPackages(o, t) \/ dsco' = dsco
    BY <1>0, <1>5 DEF ShipProcessed, ShipmentStep, ShipType
  <2>4. SameOrders
    BY <2>3, <1>0, BooksKeepOrders
  <2> QED BY <2>2, <2>4, <1>5, <1>a, <1>b DEF ShipProcessed
<1>6. ASSUME NEW o \in Orders,
             ShipSkip(o) \/ ShipNothingNew(o) \/ ShipPrepare(o) \/ ShipCommit(o)
      PROVE  SameRows /\ SameOrders /\ ShipWork' \subseteq Stored
  <2>1. o \in ShipWork
    BY <1>6 DEF ShipSkip, ShipNothingNew, ShipPrepare, ShipCommit, IsOldest, ShipWork
  <2>2. \/ row' = row \/ UpdateStatus(o, 4)
        \/ UpdateStatusAndTrackingNo(o, 4, ship.mark[o])
    BY <1>6 DEF ShipSkip, ShipNothingNew, ShipPrepare, ShipCommit
  <2>3. SameRows
    BY <2>1, <2>2, <1>0, <1>a, <1>b, WriteKeeps
  <2>4. dsco' = dsco
    BY <1>6 DEF ShipSkip, ShipNothingNew, ShipPrepare, ShipCommit, partners
  <2>5. ASSUME NEW s, NEW m, ShipPlanned(o, s, m)
        PROVE  ShipWork' \subseteq ShipWork
    <3>1. CASE ship' = ShipIdle
      BY <3>1, <1>c
    <3>2. CASE ship' # ShipIdle
      <4>1. ship'.todo = ship.todo \ {o} /\ ship'.send = [ship.send EXCEPT ![o] = s]
        BY <1>0, <2>5, <3>2 DEF ShipPlanned, ShipType
      <4> QED BY <4>1, <2>1, <1>0 DEF ShipWork, Sent, ShipType
    <3> QED BY <3>1, <3>2
  <2>6. ShipCommit(o) => ShipWork' \subseteq ShipWork
    <3>1. CASE ship' = ShipIdle
      BY <3>1, <1>c
    <3>2. CASE ship' # ShipIdle /\ ShipCommit(o)
      <4>1. ship'.todo = ship.todo /\ ship'.send = [ship.send EXCEPT ![o] = {}]
        BY <1>0, <3>2 DEF ShipCommit, ShipType
      <4> QED BY <4>1, <1>0 DEF ShipWork, Sent, ShipType
    <3> QED BY <3>1, <3>2
  <2>7. ShipSkip(o) \/ ShipNothingNew(o) \/ ShipPrepare(o) => ShipWork' \subseteq ShipWork
    BY <2>5 DEF ShipSkip, ShipNothingNew, ShipPrepare
  <2> QED BY <2>3, <2>4, <2>6, <2>7, <1>6, <1>a, <1>b
<1> QED BY <1>1, <1>2, <1>3, <1>4, <1>5, <1>6 DEF ShipStep

LEMMA InvKeeps ==
    ASSUME TypeOK, WorkInv, NEW only \in SUBSET Orders,
           \/ InvStart(only) \/ InvStep \/ InvAbort
           \/ \E o \in Orders : InvProcessed(o)
    PROVE  SameRows /\ SameOrders /\ InvWork' \subseteq Stored
<1>0. row \in [Orders -> Row] /\ inv \in InvType /\ dsco \in [Orders -> DscoOrder]
  BY DEF TypeOK, PartnersTypeOK
<1>a. InvWork \subseteq Stored
  BY DEF WorkInv
<1>b. (row' = row => SameRows) /\ (dsco' = dsco => SameOrders)
  BY DEF SameRows, SameOrders
<1>1. CASE InvStart(only)
  BY <1>0, <1>1, <1>b, BatchStored DEF InvStart, InvIdle, InvWork, partners
<1>2. CASE InvAbort
  BY <1>2, <1>b DEF InvAbort, InvIdle, InvWork
<1>3. CASE InvSend
  <2>1. \/ inv' = InvIdle
        \/ inv'.todo = inv.todo /\ inv'.send = inv.send
    BY <1>0, <1>3 DEF InvSend, InvType
  <2>2. InvWork' \subseteq InvWork
    BY <2>1 DEF InvIdle, InvWork
  <2> QED BY <2>2, <1>3, <1>a, <1>b DEF InvSend
<1>4. CASE InvVerified
  <2>1. inv'.todo = inv.todo /\ inv'.send = inv.send
    BY <1>0, <1>4 DEF InvVerified, InvType
  <2> QED BY <2>1, <1>4, <1>a, <1>b DEF InvVerified, InvWork
<1>5. ASSUME NEW o \in Orders, InvProcessed(o)
      PROVE  SameRows /\ SameOrders /\ InvWork' \subseteq Stored
  <2>1. inv'.todo = inv.todo /\ inv'.send = inv.send
    BY <1>0, <1>5 DEF InvProcessed, InvType
  <2>2. dsco' = AddInvoice(o) \/ dsco' = dsco
    BY <1>5 DEF InvProcessed
  <2>3. SameOrders
    BY <2>2, <1>0, BooksKeepOrders
  <2> QED BY <2>1, <2>3, <1>5, <1>a, <1>b DEF InvProcessed, InvWork
<1>6. ASSUME NEW o \in Orders, InvSkip(o) \/ InvPrepare(o) \/ InvCommit(o)
      PROVE  SameRows /\ SameOrders /\ InvWork' \subseteq Stored
  <2>1. o \in InvWork
    BY <1>6 DEF InvSkip, InvPrepare, InvCommit, IsOldest, InvWork
  <2>2. row' = row \/ UpdateStatusAndInvoiceID(o, 5)
    BY <1>6 DEF InvSkip, InvPrepare, InvCommit
  <2>3. SameRows
    BY <2>1, <2>2, <1>0, <1>a, <1>b, WriteKeeps
  <2>4. dsco' = dsco
    BY <1>6 DEF InvSkip, InvPrepare, InvCommit, partners
  <2>5. ASSUME NEW send \in SUBSET InvWork, InvPlanned(o, send)
        PROVE  InvWork' \subseteq InvWork
    BY <2>5, <1>0 DEF InvPlanned, InvIdle, InvType, InvWork
  <2>6. InvSkip(o) \/ InvPrepare(o) => InvWork' \subseteq InvWork
    BY <2>1, <2>5 DEF InvSkip, InvPrepare, InvWork
  <2>7. InvCommit(o) => InvWork' \subseteq InvWork
    BY <1>0 DEF InvCommit, InvIdle, InvType, InvWork
  <2> QED BY <2>3, <2>4, <2>6, <2>7, <1>6, <1>a, <1>b
<1> QED BY <1>1, <1>2, <1>3, <1>4, <1>5, <1>6 DEF InvStep

-----------------------------------------------------------------------------
(* DSCO's orders come in order *)

\* No step takes an order away from DSCO, and one comes after all older ones.
InOrder == \A o \in Orders :
    /\ dsco[o].st # "none" => dsco'[o].st # "none"
    /\ dsco[o].st = "none" /\ dsco'[o].st # "none" =>
          \A p \in Orders : p < o => dsco[p].st # "none"

LEMMA SameInOrder == SameOrders => InOrder
  BY DEF SameOrders, InOrder

LEMMA PartnersInOrder ==
    ASSUME PartnersTypeOK, PartnerStep
    PROVE  InOrder
<1>0. dsco \in [Orders -> DscoOrder] /\ shq \in [Orders -> SUBSET (SUBSET Parcels)]
  BY DEF PartnersTypeOK
<1> PICK o \in Orders :
        \/ Arrive(o) \/ AutoAck(o) \/ Cancel(o) \/ Complete(o) \/ Review(o)
        \/ \E p \in Parcels : Outbound(o, p) \/ AssignTracking(o, p)
        \/ AckProcessed(o) \/ LateShipment(o) \/ LateInvoice(o)
  BY DEF PartnerStep
<1>1. CASE Arrive(o)
  BY <1>0, <1>1 DEF Arrive, DscoMove, InOrder, DscoOrder
<1>2. CASE AutoAck(o) \/ Cancel(o) \/ Complete(o)
  BY <1>0, <1>2 DEF AutoAck, Cancel, Complete, DscoMove, InOrder, DscoOrder
<1>3. CASE Review(o) \/ \E p \in Parcels : Outbound(o, p) \/ AssignTracking(o, p)
  BY <1>3 DEF Review, Outbound, AssignTracking, InOrder
<1>4. CASE AckProcessed(o)
  BY <1>0, <1>4 DEF AckProcessed, InOrder, DscoOrder
<1>5. CASE LateShipment(o)
  <2>1. \E t \in SUBSET Parcels : dsco' = AddPackages(o, t)
    <3>1. PICK s \in shq[o] :
             \E t \in CASE ~TakesShipment(o)    -> {{}}
                        [] TakesShipment(o) /\ "reject" \in Faults -> SUBSET s
                        [] OTHER               -> {s} :
                dsco' = AddPackages(o, t)
      BY <1>5 DEF LateShipment
    <3> QED BY <3>1, <1>0
  <2> QED BY <2>1, <1>0, BooksKeepOrders, SameInOrder
<1>6. CASE LateInvoice(o)
  <2>1. dsco' = AddInvoice(o) \/ dsco' = dsco
    BY <1>6 DEF LateInvoice
  <2> QED BY <2>1, <1>0, BooksKeepOrders, SameInOrder
<1> QED BY <1>1, <1>2, <1>3, <1>4, <1>5, <1>6

-----------------------------------------------------------------------------
(* The later tasks, the operator and the partners, seen from the pull *)

Cursor == WorkInv /\ WindowInv

\* What every step but the pull's does.
Aside == pull' = pull /\ SameRows /\ InOrder

LEMMA NextAside ==
    ASSUME TypeOK, WorkInv, Push \/ Ack \/ Ship \/ Invoice \/ Admin \/ Environment
           \/ UNCHANGED vars
    PROVE  Aside /\ WorkInv'
<1>0. row \in [Orders -> Row] /\ (row' = row => SameRows) /\ (dsco' = dsco => InOrder)
  BY DEF TypeOK, SameRows, InOrder
<1>a. /\ PushWork \subseteq Stored /\ AckWork \subseteq Stored
      /\ ShipWork \subseteq Stored /\ InvWork \subseteq Stored
  BY DEF WorkInv
<1>b. /\ push' = push => PushWork' = PushWork
      /\ ack' = ack => AckWork' = AckWork
      /\ ship' = ship => ShipWork' = ShipWork
      /\ inv' = inv => InvWork' = InvWork
  BY DEF PushWork, AckWork, ShipWork, InvWork, Sent
<1>c. SUFFICES Aside /\ PushWork' \cup AckWork' \cup ShipWork' \cup InvWork' \subseteq Stored
  BY StoredKept DEF Aside, WorkInv
<1>1. CASE Push
  BY <1>1, <1>0, <1>a, <1>b, PushKeeps DEF Push, Aside
<1>2. CASE Ack
  BY <1>2, <1>0, <1>a, <1>b, AckKeeps DEF Ack, Aside
<1>3. CASE Ship
  BY <1>3, <1>0, <1>a, <1>b, ShipKeeps, SameInOrder DEF Ship, Aside
<1>4. CASE Invoice
  BY <1>4, <1>0, <1>a, <1>b, InvKeeps, SameInOrder DEF Invoice, Aside
<1>5. CASE Admin
  <2>0. adm.po \in SUBSET Orders
    BY DEF TypeOK, AdmType
  <2>1. ASSUME NEW o \in Orders, NEW s \in AdminStatuses, AdminSetStatus(o, s)
        PROVE  Aside /\ UNCHANGED <<push, ack, ship, inv>>
    <3>1. o \in Stored /\ s \in 1..6
      BY <2>1, AdminAssumption DEF AdminSetStatus, Stored
    <3>2. SameRows
      BY <3>1, <2>1, <1>0, WriteKeeps DEF AdminSetStatus
    <3> QED BY <3>2, <2>1, <1>0 DEF AdminSetStatus, Aside, partners, tasks
  <2>2. ASSUME NEW o \in Orders, AdminRead(o) \/ AdminNoRun
        PROVE  Aside /\ UNCHANGED <<push, ack, ship, inv>>
    BY <2>2, <1>0 DEF AdminRead, AdminNoRun, Aside, partners, tasks
  <2>3. AdminNoRun => Aside /\ UNCHANGED <<push, ack, ship, inv>>
    BY <1>0 DEF AdminNoRun, Aside, partners, tasks
  <2>4. CASE AdminRun
    <3>1. CASE PushStart(adm.po) /\ UNCHANGED <<pull, ack, ship, inv>>
      BY <3>1, <2>0, <1>0, <1>a, <1>b, PushKeeps DEF Aside
    <3>2. CASE AckStart(adm.po) /\ UNCHANGED <<pull, push, ship, inv>>
      BY <3>2, <2>0, <1>0, <1>a, <1>b, AckKeeps DEF Aside
    <3>3. CASE ShipStart(adm.po) /\ UNCHANGED <<pull, push, ack, inv>>
      BY <3>3, <2>0, <1>0, <1>a, <1>b, ShipKeeps, SameInOrder DEF Aside
    <3>4. CASE InvStart(adm.po) /\ UNCHANGED <<pull, push, ack, ship>>
      BY <3>4, <2>0, <1>0, <1>a, <1>b, InvKeeps, SameInOrder DEF Aside
    <3> QED BY <2>4, <3>1, <3>2, <3>3, <3>4 DEF AdminRun
  <2> QED BY <1>5, <2>1, <2>2, <2>3, <2>4, <1>a, <1>b DEF Admin
<1>6. CASE Environment
  BY <1>6, <1>0, <1>a, <1>b, PartnersInOrder DEF Environment, Aside, tasks, TypeOK
<1>7. CASE UNCHANGED vars
  BY <1>7, <1>0, <1>a, <1>b DEF vars, tasks, partners, Aside
<1> QED BY <1>1, <1>2, <1>3, <1>4, <1>5, <1>6, <1>7

\* Such a step changes nothing of what the pull relies on.
LEMMA AsideWindow ==
    ASSUME TypeOK, WindowInv, Aside
    PROVE  WindowInv'
<1>1. Stored' = Stored /\ pull' = pull /\ WindowLeft' = WindowLeft
  BY StoredKept DEF Aside, WindowLeft, InPage
<1>2. InPage(pull.page)' = InPage(pull.page)
  BY <1>1 DEF InPage
<1>3. \A o \in Stored : dsco'[o].st # "none"
  BY DEF WindowInv, Aside, InOrder, Stored
<1>4. \A o, p \in Orders : o < p /\ dsco'[p].st # "none" => dsco'[o].st # "none"
  BY DEF WindowInv, Aside, InOrder
<1>5. \A q \in WindowLeft : q \in Orders
  BY DEF WindowLeft, InPage, TypeOK, PullType
<1>6. pull.pc # "idle" => \A q \in WindowLeft : dsco'[q].st # "none"
  BY <1>5 DEF WindowInv, Aside, InOrder
<1> QED BY <1>1, <1>2, <1>3, <1>4, <1>6 DEF WindowInv

LEMMA AsideGap == ASSUME GapInv, Aside PROVE GapInv'
<1>1. Stored' = Stored /\ pull' = pull /\ WindowLeft' = WindowLeft
  BY StoredKept DEF Aside, WindowLeft, InPage
<1> QED BY <1>1 DEF GapInv, NothingPassed, Aside, SameRows

-----------------------------------------------------------------------------
(* The pull *)

\* The start of a scheduled run.
LEMMA StartWindow ==
    ASSUME TypeOK, WindowInv, PullStart
    PROVE  /\ WindowInv'
           /\ GapInv => GapInv'
<1> DEFINE w == {o \in Orders : SinceMaxCreateTime(o) /\ dsco[o].st # "none"}
<1>1. /\ row' = row /\ dsco' = dsco
      /\ pull' = [PullIdle EXCEPT !.pc = "page", !.todo = w]
  BY DEF PullStart, PullOpen, partners
<1>2. pull'.pc = "page" /\ pull'.todo = w /\ pull'.page = NoPage
  BY <1>1 DEF PullIdle
<1>3. InPage(NoPage) = {}
  BY DEF InPage, NoPage
<1>4. Stored' = Stored /\ WindowLeft' = w /\ InPage(pull.page)' = {}
  BY <1>1, <1>2, <1>3 DEF Stored, WindowLeft, InPage
<1>5. \A q \in w : dsco[q].st # "none" /\ \A p \in Stored : p <= q
  BY DEF SinceMaxCreateTime, Stored
<1>6. WindowInv'
  BY <1>1, <1>2, <1>4, <1>5 DEF WindowInv
<1>7. ASSUME GapInv PROVE GapInv'
  <2>1. ASSUME NEW q \in w, NEW o \in Orders \ Stored, o < q
        PROVE  o \in w
    <3>1. dsco[o].st # "none"
      BY <2>1 DEF WindowInv
    <3>2. ASSUME NEW p \in Orders, row[p].st # 0 PROVE p <= o
      BY <1>7, <2>1, <3>2, OrdersAssumption DEF GapInv, NothingPassed, Stored, OrdersAssumption
    <3> QED BY <3>1, <3>2 DEF SinceMaxCreateTime
  <2>2. NothingPassed'
    BY <1>1, <1>7 DEF GapInv, NothingPassed
  <2> QED BY <2>1, <2>2, <1>2, <1>4 DEF GapInv
<1> QED BY <1>6, <1>7

\* A run that ends, with its window as far as it came.
LEMMA EndWindow ==
    ASSUME WindowInv, row' = row, dsco' = dsco, pull' = PullIdle
    PROVE  /\ WindowInv'
           /\ GapInv => GapInv'
<1>1. Stored' = Stored /\ pull'.pc = "idle" /\ InPage(pull.page)' = {}
  BY DEF Stored, PullIdle, NoPage, InPage
<1> QED BY <1>1 DEF WindowInv, GapInv, NothingPassed

\* A page is the oldest part of what is left.
LEMMA PageWindow ==
    ASSUME TypeOK, WindowInv, PullPage
    PROVE  /\ WindowInv'
           /\ GapInv => GapInv'
<1> DEFINE before(o) == {p \in pull.todo : p < o}
           next == {o \in pull.todo : Cardinality(before(o)) < PageSize}
<1>0. pull.pc = "page" /\ row' = row /\ dsco' = dsco /\ pull.todo \subseteq Orders
  BY DEF PullPage, partners, TypeOK, PullType
<1>1. CASE pull' = PullIdle
  BY <1>0, <1>1, EndWindow
<1>2. CASE pull' = [pc |-> "rows", todo |-> pull.todo \ next,
                    page |-> [o \in Orders |-> IF o \in next THEN dsco[o].st ELSE "none"]]
  <2>1. WindowLeft = pull.todo
    BY <1>0 DEF WindowInv, WindowLeft
  <2>2. \A q \in pull.todo : dsco[q].st # "none"
    BY <1>0, <2>1 DEF WindowInv
  <2>3. InPage(pull.page)' = next
    BY <1>0, <1>2, <2>2 DEF InPage
  <2>4. WindowLeft' = WindowLeft /\ Stored' = Stored
    BY <1>0, <1>2, <2>1, <2>3 DEF WindowLeft, Stored
  <2>5. ASSUME NEW q \in next, NEW t \in pull.todo \ next
        PROVE  q < t
    <3>1. q \in Nat /\ t \in Nat /\ q # t
      BY <1>0, OrdersAssumption DEF OrdersAssumption
    <3>2. SUFFICES ASSUME t < q PROVE FALSE
      BY <3>1
    <3>3. before(t) \subseteq before(q) /\ IsFiniteSet(before(q))
      <4>1. before(q) \subseteq Orders
        BY <1>0
      <4>2. IsFiniteSet(before(q))
        BY <4>1, OrdersAssumption, FS_Subset DEF OrdersAssumption
      <4>3. ASSUME NEW p \in before(t) PROVE p \in before(q)
        <5>1. p \in Nat
          BY <1>0, OrdersAssumption DEF OrdersAssumption
        <5> QED BY <5>1, <3>1, <3>2
      <4> QED BY <4>2, <4>3
    <3>4. /\ Cardinality(before(t)) <= Cardinality(before(q))
          /\ Cardinality(before(t)) \in Nat /\ Cardinality(before(q)) \in Nat
      BY <3>3, FS_Subset, FS_CardinalityType
    <3>5. Cardinality(before(q)) < PageSize /\ ~(Cardinality(before(t)) < PageSize)
      OBVIOUS
    <3> QED BY <3>4, <3>5, PageSizeAssumption DEF PageSizeAssumption
  <2>6. pull'.pc = "rows" /\ pull'.todo = pull.todo \ next
    BY <1>2
  <2> HIDE DEF next
  <2>7. WindowInv'
    BY <1>0, <2>1, <2>3, <2>4, <2>5, <2>6 DEF WindowInv
  <2>8. GapInv => GapInv'
    BY <1>0, <2>4, <2>6 DEF GapInv, NothingPassed
  <2> QED BY <2>7, <2>8
<1> QED BY <1>1, <1>2 DEF PullPage

\* One row: the oldest order of the page, which is not older than any stored one.
LEMMA RowWindow ==
    ASSUME TypeOK, WindowInv, NEW o \in Orders, PullRow(o)
    PROVE  /\ WindowInv'
           /\ "decode" \notin Faults /\ GapInv => GapInv'
           /\ Stored' \in {Stored, Stored \cup {o}}
<1>0. /\ row \in [Orders -> Row] /\ pull \in PullType /\ pull.pc = "rows" /\ dsco' = dsco
      /\ Orders \subseteq Nat
  BY OrdersAssumption DEF TypeOK, PullRow, partners, OrdersAssumption
<1>1. o \in InPage(pull.page) /\ \A q \in InPage(pull.page) : o <= q
  BY DEF PullRow, IsOldest
<1>2. o \in WindowLeft /\ dsco[o].st # "none" /\ \A p \in Stored : p <= o
  BY <1>0, <1>1 DEF WindowInv, WindowLeft
<1>3. /\ Stored' = Stored \cup {o} \/ (row' = row /\ "decode" \in Faults)
      /\ Stored' \in {Stored, Stored \cup {o}}
  <2>1. CASE Upsert(o, SyncStatus(pull.page[o]))
    <3>1. SyncStatus(pull.page[o]) # 0
      BY DEF SyncStatus
    <3>2. \A q \in Orders : row'[q] = IF q = o THEN Cleared(SyncStatus(pull.page[o]))
                                              ELSE row[q]
      BY <2>1, <1>0 DEF Upsert
    <3> QED BY <3>1, <3>2 DEF Stored, Cleared
  <2>2. CASE "decode" \in Faults /\ row' = row
    BY <2>2 DEF Stored
  <2> QED BY <2>1, <2>2 DEF PullRow
<1>4. /\ pull'.todo = pull.todo
      /\ pull'.page = [pull.page EXCEPT ![o] = "none"]
      /\ pull'.pc \in {"rows", "page"}
      /\ pull'.pc = "page" <=> InPage(pull.page) = {o}
  BY <1>0 DEF PullRow, PullType
<1>5. InPage(pull.page)' = InPage(pull.page) \ {o}
  BY <1>0, <1>4 DEF InPage, PullType
<1>6. \A q \in InPage(pull.page), t \in pull.todo : q < t
  BY <1>0 DEF WindowInv, WindowLeft
<1>7. WindowLeft' = WindowLeft \ {o} /\ WindowLeft \subseteq Orders
  BY <1>0, <1>1, <1>4, <1>5, <1>6 DEF WindowLeft, PullType, InPage
<1>8. \A q \in WindowLeft' : o <= q
  <2>1. \A q \in WindowLeft : o <= q
    BY <1>0, <1>1, <1>6 DEF WindowLeft, PullType
  <2> QED BY <2>1, <1>7
<1>9. \A q \in WindowLeft', p \in Stored' : p <= q
  BY <1>0, <1>3, <1>7, <1>8 DEF WindowInv
<1>10. WindowInv'
  BY <1>0, <1>2, <1>3, <1>4, <1>5, <1>6, <1>7, <1>9 DEF WindowInv
<1>11. ASSUME "decode" \notin Faults, GapInv PROVE GapInv'
  <2>1. Stored' = Stored \cup {o}
    BY <1>3, <1>11
  <2>2. ASSUME NEW q \in Orders, q < o PROVE q \in Stored
    <3>1. SUFFICES ASSUME q \notin Stored PROVE FALSE
      OBVIOUS
    <3>2. q \in WindowLeft
      BY <3>1, <2>2, <1>0, <1>2, <1>11 DEF GapInv
    <3> QED BY <3>2, <2>2, <1>0, <1>1, <1>7, <1>8
  <2>3. NothingPassed'
    BY <2>1, <2>2, <1>0, <1>11 DEF GapInv, NothingPassed, Stored
  <2>4. \A q \in WindowLeft', p \in Orders \ Stored' : p < q => p \in WindowLeft'
    BY <2>1, <1>0, <1>7, <1>11 DEF GapInv
  <2> QED BY <2>3, <2>4 DEF GapInv
<1> QED BY <1>3, <1>10, <1>11

-----------------------------------------------------------------------------
(* The invariants *)

LEMMA InitCursor ==
    ASSUME Init
    PROVE  /\ WorkInv
           /\ 0 \notin Start \/ Start = {0} => WindowInv /\ GapInv
<1>1. PICK f \in [Orders -> Start] : row = [o \in Orders |-> Cleared(f[o])]
  BY DEF Init, RowInit
<1>2. \A o \in Orders : row[o].st = f[o] /\ f[o] \in Start
  BY <1>1 DEF Cleared
<1>3. WorkInv
  BY DEF Init, WorkInv, PushInit, PushIdle, PushWork, AckInit, AckIdle, AckWork,
         ShipInit, ShipIdle, Nothing, ShipWork, Sent, InvInit, InvIdle, InvWork
<1>4. \A o \in Orders : dsco[o].st = "none" <=> row[o].st = 0
  BY DEF Init, PartnersInit
<1>5. pull.pc = "idle" /\ InPage(pull.page) = {}
  BY DEF Init, PullInit, PullIdle, NoPage, InPage
<1>6. ASSUME 0 \notin Start \/ Start = {0} PROVE WindowInv /\ GapInv
  BY <1>2, <1>4, <1>5, <1>6 DEF WindowInv, GapInv, NothingPassed, Stored
<1> QED BY <1>3, <1>6

\* The pull task itself leaves the other tasks' orders in the table.
LEMMA NextCursor ==
    ASSUME "pull" \notin ManualJobs, TypeOK, WorkInv, WindowInv, [Next]_vars
    PROVE  /\ WorkInv' /\ WindowInv'
           /\ "decode" \notin Faults /\ GapInv => GapInv'
<1>1. CASE ~Pull
  BY <1>1, NextAside, AsideWindow, AsideGap DEF Next
<1>2. CASE Pull
  <2>1. Stored \subseteq Stored' => WorkInv'
    BY <1>2 DEF Pull, WorkInv, PushWork, AckWork, ShipWork, InvWork, Sent
  <2>2. CASE PullStart
    BY <2>1, <2>2, StartWindow DEF PullStart, PullOpen, Stored
  <2>3. CASE PullPage
    BY <2>1, <2>3, PageWindow DEF PullPage, Stored
  <2>4. CASE \E o \in Orders : PullRow(o)
    BY <2>1, <2>4, RowWindow
  <2>5. CASE PullAbort
    BY <2>1, <2>5, EndWindow DEF PullAbort, Stored, partners
  <2> QED BY <1>2, <2>2, <2>3, <2>4, <2>5 DEF Pull, PullStep
<1> QED BY <1>1, <1>2

\* NothingPassed holds if orders can be decoded and stored and nobody pulls a
\* range by hand, from a table without gaps: whatever pages fail, runs are cut
\* off and the other tasks do.
THEOREM CursorPassesNothing ==
    ASSUME "pull" \notin ManualJobs, "decode" \notin Faults,
           0 \notin Start \/ Start = {0}
    PROVE  Spec => []NothingPassed
<1>1. Init => TypeOK /\ WorkInv /\ WindowInv /\ GapInv
  BY InitTyped, InitCursor
<1>2. TypeOK /\ WorkInv /\ WindowInv /\ GapInv /\ [Next]_vars
         => TypeOK' /\ WorkInv' /\ WindowInv' /\ GapInv'
  BY NextTyped, NextCursor
<1>3. GapInv => NothingPassed
  BY DEF GapInv
<1> QED BY <1>1, <1>2, <1>3, PTL DEF Spec

\* PullRewritesNewestOnly holds without manual pulls, also when orders of a
\* page are skipped: what is left of a window is never older than a row.
THEOREM PullsLeaveOlderRows ==
    ASSUME "pull" \notin ManualJobs, 0 \notin Start \/ Start = {0}
    PROVE  Spec => PullRewritesNewestOnly
<1>1. Init => TypeOK /\ WorkInv /\ WindowInv
  BY InitTyped, InitCursor
<1>2. TypeOK /\ WorkInv /\ WindowInv /\ [Next]_vars => TypeOK' /\ WorkInv' /\ WindowInv'
  BY NextTyped, NextCursor
<1>3. TypeOK /\ WorkInv /\ WindowInv /\ [Next]_vars =>
         [\A o \in Orders :
             pull' # pull /\ row[o].st # 0 /\ row'[o] # row[o] =>
                 \A p \in Orders : p > o => row[p].st = 0]_vars
  <2> SUFFICES ASSUME TypeOK, WorkInv, WindowInv, [Next]_vars,
                      NEW o \in Orders, pull' # pull, row[o].st # 0, row'[o] # row[o],
                      NEW p \in Orders, p > o
               PROVE  row[p].st = 0
    OBVIOUS
  <2>1. Pull
    BY NextAside DEF Next, Aside
  <2>2. PullRow(o)
    <3>1. PICK q \in Orders : PullRow(q)
      BY <2>1 DEF Pull, PullStart, PullManual, PullOpen, PullStep, PullPage, PullAbort
    <3>2. row'[o] = row[o] \/ o = q
      BY <3>1 DEF PullRow, Upsert, TypeOK
    <3> QED BY <3>1, <3>2
  <2>3. \A q \in Stored : q <= o
    BY <2>2 DEF PullRow, IsOldest, WindowInv, WindowLeft
  <2> QED BY <2>3, OrdersAssumption DEF Stored, OrdersAssumption
<1> QED BY <1>1, <1>2, <1>3, PTL DEF Spec, PullRewritesNewestOnly
==============================================================================
