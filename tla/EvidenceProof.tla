---------------------------- MODULE EvidenceProof ----------------------------
(***************************************************************************)
(* Every status the tasks write is backed by the partner it is about: an   *)
(* order is created in LingXing once, DSCO is asked to acknowledge what    *)
(* LingXing has reviewed, and without pulls and operators the later tasks  *)
(* implement the life cycle of an order.  The argument: a task writes a    *)
(* status on the strength of what it has read (Backing), and what it has   *)
(* read is still so, because LingXing and DSCO take nothing back (Lasting, *)
(* Grows).  It takes a look-up of LingXing orders that works.              *)
(***************************************************************************)
EXTENDS ShippingProof

\* LingXing drops no order, a finished review stays finished, and what it
\* answered is not undone.
Lasting == \A o \in Orders : /\ lx[o].n > 0 => lx'[o].n > 0
                             /\ lx[o].void => lx'[o].void
                             /\ lx[o].rv = "all" => lx'[o].rv = "all"

\* At most one order is the oldest of a set.
LEMMA OldestUnique ==
    ASSUME NEW S, NEW o \in Orders, NEW p \in Orders, IsOldest(o, S), IsOldest(p, S)
    PROVE  o = p
  BY OrdersAssumption DEF IsOldest

-----------------------------------------------------------------------------
(* One order in LingXing *)

LEMMA InitCreate == Init => CreateInv
<1> SUFFICES ASSUME Init PROVE CreateInv
  OBVIOUS
<1>1. \A o \in Orders : /\ lx[o].n <= 1 /\ (lx[o].rv # "no" => lx[o].n > 0)
  <2>1. \A o \in Orders : row[o].st \in 0..3
    <3>1. PICK f \in [Orders -> Start] : row = [o \in Orders |-> Cleared(f[o])]
      BY DEF Init, RowInit
    <3>2. \A o \in Orders : f[o] \in 0..3
      BY StartAssumption
    <3> QED BY <3>1, <3>2 DEF Cleared
  <2> QED BY <2>1 DEF Init, PartnersInit
<1> QED BY <1>1 DEF Init, PushInit, PushIdle, CreateInv

\* A step of another task, of the operator's console or of DSCO.
LEMMA CreateFrame ==
    ASSUME CreateInv, push' = push, lx' = lx
    PROVE  CreateInv' /\ Lasting
  BY DEF CreateInv, Lasting, IsOldest, Taken

\* An idle or starting run claims nothing yet.
LEMMA CreateIdle ==
    ASSUME CreateInv, lx' = lx, push'.exist = {}, push'.pc \in {"idle", "lookup"}
    PROVE  CreateInv' /\ Lasting
  BY DEF CreateInv, Lasting

LEMMA CreateReview ==
    ASSUME TypeOK, CreateInv, NEW o \in Orders, Review(o), push' = push
    PROVE  CreateInv' /\ Lasting
<1>1. lx \in [Orders -> LxOrder]
  BY DEF TypeOK, PartnersTypeOK
<1>2. \A p \in Orders : /\ lx'[p].n = lx[p].n
                        /\ lx'[p].rv # "no" => lx[p].n > 0
                        /\ lx[p].rv = "all" => lx'[p].rv = "all"
                        /\ lx'[p].void = lx[p].void
  BY <1>1 DEF Review, LxOrder, CreateInv
<1> QED BY <1>2 DEF CreateInv, Lasting, IsOldest, Taken

LEMMA CreatePush ==
    ASSUME "lookup" \notin Faults, TypeOK, CreateInv, NEW only \in SUBSET Orders,
           PushStart(only) \/ PushStep \/ PushAbort
    PROVE  CreateInv' /\ Lasting
<1>0. push \in PushType /\ lx \in [Orders -> LxOrder]
  BY DEF TypeOK, PartnersTypeOK
<1>1. CASE PushStart(only) \/ PushAbort
  <2>1. lx' = lx
    BY <1>1 DEF PushStart, PushAbort, partners
  <2>2. PushStart(only) => push'.exist = {} /\ push'.pc = "lookup"
    BY DEF PushStart, PushIdle
  <2>3. PushAbort => push'.exist = {} /\ push'.pc = "idle"
    BY DEF PushAbort, PushIdle
  <2> QED BY <1>1, <2>1, <2>2, <2>3, CreateIdle
<1>2. CASE PushLookup
  <2>1. /\ push' = [push EXCEPT !.pc = "work", !.exist = {o \in push.todo : lx[o].n > 0}]
        /\ lx' = lx
    BY <1>2 DEF PushLookup, partners
  <2>2. /\ push'.pc = "work" /\ push'.todo = push.todo
        /\ push'.exist = {o \in push.todo : lx[o].n > 0}
    BY <2>1, <1>0 DEF PushType
  <2>3. \A o \in Orders : lx[o].n \in 0..2
    BY <1>0 DEF LxOrder, DupCap
  <2> QED BY <2>1, <2>2, <2>3 DEF CreateInv, Lasting
<1>3. ASSUME NEW o \in Orders, PushDone(o), IsOldest(o, push.todo),
             push.pc \in {"work", "update"}, Lasting,
             \A p \in Orders : /\ lx'[p].n <= 1
                               /\ lx'[p].rv # "no" => lx'[p].n > 0
                               /\ p # o => lx'[p] = lx[p]
      PROVE  CreateInv'
  <2>1. CASE push' = PushIdle
    BY <2>1, <1>3 DEF CreateInv, PushIdle
  <2>2. CASE push' = [push EXCEPT !.pc = "work", !.todo = @ \ {o}]
    <3>1. push'.pc = "work" /\ push'.todo = push.todo \ {o} /\ push'.exist = push.exist
      BY <2>2, <1>0 DEF PushType
    <3>2. ASSUME NEW p \in Orders, p \in push'.todo \ push'.exist
          PROVE  lx'[p].n = 0
      <4>1. p # o /\ p \in push.todo \ push.exist
        BY <3>1, <3>2
      <4>2. ~IsOldest(p, push.todo)
        BY <4>1, <1>3, OldestUnique
      <4> QED BY <4>1, <4>2, <1>3 DEF CreateInv
    <3>3. \A p \in Orders : p \in push'.exist => lx'[p].n > 0
      BY <3>1, <1>3 DEF CreateInv, Lasting
    <3> QED BY <3>1, <3>2, <3>3, <1>3 DEF CreateInv
  <2> QED BY <2>1, <2>2, <1>3 DEF PushDone
<1>4. ASSUME NEW o \in Orders, PushExisting(o) \/ PushSkip(o) \/ PushUpdate(o)
      PROVE  CreateInv' /\ Lasting
  <2>1. lx' = lx /\ PushDone(o) /\ IsOldest(o, push.todo) /\ push.pc \in {"work", "update"}
    BY <1>4 DEF PushExisting, PushSkip, PushUpdate, partners
  <2>2. Lasting
    BY <2>1 DEF Lasting
  <2> QED BY <2>1, <2>2, <1>3 DEF CreateInv
<1>5. ASSUME NEW o \in Orders, PushCreate(o)
      PROVE  CreateInv' /\ Lasting
  <2>1. push.pc = "work" /\ IsOldest(o, push.todo) /\ o \in push.todo \ push.exist
    BY <1>5 DEF PushCreate, IsOldest
  <2>2. lx[o].n = 0 /\ lx[o].rv = "no"
    BY <2>1, <1>0 DEF CreateInv, LxOrder
  <2>3. CreateInLx(o) => /\ lx'[o].n = 1 /\ lx'[o].rv = "no"
                         /\ \A p \in Orders : p # o => lx'[p] = lx[p]
    BY <2>2, <1>0 DEF CreateInLx, Bump, DupCap, LxOrder
  <2>v. CreateVoid(o) => /\ lx'[o].n = 0 /\ lx'[o].rv = "no" /\ lx'[o].void
                         /\ \A p \in Orders : p # o => lx'[p] = lx[p]
    BY <2>2, <1>0 DEF CreateVoid, LxOrder
  <2>4. CreateInLx(o) \/ CreateVoid(o) \/ lx' = lx
    BY <1>5 DEF PushCreate
  <2>c. CreateInLx(o) => lx'[o].void = lx[o].void
    BY <1>0 DEF CreateInLx
  <2>5. Lasting
    BY <2>2, <2>3, <2>v, <2>c, <2>4 DEF Lasting
  <2>6. \A p \in Orders : /\ lx'[p].n <= 1
                          /\ lx'[p].rv # "no" => lx'[p].n > 0
                          /\ p # o => lx'[p] = lx[p]
    BY <2>3, <2>v, <2>4 DEF CreateInv
  <2>7. CASE PushDone(o)
    BY <2>1, <2>5, <2>6, <2>7, <1>3
  <2>8. CASE (CreateInLx(o) \/ CreateVoid(o)) /\ push' = [push EXCEPT !.pc = "update"]
    <3>1. push'.pc = "update" /\ push'.todo = push.todo /\ push'.exist = push.exist
      BY <2>8, <1>0 DEF PushType
    <3>t. Taken(o)'
      BY <2>8, <2>3, <2>v DEF Taken
    <3>2. ASSUME NEW p \in Orders, p \in push.todo \ push.exist
          PROVE  IF IsOldest(p, push'.todo) THEN Taken(p)' ELSE lx'[p].n = 0
      <4>1. IsOldest(p, push'.todo) <=> p = o
        BY <2>1, <3>1, OldestUnique
      <4>2. CASE p = o
        BY <4>1, <4>2, <3>t
      <4>3. CASE p # o
        BY <4>1, <4>3, <3>2, <2>1, <2>6 DEF CreateInv
      <4> QED BY <4>2, <4>3
    <3>3. \A p \in Orders : p \in push'.exist => lx'[p].n > 0
      BY <3>1, <2>5 DEF CreateInv, Lasting
    <3>4. \A p \in Orders : p \in push'.todo \ push'.exist =>
             /\ push'.pc = "work" => lx'[p].n = 0
             /\ push'.pc = "update" => IF IsOldest(p, push'.todo) THEN Taken(p)'
                                                                  ELSE lx'[p].n = 0
      BY <3>1, <3>2
    <3> QED BY <3>3, <3>4, <2>5, <2>6 DEF CreateInv
  <2> QED BY <1>5, <2>5, <2>7, <2>8 DEF PushCreate
<1> QED BY <1>1, <1>2, <1>4, <1>5 DEF PushStep
\* Of Next, only the push task and LingXing's review touch what CreateInv is
\* about.
LEMMA OthersCreate ==
    ASSUME Pull \/ Ack \/ Ship \/ Invoice
    PROVE  push' = push /\ lx' = lx
<1>1. CASE Pull
  BY <1>1 DEF Pull, PullStart, PullManual, PullOpen, PullStep, PullPage, PullRow,
              PullAbort, partners
<1>2. CASE Ack
  BY <1>2 DEF Ack, AckStart, AckStep, AckFetch, AckList, AckSend, AckConfirmed,
              AckSort, AckCommit, AckAbort, partners
<1>3. CASE Ship
  BY <1>3 DEF Ship, ShipStart, ShipStep, ShipFetch, ShipSend, ShipVerified, ShipSkip,
              ShipNothingNew, ShipPrepare, ShipCommit, ShipProcessed, ShipAbort, partners
<1>4. CASE Invoice
  BY <1>4 DEF Invoice, InvStart, InvStep, InvSend, InvVerified, InvSkip, InvPrepare,
              InvCommit, InvProcessed, InvAbort, partners
<1> QED BY <1>1, <1>2, <1>3, <1>4

LEMMA NextCreate ==
    ASSUME "lookup" \notin Faults, TypeOK, CreateInv, [Next]_vars
    PROVE  CreateInv' /\ Lasting
<1>1. CASE Pull \/ Ack \/ Ship \/ Invoice
  BY <1>1, OthersCreate, CreateFrame
<1>2. CASE Push
  BY <1>2, CreatePush DEF Push
<1>3. CASE Admin
  <2>1. adm.po \in SUBSET Orders
    BY DEF TypeOK, AdmType
  <2>2. (push' = push \/ PushStart(adm.po)) /\ lx' = lx
    BY <1>3 DEF Admin, AdminSetStatus, AdminRead, AdminNoRun, AdminRun, PushStart,
                AckStart, ShipStart, InvStart, tasks, partners
  <2> QED BY <2>1, <2>2, CreateFrame, CreatePush
<1>4. CASE Environment
  <2> PICK o \in Orders :
        \/ Arrive(o) \/ AutoAck(o) \/ Cancel(o) \/ Complete(o) \/ Review(o)
        \/ \E p \in Parcels : Outbound(o, p) \/ AssignTracking(o, p)
        \/ AckProcessed(o) \/ LateShipment(o) \/ LateInvoice(o)
    BY <1>4 DEF Environment, PartnerStep
  <2>1. push' = push
    BY <1>4 DEF Environment, tasks
  <2>2. ~Review(o) => lx' = lx
    BY DEF Arrive, AutoAck, Cancel, Complete, DscoMove, Outbound, AssignTracking,
           AckProcessed, LateShipment, LateInvoice
  <2> QED BY <2>1, <2>2, CreateFrame, CreateReview
<1>5. CASE UNCHANGED vars
  BY <1>5, CreateFrame DEF vars, tasks, partners
<1> QED BY <1>1, <1>2, <1>3, <1>4, <1>5 DEF Next

\* One order in LingXing per DSCO order, although creating it, recording it
\* and looking it up are three steps of which any may fail or be cut short.
THEOREM OneOrderCreated ==
    ASSUME "lookup" \notin Faults
    PROVE  Spec => []OneLingXingOrder
<1>1. Init => TypeOK /\ CreateInv
  BY InitTyped, InitCreate
<1>2. TypeOK /\ CreateInv /\ [Next]_vars => (TypeOK /\ CreateInv)'
  BY NextTyped, NextCreate
<1>3. CreateInv => OneLingXingOrder
  BY DEF CreateInv, OneLingXingOrder
<1> QED BY <1>1, <1>2, <1>3, PTL DEF Spec
-----------------------------------------------------------------------------

AllReviewed(o) == lx[o].rv = "all"
Moved(o)       == dsco[o].st \notin {"none", "created"}

\* A step that writes status 2 or 3 has the evidence for it.
Backing == \A o \in Orders :
    /\ row'[o].st = 2 => row[o].st = 2 \/ 2 \in AdminStatuses \/ Taken(o)
    /\ row'[o].st = 3 => row[o].st = 3 \/ 3 \in AdminStatuses
                         \/ AllReviewed(o) \/ Moved(o)

-----------------------------------------------------------------------------
(* Orders on their way to an acknowledge *)

LEMMA InitAck == Init => AckInv
  BY DEF Init, PartnersInit, AckInit, AckIdle, AckInv

\* DSCO taking an acknowledge from the queue, and every step of another task.
LEMMA AckFrame ==
    ASSUME AckInv, Lasting, Grows, ack' = ack, akq' \subseteq akq
    PROVE  AckInv'
  BY DEF AckInv, Lasting, Grows

\* A run of the task that claims nothing yet, or that ends.
LEMMA AckIdled ==
    ASSUME AckInv, Lasting, Grows, ack'.conf = {}, ack'.pc \notin {"send", "commit"},
           \A o \in Orders : o \in akq' => o \in akq \/ AllReviewed(o)
    PROVE  AckInv'
  BY DEF AckInv, Lasting, AllReviewed

LEMMA AckSteps ==
    ASSUME "lookup" \notin Faults, TypeOK, AckInv, NEW only \in SUBSET Orders,
           AckStart(only) \/ AckStep \/ AckAbort
    PROVE  AckInv'
<1>0. ack \in AckType
  BY DEF TypeOK
<1>a. Lasting /\ Grows
  <2>1. ASSUME NEW o \in Orders, AckConfirmed(o) \/ AckSort(o) \/ AckCommit(o)
        PROVE  lx' = lx /\ dsco' = dsco
    BY <2>1 DEF AckConfirmed, AckSort, AckCommit, partners
  <2>2. AckStart(only) \/ AckAbort \/ AckFetch \/ AckList => lx' = lx /\ dsco' = dsco
    BY DEF AckStart, AckAbort, AckFetch, AckList, partners
  <2>3. AckSend => lx' = lx /\ dsco' = dsco
    BY DEF AckSend
  <2>4. lx' = lx /\ dsco' = dsco
    BY <2>1, <2>2, <2>3 DEF AckStep
  <2> QED BY <2>4 DEF Lasting, Grows
<1>1. AckStart(only) \/ AckAbort => AckInv'
  <2> SUFFICES ASSUME AckStart(only) \/ AckAbort PROVE AckInv'
    OBVIOUS
  <2>1. AckStart(only) => ack'.conf = {} /\ ack'.pc = "fetch" /\ akq' = akq
    BY DEF AckStart, AckIdle, partners
  <2>2. AckAbort => ack'.conf = {} /\ ack'.pc = "idle" /\ akq' = akq
    BY DEF AckAbort, AckIdle, partners
  <2> QED BY <2>1, <2>2, <1>a, AckIdled
<1>2. AckFetch => AckInv'
  <2> SUFFICES ASSUME AckFetch PROVE AckInv'
    OBVIOUS
  <2>1. PICK c \in SUBSET {o \in ack.todo : dsco[o].st \in Confirmed} :
           ack' = [ack EXCEPT !.pc = "scan", !.conf = c]
    BY DEF AckFetch
  <2>2. ack'.pc = "scan" /\ ack'.conf = c /\ akq' = akq /\ dsco' = dsco
    BY <2>1, <1>0 DEF AckFetch, AckType, partners
  <2> QED BY <2>1, <2>2, <1>a DEF AckInv, Lasting, Confirmed
<1>3. ASSUME NEW o \in Orders, AckConfirmed(o) \/ AckSort(o)
      PROVE  AckInv'
  <2>1. akq' = akq /\ ack.pc = "scan"
    BY <1>3 DEF AckConfirmed, AckSort, partners
  <2>2. PICK need : AckSorted(o, need)
    BY <1>3 DEF AckConfirmed, AckSort
  <2>3. /\ ack'.pc \in {"scan", "idle", "list"}
        /\ ack'.conf \in {{}, ack.conf}
    BY <2>1, <2>2, <1>0 DEF AckSorted, AckIdle, AckType
  <2> QED BY <2>1, <2>3, <1>a DEF AckInv, Lasting, Grows
<1>4. AckList => AckInv'
  <2> SUFFICES ASSUME AckList PROVE AckInv'
    OBVIOUS
  <2>1. PICK ready : /\ ready = {o \in ack.need : lx[o].n > 0 /\ lx[o].rv \in {"all"}}
                     /\ ack' = IF ready = {} THEN AckIdle
                               ELSE [ack EXCEPT !.pc = "send", !.need = ready]
    BY DEF AckList
  <2>2. akq' = akq
    BY DEF AckList, partners
  <2>3. CASE ready = {}
    BY <2>1, <2>2, <2>3, <1>a, AckIdled DEF AckIdle
  <2>4. CASE ready # {}
    <3>1. ack'.pc = "send" /\ ack'.need = ready /\ ack'.conf = ack.conf
      BY <2>1, <2>4, <1>0 DEF AckType
    <3> QED BY <2>1, <2>2, <3>1, <1>a DEF AckInv, Lasting, Grows
  <2> QED BY <2>3, <2>4
<1>5. AckSend => AckInv'
  <2> SUFFICES ASSUME AckSend PROVE AckInv'
    OBVIOUS
  <2>1. \A o \in Orders : o \in akq' => o \in akq \/ AllReviewed(o)
    BY DEF AckSend, AckInv, AllReviewed
  <2>2. CASE ack' = AckIdle
    BY <2>1, <2>2, <1>a, AckIdled DEF AckIdle
  <2>3. CASE ack' = [ack EXCEPT !.pc = "commit"]
    <3>1. ack'.pc = "commit" /\ ack'.need = ack.need /\ ack'.conf = ack.conf
      BY <2>3, <1>0 DEF AckType
    <3> QED BY <2>1, <3>1, <1>a DEF AckSend, AckInv, Lasting, Grows, AllReviewed
  <2> QED BY <2>2, <2>3 DEF AckSend
<1>6. ASSUME NEW o \in Orders, AckCommit(o)
      PROVE  AckInv'
  <2>1. akq' = akq /\ ack.pc = "commit"
    BY <1>6 DEF AckCommit, partners
  <2>2. CASE ack' = AckIdle
    BY <2>1, <2>2, <1>a, AckIdled DEF AckIdle
  <2>3. CASE ack' = [ack EXCEPT !.need = @ \ {o}]
    <3>1. ack'.pc = "commit" /\ ack'.need = ack.need \ {o} /\ ack'.conf = ack.conf
      BY <2>1, <2>3, <1>0 DEF AckType
    <3> QED BY <2>1, <3>1, <1>a DEF AckInv, Lasting, Grows
  <2> QED BY <1>6, <2>2, <2>3 DEF AckCommit
<1> QED BY <1>1, <1>2, <1>3, <1>4, <1>5, <1>6 DEF AckStep

\* No step of the whole takes back what DSCO has, or lets an acknowledge in
\* but through the acknowledge task.
LEMMA NextGrows ==
    ASSUME TypeOK, [Next]_vars
    PROVE  Grows
<1>0. dsco' = dsco => Grows
  BY DEF Grows
<1>1. CASE Pull \/ Push \/ Ack
  BY <1>1, <1>0, FrontHarmless
<1>2. CASE Ship
  BY <1>2, ShipGrows DEF Ship
<1>3. CASE Invoice
  BY <1>3, InvGrows DEF Invoice
<1>4. CASE Admin
  <2>1. adm.po \in SUBSET Orders
    BY DEF TypeOK, AdmType
  <2> QED BY <1>4, <1>0, <2>1, AdminSplit, ShipGrows, InvGrows
<1>5. CASE Environment
  BY <1>5, PartnersGrow DEF Environment, TypeOK
<1>6. CASE UNCHANGED vars
  BY <1>6, <1>0 DEF vars, partners
<1> QED BY <1>1, <1>2, <1>3, <1>4, <1>5, <1>6 DEF Next

LEMMA OthersAck ==
    ASSUME Pull \/ Push \/ Ship \/ Invoice
    PROVE  ack' = ack /\ akq' = akq
<1>1. CASE Pull
  BY <1>1 DEF Pull, PullStart, PullManual, PullOpen, PullStep, PullPage, PullRow,
              PullAbort, partners
<1>2. CASE Push
  BY <1>2 DEF Push, PushStart, PushStep, PushLookup, PushExisting, PushSkip,
              PushCreate, PushUpdate, PushAbort, partners
<1>3. CASE Ship
  BY <1>3 DEF Ship, ShipStart, ShipStep, ShipFetch, ShipSend, ShipVerified, ShipSkip,
              ShipNothingNew, ShipPrepare, ShipCommit, ShipProcessed, ShipAbort, partners
<1>4. CASE Invoice
  BY <1>4 DEF Invoice, InvStart, InvStep, InvSend, InvVerified, InvSkip, InvPrepare,
              InvCommit, InvProcessed, InvAbort, partners
<1> QED BY <1>1, <1>2, <1>3, <1>4

LEMMA NextAck ==
    ASSUME "lookup" \notin Faults, TypeOK, CreateInv, AckInv, [Next]_vars
    PROVE  AckInv'
<1>0. Lasting /\ Grows
  BY NextCreate, NextGrows
<1>1. CASE Pull \/ Push \/ Ship \/ Invoice
  BY <1>0, <1>1, OthersAck, AckFrame
<1>2. CASE Ack
  BY <1>2, AckSteps DEF Ack
<1>3. CASE Admin
  <2>1. adm.po \in SUBSET Orders
    BY DEF TypeOK, AdmType
  <2>2. (ack' = ack /\ akq' = akq) \/ AckStart(adm.po)
    BY <1>3 DEF Admin, AdminSetStatus, AdminRead, AdminNoRun, AdminRun, PushStart,
                ShipStart, InvStart, tasks, partners
  <2> QED BY <1>0, <2>1, <2>2, AckFrame, AckSteps
<1>4. CASE Environment
  <2>1. ack' = ack
    BY <1>4 DEF Environment, tasks
  <2>2. akq' \subseteq akq
    BY <1>4 DEF Environment, PartnerStep, Arrive, AutoAck, Cancel, Complete, DscoMove,
                Review, Outbound, AssignTracking, AckProcessed, LateShipment, LateInvoice
  <2> QED BY <1>0, <2>1, <2>2, AckFrame
<1>5. CASE UNCHANGED vars
  BY <1>0, <1>5, AckFrame DEF vars, tasks, partners
<1> QED BY <1>1, <1>2, <1>3, <1>4, <1>5 DEF Next

\* DSCO is never asked to acknowledge an order LingXing has not reviewed as a
\* whole, however the review, the check and the call interleave.
THEOREM ReviewedAcknowledged ==
    ASSUME "lookup" \notin Faults
    PROVE  Spec => []AckOnlyReviewed
<1>1. Init => TypeOK /\ CreateInv /\ AckInv
  BY InitTyped, InitCreate, InitAck
<1>2. TypeOK /\ CreateInv /\ AckInv /\ [Next]_vars => (TypeOK /\ CreateInv /\ AckInv)'
  BY NextTyped, NextCreate, NextAck
<1>3. TypeOK /\ AckInv => AckOnlyReviewed
  BY DEF TypeOK, PartnersTypeOK, AckInv, AckOnlyReviewed
<1> QED BY <1>1, <1>2, <1>3, PTL DEF Spec

-----------------------------------------------------------------------------
(* The evidence for a status *)

\* A write of status s by a task, when it changes no other row.
LEMMA WriteBacked ==
    ASSUME row \in [Orders -> Row], NEW o \in Orders, NEW s \in 0..6,
           s = 2 => 2 \in AdminStatuses \/ Taken(o),
           s = 3 => 3 \in AdminStatuses \/ AllReviewed(o) \/ Moved(o)
    PROVE  /\ UpdateStatusAndFields(o, s) => Backing
           /\ Upsert(o, s) => Backing
           /\ UpdateStatus(o, s) => Backing
           /\ UpdateStatusAndTrackingNo(o, s, ship.mark[o]) => Backing
           /\ UpdateStatusAndInvoiceID(o, s) => Backing
<1>1. /\ UpdateStatusAndFields(o, s) => \A q \in Orders : row'[q].st = IF q = o THEN s ELSE row[q].st
      /\ Upsert(o, s) => \A q \in Orders : row'[q].st = IF q = o THEN s ELSE row[q].st
  BY DEF UpdateStatusAndFields, Upsert, Cleared
<1>2. UpdateStatus(o, s) => \A q \in Orders : row'[q].st = IF q = o THEN s ELSE row[q].st
  BY DEF UpdateStatus, Row
<1>3. UpdateStatusAndTrackingNo(o, s, ship.mark[o])
         => \A q \in Orders : row'[q].st = IF q = o THEN s ELSE row[q].st
  BY DEF UpdateStatusAndTrackingNo, Row
<1>4. UpdateStatusAndInvoiceID(o, s)
         => \A q \in Orders : row'[q].st = IF q = o THEN s ELSE row[q].st
  BY DEF UpdateStatusAndInvoiceID, Row
<1>5. (\A q \in Orders : row'[q].st = IF q = o THEN s ELSE row[q].st) => Backing
  BY DEF Backing
<1> QED BY <1>1, <1>2, <1>3, <1>4, <1>5

LEMMA InitEvidence == Init => EvidenceInv
<1> SUFFICES ASSUME Init PROVE EvidenceInv
  OBVIOUS
<1>1. \A o \in Orders : /\ row[o].st = 2 => Taken(o)
                        /\ row[o].st = 3 => lx[o].rv = "all"
  BY DEF Init, PartnersInit, Taken
<1> QED BY <1>1 DEF EvidenceInv

\* Evidence is kept by a step that writes nothing without it.
LEMMA EvidenceStep ==
    ASSUME EvidenceInv, Backing, Lasting, Grows
    PROVE  EvidenceInv'
<1> SUFFICES ASSUME NEW o \in Orders, row'[o].st \notin AdminStatuses
             PROVE  /\ row'[o].st = 2 => Taken(o)'
                    /\ row'[o].st = 3 => lx'[o].rv = "all" \/ Moved(o)'
  BY DEF EvidenceInv, Moved
<1>1. row'[o].st = 2 => Taken(o)'
  <2>1. Taken(o) => Taken(o)'
    BY DEF Taken, Lasting
  <2> QED BY <2>1 DEF EvidenceInv, Backing
<1>2. row'[o].st = 3 => lx'[o].rv = "all" \/ Moved(o)'
  BY DEF EvidenceInv, Backing, Lasting, Grows, AllReviewed, Moved
<1> QED BY <1>1, <1>2

LEMMA PullBacked ==
    ASSUME TypeOK, Pull
    PROVE  Backing
<1>1. row \in [Orders -> Row]
  BY DEF TypeOK
<1>2. ASSUME NEW o \in Orders, PullRow(o)
      PROVE  Backing
  <2>1. SyncStatus(pull.page[o]) \in {1, 5, 6}
    BY DEF SyncStatus
  <2>2. row' = row \/ Upsert(o, SyncStatus(pull.page[o]))
    BY <1>2 DEF PullRow
  <2>3. row' = row => Backing
    BY DEF Backing
  <2>4. Upsert(o, SyncStatus(pull.page[o])) => Backing
    BY <1>1, <2>1, WriteBacked
  <2> QED BY <2>2, <2>3, <2>4
<1>3. PullStart \/ PullManual \/ PullPage \/ PullAbort => Backing
  BY DEF PullStart, PullManual, PullOpen, PullPage, PullAbort, Backing
<1> QED BY <1>2, <1>3 DEF Pull, PullStep

LEMMA PushBacked ==
    ASSUME TypeOK, CreateInv, Push
    PROVE  Backing
<1>0. row \in [Orders -> Row]
  BY DEF TypeOK
<1>a. row' = row => Backing
  BY DEF Backing
<1>1. ASSUME NEW o \in Orders, PushExisting(o) \/ PushUpdate(o)
      PROVE  Backing
  <2>1. Taken(o)
    <3>1. PushExisting(o) => Taken(o)
      BY DEF PushExisting, CreateInv, Taken
    <3>2. PushUpdate(o) => Taken(o)
      <4>1. CASE o \in push.exist
        BY <4>1 DEF CreateInv, Taken
      <4>2. CASE o \notin push.exist
        BY <4>2 DEF PushUpdate, CreateInv, IsOldest
      <4> QED BY <4>1, <4>2
    <3> QED BY <1>1, <3>1, <3>2
  <2>2. UpdateStatusAndFields(o, 2) => Backing
    BY <1>0, <2>1, WriteBacked
  <2>3. UpdateStatusAndFields(o, 2) \/ row' = row
    BY <1>1 DEF PushExisting, PushUpdate
  <2> QED BY <2>2, <2>3, <1>a
<1>2. ASSUME NEW o \in Orders, PushSkip(o) \/ PushCreate(o)
      PROVE  Backing
  BY <1>2, <1>a DEF PushSkip, PushCreate
<1>3. PushStart({}) \/ PushLookup \/ PushAbort => Backing
  BY <1>a DEF PushStart, PushLookup, PushAbort
<1> QED BY <1>1, <1>2, <1>3 DEF Push, PushStep

LEMMA AckBacked ==
    ASSUME TypeOK, AckInv, Ack
    PROVE  Backing
<1>0. row \in [Orders -> Row]
  BY DEF TypeOK
<1>a. row' = row => Backing
  BY DEF Backing
<1>1. ASSUME NEW o \in Orders, AckConfirmed(o) \/ AckCommit(o)
      PROVE  Backing
  <2>1. AllReviewed(o) \/ Moved(o)
    <3>1. AckConfirmed(o) => Moved(o)
      BY DEF AckConfirmed, AckInv, Moved
    <3>2. AckCommit(o) => AllReviewed(o)
      BY DEF AckCommit, AckInv, IsOldest, AllReviewed
    <3> QED BY <1>1, <3>1, <3>2
  <2>2. UpdateStatusAndFields(o, 3) => Backing
    BY <1>0, <2>1, WriteBacked
  <2>3. UpdateStatusAndFields(o, 3) \/ row' = row
    BY <1>1 DEF AckConfirmed, AckCommit
  <2> QED BY <2>2, <2>3, <1>a
<1>2. ASSUME NEW o \in Orders, AckSort(o)
      PROVE  Backing
  BY <1>2, <1>a DEF AckSort
<1>3. AckStart({}) \/ AckFetch \/ AckList \/ AckSend \/ AckAbort => Backing
  BY <1>a DEF AckStart, AckFetch, AckList, AckSend, AckAbort
<1> QED BY <1>1, <1>2, <1>3 DEF Ack, AckStep

LEMMA BackBacked ==
    ASSUME TypeOK, Ship \/ Invoice
    PROVE  Backing
<1>0. row \in [Orders -> Row]
  BY DEF TypeOK
<1>a. row' = row => Backing
  BY DEF Backing
<1>1. ASSUME NEW o \in Orders, ShipSkip(o) \/ ShipNothingNew(o) \/ ShipPrepare(o)
                               \/ ShipCommit(o) \/ ShipProcessed(o)
      PROVE  Backing
  <2>1. \/ row' = row \/ UpdateStatus(o, 4)
        \/ UpdateStatusAndTrackingNo(o, 4, ship.mark[o])
    BY <1>1 DEF ShipSkip, ShipNothingNew, ShipPrepare, ShipCommit, ShipProcessed
  <2> QED BY <2>1, <1>0, <1>a, WriteBacked
<1>2. ShipStart({}) \/ ShipFetch \/ ShipSend \/ ShipVerified \/ ShipAbort => Backing
  BY <1>a DEF ShipStart, ShipFetch, ShipSend, ShipVerified, ShipAbort
<1>3. ASSUME NEW o \in Orders, InvSkip(o) \/ InvPrepare(o) \/ InvCommit(o)
                               \/ InvProcessed(o)
      PROVE  Backing
  <2>1. row' = row \/ UpdateStatusAndInvoiceID(o, 5)
    BY <1>3 DEF InvSkip, InvPrepare, InvCommit, InvProcessed
  <2> QED BY <2>1, <1>0, <1>a, WriteBacked
<1>4. InvStart({}) \/ InvSend \/ InvVerified \/ InvAbort => Backing
  BY <1>a DEF InvStart, InvSend, InvVerified, InvAbort
<1> QED BY <1>1, <1>2, <1>3, <1>4 DEF Ship, ShipStep, Invoice, InvStep

LEMMA AdminBacked ==
    ASSUME TypeOK, Admin
    PROVE  Backing
<1>0. row \in [Orders -> Row]
  BY DEF TypeOK
<1>a. row' = row => Backing
  BY DEF Backing
<1>1. ASSUME NEW o \in Orders, NEW s \in AdminStatuses, AdminSetStatus(o, s)
      PROVE  Backing
  BY <1>0, <1>1, AdminAssumption, WriteBacked DEF AdminSetStatus
<1>2. ASSUME NEW o \in Orders, AdminRead(o)
      PROVE  Backing
  BY <1>2, <1>a DEF AdminRead
<1>3. AdminNoRun \/ AdminRun => Backing
  BY <1>a DEF AdminNoRun, AdminRun, PushStart, AckStart, ShipStart, InvStart
<1> QED BY <1>1, <1>2, <1>3 DEF Admin

LEMMA NextEvidence ==
    ASSUME "lookup" \notin Faults, TypeOK, CreateInv, AckInv, EvidenceInv, [Next]_vars
    PROVE  EvidenceInv'
<1>1. row' = row => Backing
  BY DEF Backing
<1>2. Environment \/ UNCHANGED vars => row' = row
  BY DEF Environment, vars
<1>3. Backing
  BY <1>1, <1>2, PullBacked, PushBacked, AckBacked, BackBacked, AdminBacked DEF Next
<1> QED BY <1>3, NextCreate, NextGrows, EvidenceStep

\* A status the operator does not write by hand is backed by the partner it
\* is about: at 2 LingXing has the order, or answered a create call for it with
\* an empty success; at 3 it has reviewed it all or DSCO has moved it on; at 4
\* DSCO has every parcel with goods.
THEOREM StatusesBacked ==
    ASSUME "lookup" \notin Faults, "perpkg" \notin World
    PROVE  Spec => []StageEvidence
<1> DEFINE Ind == /\ TypeOK /\ CreateInv /\ AckInv /\ EvidenceInv /\ TrackInv
                  /\ 4 \notin AdminStatuses => AfterInv
<1>1. Init => Ind
  BY InitTyped, InitCreate, InitAck, InitEvidence, InitTrack, InitAfter
<1>2. Ind /\ [Next]_vars => Ind'
  BY NextTyped, NextCreate, NextAck, NextEvidence, NextTrack, NextAfter
<1>3. Ind => StageEvidence
  BY DEF EvidenceInv, AfterInv, PastShipment, StageEvidence
<1> HIDE DEF Ind
<1> QED BY <1>1, <1>2, <1>3, PTL DEF Spec

-----------------------------------------------------------------------------
(* The life cycle of an order *)

\* A step that leaves all statuses alone, and one that moves order o on by one
\* and changes nothing at the partners.
Stays == \A q \in Orders : row'[q].st = row[q].st
Up(o) == /\ row[o].st \in 1..4 /\ row'[o].st = row[o].st + 1
         /\ \A q \in Orders \ {o} : row'[q].st = row[q].st
         /\ row'[o].st = 5 => row'[o].inv
         /\ UNCHANGED partners

\* The writes of the later tasks.
LEMMA WriteUp ==
    ASSUME row \in [Orders -> Row], NEW o \in Orders, UNCHANGED partners
    PROVE  /\ row[o].st = 1 /\ UpdateStatusAndFields(o, 2) => Up(o)
           /\ row[o].st = 2 /\ UpdateStatusAndFields(o, 3) => Up(o)
           /\ row[o].st = 3 /\ UpdateStatus(o, 4) => Up(o)
           /\ row[o].st = 3 /\ UpdateStatusAndTrackingNo(o, 4, ship.mark[o]) => Up(o)
           /\ row[o].st = 4 /\ UpdateStatusAndInvoiceID(o, 5) => Up(o)
<1>1. /\ row[o].st = 1 /\ UpdateStatusAndFields(o, 2) => Up(o)
      /\ row[o].st = 2 /\ UpdateStatusAndFields(o, 3) => Up(o)
  BY DEF UpdateStatusAndFields, Cleared, Up
<1>2. row[o].st = 3 /\ UpdateStatus(o, 4) => Up(o)
  BY DEF UpdateStatus, Row, Up
<1>3. row[o].st = 3 /\ UpdateStatusAndTrackingNo(o, 4, ship.mark[o]) => Up(o)
  BY DEF UpdateStatusAndTrackingNo, Row, Up
<1>4. row[o].st = 4 /\ UpdateStatusAndInvoiceID(o, 5) => Up(o)
  BY DEF UpdateStatusAndInvoiceID, Row, Up
<1> QED BY <1>1, <1>2, <1>3, <1>4

\* The order that moves on is dropped by its task, and no other task has it.
LEMMA StagesKept ==
    ASSUME StatusInv, UNCHANGED <<pull, adm>>,
           \A q \in Orders : /\ q \in PushWork' => row[q].st = 1
                             /\ q \in AckWork'  => row[q].st = 2
                             /\ q \in ShipWork' => row[q].st = 3
                             /\ q \in InvWork'  => row[q].st = 4,
           Divided',
           Stays \/ \E o \in Orders : Up(o) /\ o \notin (PushWork \cup AckWork
                                                   \cup ShipWork \cup InvWork)'
    PROVE  StatusInv'
<1>1. pull'.pc = "idle" /\ adm' = AdmIdle
  BY DEF StatusInv
<1>2. CASE Stays
  BY <1>1, <1>2 DEF StatusInv, Stays
<1>3. ASSUME NEW o \in Orders, Up(o),
             o \notin (PushWork \cup AckWork \cup ShipWork \cup InvWork)'
      PROVE  StatusInv'
  <2>1. \A q \in Orders : q # o => row'[q].st = row[q].st
    BY <1>3 DEF Up
  <2>2. \A q \in Orders : /\ q \in PushWork' => q # o
                          /\ q \in AckWork'  => q # o
                          /\ q \in ShipWork' => q # o
                          /\ q \in InvWork'  => q # o
    BY <1>3
  <2> QED BY <1>1, <2>1, <2>2 DEF StatusInv
<1> QED BY <1>2, <1>3

LEMMA InitStatus == Init => StatusInv
<1> SUFFICES ASSUME Init PROVE StatusInv
  OBVIOUS
<1>1. PushWork = {} /\ AckWork = {} /\ InvWork = {}
  BY DEF Init, PushInit, AckInit, InvInit, PushIdle, AckIdle, InvIdle,
         PushWork, AckWork, InvWork
<1>2. Sent = {} /\ ship.todo = {}
  BY DEF Init, ShipInit, ShipIdle, Sent, Nothing
<1> QED BY <1>1, <1>2 DEF Init, PullInit, PullIdle, AckInit, AckIdle, InvInit, InvIdle,
                          StatusInv, Divided, ShipWork

\* What the other tasks hold is what they held.
LEMMA OthersAtWork ==
    ASSUME TypeOK, StatusInv
    PROVE  /\ push' = push => \A q \in Orders : q \in PushWork' => row[q].st = 1
           /\ ack'  = ack  => \A q \in Orders : q \in AckWork'  => row[q].st = 2
           /\ ship' = ship => \A q \in Orders : q \in ShipWork' => row[q].st = 3
           /\ inv'  = inv  => \A q \in Orders : q \in InvWork'  => row[q].st = 4
  BY DEF StatusInv, PushWork, AckWork, ShipWork, InvWork, Sent

LEMMA PushStages ==
    ASSUME TypeOK, StatusInv, ManualJobs = {}, Push
    PROVE  StatusInv' /\ (Stays \/ \E o \in Orders : Up(o))
<1>0. /\ row \in [Orders -> Row] /\ push \in PushType
      /\ UNCHANGED <<pull, ack, ship, inv, adm>>
  BY DEF TypeOK, Push
<1>a. row' = row => Stays
  BY DEF Stays
<1>b. Divided'
  BY <1>0 DEF StatusInv, Divided, Sent
<1>c. \A q \in push.todo : row[q].st = 1
  BY <1>0 DEF StatusInv, PushWork, PushType
<1>1. ASSUME NEW o \in Orders, PushDone(o), IsOldest(o, push.todo)
      PROVE  push'.todo = push.todo \ {o}
  BY <1>0, <1>1 DEF PushDone, PushIdle, PushType
<1>2. ASSUME NEW o \in Orders, PushExisting(o) \/ PushUpdate(o)
      PROVE  /\ push'.todo = push.todo \ {o} /\ row[o].st = 1
             /\ Stays \/ Up(o)
  <2>1. /\ PushDone(o) /\ IsOldest(o, push.todo) /\ UNCHANGED partners
        /\ UpdateStatusAndFields(o, 2) \/ row' = row
    BY <1>2 DEF PushExisting, PushUpdate
  <2>2. row[o].st = 1
    BY <2>1, <1>c DEF IsOldest
  <2> QED BY <2>1, <2>2, <1>0, <1>1, <1>a, WriteUp
<1>3. ASSUME NEW o \in Orders, PushSkip(o) \/ PushCreate(o)
      PROVE  push'.todo \subseteq push.todo /\ Stays
  <2>1. row' = row
    BY <1>3 DEF PushSkip, PushCreate
  <2>2. PushDone(o) \/ push' = [push EXCEPT !.pc = "update"]
    BY <1>3 DEF PushSkip, PushCreate
  <2>3. IsOldest(o, push.todo)
    BY <1>3 DEF PushSkip, PushCreate
  <2> QED BY <2>1, <2>2, <2>3, <1>0, <1>1, <1>a DEF PushType
<1>4. PushStart({}) => Stays /\ \A q \in push'.todo : row[q].st = 1
  BY <1>a, BatchOfStatus DEF PushStart, PushIdle
<1>5. PushLookup \/ PushAbort => Stays /\ push'.todo \subseteq push.todo
  <2>1. PushLookup => \E found : push' = [push EXCEPT !.pc = "work", !.exist = found]
    BY DEF PushLookup
  <2>2. PushLookup => push'.todo = push.todo
    BY <2>1, <1>0 DEF PushType
  <2>3. PushAbort => push'.todo = {}
    BY DEF PushAbort, PushIdle
  <2>4. PushLookup \/ PushAbort => row' = row
    BY DEF PushLookup, PushAbort
  <2> QED BY <2>2, <2>3, <2>4, <1>a
<1>6. /\ \A q \in push'.todo : row[q].st = 1
      /\ Stays \/ \E o \in Orders : /\ Up(o) /\ row[o].st = 1
                                     /\ o \notin push'.todo
  <2>1. CASE \E o \in Orders : PushExisting(o) \/ PushUpdate(o)
    BY <2>1, <1>c, <1>2
  <2>2. CASE \E o \in Orders : PushSkip(o) \/ PushCreate(o)
    BY <2>2, <1>c, <1>3
  <2>3. CASE PushStart({}) \/ PushLookup \/ PushAbort
    BY <2>3, <1>c, <1>4, <1>5
  <2> QED BY <2>1, <2>2, <2>3 DEF Push, PushStep
<1>7. ASSUME NEW o \in Orders, row[o].st = 1, o \notin push'.todo
      PROVE  o \notin (PushWork \cup AckWork \cup ShipWork \cup InvWork)'
  BY <1>7, <1>0, OthersAtWork DEF PushWork
<1> QED BY <1>0, <1>b, <1>6, <1>7, OthersAtWork, StagesKept DEF PushWork

LEMMA AckStages ==
    ASSUME TypeOK, StatusInv, ManualJobs = {}, Ack
    PROVE  StatusInv' /\ (Stays \/ \E o \in Orders : Up(o))
<1>0. /\ row \in [Orders -> Row] /\ ack \in AckType
      /\ UNCHANGED <<pull, push, ship, inv, adm>>
  BY DEF TypeOK, Ack
<1>a. row' = row => Stays
  BY DEF Stays
<1>c. /\ \A q \in ack.todo \cup ack.need : row[q].st = 2
      /\ ack.todo \cap ack.need = {}
  BY <1>0 DEF StatusInv, Divided, AckWork, AckType
<1>1. ASSUME NEW o \in Orders, NEW need \in SUBSET Orders, AckSorted(o, need),
             IsOldest(o, ack.todo), need \subseteq ack.need \cup {o}
      PROVE  /\ ack'.todo \subseteq ack.todo \ {o} /\ ack'.need \subseteq need
             /\ ack'.todo \cap ack'.need = {}
  BY <1>0, <1>1, <1>c DEF AckSorted, AckIdle, AckType
<1>2. ASSUME NEW o \in Orders, AckConfirmed(o)
      PROVE  /\ row[o].st = 2
             /\ Stays \/ Up(o)
             /\ o \notin ack'.todo \cup ack'.need
             /\ ack'.todo \cup ack'.need \subseteq ack.todo \cup ack.need
             /\ ack'.todo \cap ack'.need = {}
  <2>1. /\ AckSorted(o, ack.need) /\ IsOldest(o, ack.todo) /\ UNCHANGED partners
        /\ UpdateStatusAndFields(o, 3) \/ row' = row
    BY <1>2 DEF AckConfirmed
  <2>2. o \in ack.todo /\ row[o].st = 2
    BY <2>1, <1>c DEF IsOldest
  <2>3. /\ ack'.todo \subseteq ack.todo \ {o} /\ ack'.need \subseteq ack.need
        /\ ack'.todo \cap ack'.need = {}
    BY <2>1, <1>0, <1>1 DEF AckType
  <2>4. Stays \/ Up(o)
    BY <2>1, <2>2, <1>0, <1>a, WriteUp
  <2> QED BY <2>2, <2>3, <2>4, <1>c
<1>3. ASSUME NEW o \in Orders, AckCommit(o)
      PROVE  /\ row[o].st = 2
             /\ Stays \/ Up(o)
             /\ o \notin ack'.todo \cup ack'.need
             /\ ack'.todo \cup ack'.need \subseteq ack.todo \cup ack.need
             /\ ack'.todo \cap ack'.need = {}
  <2>1. /\ IsOldest(o, ack.need) /\ UNCHANGED partners
        /\ UpdateStatusAndFields(o, 3) \/ row' = row
        /\ ack' = IF ack.need = {o} THEN AckIdle ELSE [ack EXCEPT !.need = @ \ {o}]
    BY <1>3 DEF AckCommit
  <2>2. o \in ack.need /\ row[o].st = 2
    BY <2>1, <1>c DEF IsOldest
  <2>3. ack'.todo \subseteq ack.todo /\ ack'.need \subseteq ack.need \ {o}
    BY <2>1, <1>0 DEF AckIdle, AckType
  <2>4. Stays \/ Up(o)
    BY <2>1, <2>2, <1>0, <1>a, WriteUp
  <2> QED BY <2>2, <2>3, <2>4, <1>c
<1>4. ASSUME NEW o \in Orders, AckSort(o)
      PROVE  /\ Stays /\ ack'.todo \cap ack'.need = {}
             /\ ack'.todo \cup ack'.need \subseteq ack.todo \cup ack.need
  <2> DEFINE need == IF o \in Banned /\ ~ack.one THEN ack.need ELSE ack.need \cup {o}
  <2>1. AckSorted(o, need) /\ IsOldest(o, ack.todo) /\ row' = row
    BY <1>4 DEF AckSort
  <2>2. need \in SUBSET Orders /\ need \subseteq ack.need \cup {o} /\ o \in ack.todo
    BY <2>1, <1>0 DEF AckType, IsOldest
  <2>3. /\ ack'.todo \subseteq ack.todo \ {o} /\ ack'.need \subseteq need
        /\ ack'.todo \cap ack'.need = {}
    BY <2>1, <2>2, <1>1
  <2> QED BY <2>1, <2>2, <2>3, <1>a
<1>5. AckStart({}) => /\ Stays /\ ack'.need = {}
                      /\ \A q \in ack'.todo : row[q].st = 2
  BY <1>a, BatchOfStatus DEF AckStart, AckIdle
<1>6. AckFetch \/ AckList \/ AckSend \/ AckAbort
         => /\ Stays /\ ack'.todo \subseteq ack.todo /\ ack'.need \subseteq ack.need
  <2>1. AckFetch \/ AckList \/ AckSend \/ AckAbort => row' = row
    BY DEF AckFetch, AckList, AckSend, AckAbort
  <2>2. AckFetch => \E c : ack' = [ack EXCEPT !.pc = "scan", !.conf = c]
    BY DEF AckFetch
  <2>3. ASSUME AckList
        PROVE  \/ ack' = AckIdle
               \/ \E ready \in SUBSET ack.need :
                     ack' = [ack EXCEPT !.pc = "send", !.need = ready]
    <3>1. \E ready \in SUBSET ack.need :
             ack' = IF ready = {} THEN AckIdle
                    ELSE [ack EXCEPT !.pc = "send", !.need = ready]
      BY <2>3 DEF AckList
    <3> QED BY <3>1
  <2>4. AckSend \/ AckAbort => ack' = AckIdle \/ ack' = [ack EXCEPT !.pc = "commit"]
    BY DEF AckSend, AckAbort
  <2>5. AckFetch => ack'.todo = ack.todo /\ ack'.need = ack.need
    BY <2>2, <1>0 DEF AckType
  <2>6. ASSUME AckList
        PROVE  ack'.todo \subseteq ack.todo /\ ack'.need \subseteq ack.need
    <3>1. CASE ack' = AckIdle
      BY <3>1 DEF AckIdle
    <3>2. ASSUME NEW ready \in SUBSET ack.need,
                 ack' = [ack EXCEPT !.pc = "send", !.need = ready]
          PROVE  ack'.todo = ack.todo /\ ack'.need = ready
      BY <3>2, <1>0 DEF AckType
    <3> QED BY <2>6, <2>3, <3>1, <3>2
  <2>7. AckSend \/ AckAbort => ack'.todo \subseteq ack.todo /\ ack'.need \subseteq ack.need
    BY <2>4, <1>0 DEF AckType, AckIdle
  <2> QED BY <2>1, <2>5, <2>6, <2>7, <1>a
<1>7. /\ \A q \in ack'.todo \cup ack'.need : row[q].st = 2
      /\ ack'.todo \cap ack'.need = {}
      /\ Stays \/ \E o \in Orders : /\ Up(o) /\ row[o].st = 2
                                     /\ o \notin ack'.todo \cup ack'.need
  <2>1. ASSUME NEW o \in Orders, AckConfirmed(o) \/ AckCommit(o)
        PROVE  /\ \A q \in ack'.todo \cup ack'.need : row[q].st = 2
               /\ ack'.todo \cap ack'.need = {}
               /\ Stays \/ /\ Up(o) /\ row[o].st = 2
                           /\ o \notin ack'.todo \cup ack'.need
    <3>1. CASE AckConfirmed(o)
      BY <3>1, <1>c, <1>2
    <3>2. CASE AckCommit(o)
      BY <3>2, <1>c, <1>3
    <3> QED BY <2>1, <3>1, <3>2
  <2>2. CASE \E o \in Orders : AckSort(o)
    BY <2>2, <1>c, <1>4
  <2>3. CASE AckStart({})
    BY <2>3, <1>5
  <2>4. CASE AckFetch \/ AckList \/ AckSend \/ AckAbort
    BY <2>4, <1>6, <1>c
  <2> QED BY <2>1, <2>2, <2>3, <2>4 DEF Ack, AckStep
<1>b. Divided'
  BY <1>0, <1>7 DEF StatusInv, Divided, Sent
<1>8. ASSUME NEW o \in Orders, row[o].st = 2, o \notin ack'.todo \cup ack'.need
      PROVE  o \notin (PushWork \cup AckWork \cup ShipWork \cup InvWork)'
  BY <1>8, <1>0, OthersAtWork DEF AckWork
<1>9. \A q \in Orders : q \in AckWork' => row[q].st = 2
  BY <1>7 DEF AckWork
<1> QED BY <1>0, <1>b, <1>7, <1>8, <1>9, OthersAtWork, StagesKept

LEMMA ShipStages ==
    ASSUME TypeOK, StatusInv, ManualJobs = {}, Ship
    PROVE  StatusInv' /\ (Stays \/ \E o \in Orders : Up(o))
<1>0. /\ row \in [Orders -> Row] /\ ship \in ShipType
      /\ UNCHANGED <<pull, push, ack, inv, adm>>
  BY DEF TypeOK, Ship
<1>a. row' = row => Stays
  BY DEF Stays
<1>c. /\ \A q \in ship.todo \cup Sent : row[q].st = 3
      /\ ship.todo \cap Sent = {}
  BY <1>0 DEF StatusInv, Divided, ShipWork, ShipType, Sent
<1>1. ASSUME NEW o \in Orders, NEW s \in SUBSET Parcels, NEW m \in SUBSET Parcels,
             ShipPlanned(o, s, m), IsOldest(o, ship.todo)
      PROVE  /\ ship'.todo \subseteq ship.todo \ {o}
             /\ \A q \in Orders : q \in Sent' => q \in Sent \/ (q = o /\ s # {})
  <2>1. CASE ship' = ShipIdle
    BY <2>1 DEF ShipIdle, Nothing, Sent
  <2>2. CASE ship' # ShipIdle
    <3>1. ship' = [ship EXCEPT !.pc = IF ship.todo = {o} THEN "send" ELSE @,
                              !.todo = @ \ {o}, !.send[o] = s, !.mark[o] = m,
                              !.loc[o] = {}, !.seen[o] = "none", !.pkg[o] = {}]
      BY <2>2, <1>1 DEF ShipPlanned
    <3>2. /\ ship'.todo = ship.todo \ {o}
          /\ ship'.send = [ship.send EXCEPT ![o] = s]
      BY <3>1, <1>0 DEF ShipType
    <3>3. ship.send \in [Orders -> SUBSET Parcels]
      BY <1>0 DEF ShipType
    <3> QED BY <3>2, <3>3 DEF Sent
  <2> QED BY <2>1, <2>2
<1>2. ASSUME NEW o \in Orders, ShipSkip(o) \/ ShipPrepare(o)
      PROVE  /\ Stays /\ ship'.todo \cap Sent' = {}
             /\ ship'.todo \cup Sent' \subseteq ship.todo \cup Sent
  <2>1. IsOldest(o, ship.todo) /\ row' = row
    BY <1>2 DEF ShipSkip, ShipPrepare
  <2>2. \E s, m \in SUBSET Parcels : ShipPlanned(o, s, m)
    <3>1. ShipSkip(o) => ShipPlanned(o, {}, {})
      BY DEF ShipSkip
    <3>2. New(o) \in SUBSET Parcels
      BY DEF New, TypeOK, PartnersTypeOK, WmsOrder
    <3>3. ship.loc[o] \cup ship.pkg[o] \cup New(o) \in SUBSET Parcels
      BY <3>2, <1>0 DEF ShipType
    <3>4. ShipPrepare(o) => ShipPlanned(o, New(o) \ Empty,
                               ship.loc[o] \cup ship.pkg[o] \cup New(o))
      BY DEF ShipPrepare
    <3>5. New(o) \ Empty \in SUBSET Parcels
      BY <3>2
    <3> QED BY <1>2, <3>1, <3>3, <3>4, <3>5
  <2>3. o \in ship.todo /\ Sent' \subseteq Orders
    BY <2>1 DEF IsOldest, Sent
  <2>4. /\ ship'.todo \subseteq ship.todo \ {o}
        /\ \A q \in Sent' : q \in Sent \/ q = o
    <3>1. PICK s, m \in SUBSET Parcels : ShipPlanned(o, s, m)
      BY <2>2
    <3> QED BY <3>1, <2>1, <2>3, <1>1
  <2>5. Stays
    BY <2>1, <1>a
  <2> QED BY <2>3, <2>4, <2>5, <1>c
<1>3. ASSUME NEW o \in Orders, ShipNothingNew(o)
      PROVE  /\ row[o].st = 3
             /\ Stays \/ Up(o)
             /\ o \notin ship'.todo \cup Sent'
             /\ ship'.todo \cup Sent' \subseteq ship.todo \cup Sent
             /\ ship'.todo \cap Sent' = {}
  <2>1. /\ ShipPlanned(o, {}, {}) /\ IsOldest(o, ship.todo) /\ UNCHANGED partners
        /\ UpdateStatus(o, 4) \/ row' = row
    BY <1>3 DEF ShipNothingNew
  <2>2. o \in ship.todo /\ o \notin Sent /\ row[o].st = 3
    BY <2>1, <1>c DEF IsOldest
  <2>3. ship'.todo \subseteq ship.todo \ {o} /\ Sent' \subseteq Sent
    BY <2>1, <1>1 DEF Sent
  <2>4. Stays \/ Up(o)
    BY <2>1, <2>2, <1>0, <1>a, WriteUp
  <2> QED BY <2>2, <2>3, <2>4, <1>c
<1>4. ASSUME NEW o \in Orders, ShipCommit(o)
      PROVE  /\ row[o].st = 3
             /\ Stays \/ Up(o)
             /\ o \notin ship'.todo \cup Sent'
             /\ ship'.todo \cup Sent' \subseteq ship.todo \cup Sent
             /\ ship'.todo \cap Sent' = {}
  <2>1. /\ IsOldest(o, Sent) /\ UNCHANGED partners
        /\ UpdateStatusAndTrackingNo(o, 4, ship.mark[o]) \/ row' = row
        /\ ship' = IF Sent = {o} THEN ShipIdle
                   ELSE [ship EXCEPT !.send[o] = {}, !.mark[o] = {}, !.res[o] = "none"]
    BY <1>4 DEF ShipCommit
  <2>2. o \in Sent /\ o \notin ship.todo /\ row[o].st = 3
    BY <2>1, <1>c DEF IsOldest
  <2>3. ship'.todo \subseteq ship.todo /\ Sent' \subseteq Sent \ {o}
    <3>1. CASE ship' = ShipIdle
      BY <3>1 DEF ShipIdle, Nothing, Sent
    <3>2. CASE ship' = [ship EXCEPT !.send[o] = {}, !.mark[o] = {}, !.res[o] = "none"]
      <4>1. ship'.todo = ship.todo /\ ship'.send = [ship.send EXCEPT ![o] = {}]
        BY <3>2, <1>0 DEF ShipType
      <4>2. ship.send \in [Orders -> SUBSET Parcels]
        BY <1>0 DEF ShipType
      <4> QED BY <4>1, <4>2 DEF Sent
    <3> QED BY <2>1, <3>1, <3>2
  <2>4. Stays \/ Up(o)
    BY <2>1, <2>2, <1>0, <1>a, WriteUp
  <2> QED BY <2>2, <2>3, <2>4, <1>c
<1>5. ShipStart({}) => /\ Stays /\ Sent' = {}
                       /\ \A q \in ship'.todo : row[q].st = 3
  <2>1. \A q \in ShipBatch({}) : row[q].st = 3
    BY DEF ShipBatch, FindByStatus, WithStatus
  <2>2. ShipStart({}) => /\ row' = row /\ ship'.todo = ShipBatch({})
                         /\ ship'.send = Nothing
    BY DEF ShipStart, ShipIdle
  <2> QED BY <2>1, <2>2, <1>a DEF Sent, Nothing
<1>6. ShipFetch \/ ShipSend \/ ShipVerified \/ ShipAbort
         => Stays /\ ship'.todo \subseteq ship.todo /\ Sent' \subseteq Sent
  <2>1. ShipFetch \/ ShipSend \/ ShipVerified \/ ShipAbort => row' = row
    BY DEF ShipFetch, ShipSend, ShipVerified, ShipAbort
  <2>2. ShipFetch => \E f, g : ship' = [ship EXCEPT !.pc = "plan", !.seen = f, !.pkg = g]
    BY DEF ShipFetch
  <2>3. ShipFetch => ship'.todo = ship.todo /\ ship'.send = ship.send
    BY <2>2, <1>0 DEF ShipType
  <2>4. ShipSend \/ ShipVerified \/ ShipAbort
           => \/ ship' = ShipIdle
              \/ ship' = [ship EXCEPT !.pc = "wait", !.pend = ship.send]
              \/ ship' = [ship EXCEPT !.pc = "commit", !.pend = Nothing]
    BY DEF ShipSend, ShipVerified, ShipAbort
  <2>5. ship' = ShipIdle => ship'.todo = {} /\ Sent' = {}
    BY DEF ShipIdle, Nothing, Sent
  <2>6. ASSUME \/ ship' = [ship EXCEPT !.pc = "wait", !.pend = ship.send]
               \/ ship' = [ship EXCEPT !.pc = "commit", !.pend = Nothing]
        PROVE  ship'.todo = ship.todo /\ ship'.send = ship.send
    BY <2>6, <1>0 DEF ShipType
  <2>7. ship'.send = ship.send => Sent' = Sent
    BY DEF Sent
  <2>8. ShipFetch \/ ShipSend \/ ShipVerified \/ ShipAbort
           => \/ ship'.todo = {} /\ Sent' = {}
              \/ ship'.todo = ship.todo /\ Sent' = Sent
    BY <2>3, <2>4, <2>5, <2>6, <2>7
  <2> QED BY <2>1, <2>8, <1>a
<1>7. ASSUME NEW o \in Orders, ShipProcessed(o)
      PROVE  Stays /\ ship'.todo = ship.todo /\ Sent' = Sent
  <2>1. row' = row
    BY <1>7 DEF ShipProcessed
  <2>2. \E a, b : ship' = [ship EXCEPT !.pend[o] = a, !.res[o] = b]
    BY <1>7 DEF ShipProcessed
  <2>3. ship'.todo = ship.todo /\ ship'.send = ship.send
    BY <2>2, <1>0 DEF ShipType
  <2> QED BY <2>1, <2>3, <1>a DEF Sent
<1>8. /\ \A q \in ship'.todo \cup Sent' : row[q].st = 3
      /\ ship'.todo \cap Sent' = {}
      /\ Stays \/ \E o \in Orders : /\ Up(o) /\ row[o].st = 3
                                     /\ o \notin ship'.todo \cup Sent'
  <2>1. CASE \E o \in Orders : ShipNothingNew(o)
    BY <2>1, <1>c, <1>3
  <2>2. CASE \E o \in Orders : ShipCommit(o)
    BY <2>2, <1>c, <1>4
  <2>3. CASE \E o \in Orders : ShipSkip(o) \/ ShipPrepare(o)
    BY <2>3, <1>c, <1>2
  <2>4. CASE ShipStart({})
    BY <2>4, <1>5
  <2>5. CASE ShipFetch \/ ShipSend \/ ShipVerified \/ ShipAbort
    BY <2>5, <1>6, <1>c
  <2>6. CASE \E o \in Orders : ShipProcessed(o)
    BY <2>6, <1>7, <1>c
  <2> QED BY <2>1, <2>2, <2>3, <2>4, <2>5, <2>6 DEF Ship, ShipStep
<1>b. Divided'
  BY <1>0, <1>8 DEF StatusInv, Divided
<1>9. ASSUME NEW o \in Orders, row[o].st = 3, o \notin ship'.todo \cup Sent'
      PROVE  o \notin (PushWork \cup AckWork \cup ShipWork \cup InvWork)'
  BY <1>9, <1>0, OthersAtWork DEF ShipWork
<1>10. \A q \in Orders : q \in ShipWork' => row[q].st = 3
  BY <1>8 DEF ShipWork
<1> QED BY <1>0, <1>b, <1>8, <1>9, <1>10, OthersAtWork, StagesKept

LEMMA InvStages ==
    ASSUME TypeOK, StatusInv, ManualJobs = {}, Invoice
    PROVE  StatusInv' /\ (Stays \/ \E o \in Orders : Up(o))
<1>0. /\ row \in [Orders -> Row] /\ inv \in InvType
      /\ UNCHANGED <<pull, push, ack, ship, adm>>
  BY DEF TypeOK, Invoice
<1>a. row' = row => Stays
  BY DEF Stays
<1>c. /\ \A q \in inv.todo \cup inv.send : row[q].st = 4
      /\ inv.todo \cap inv.send = {}
  BY <1>0 DEF StatusInv, Divided, InvWork, InvType
<1>1. ASSUME NEW o \in Orders, NEW send \in SUBSET Orders, InvPlanned(o, send)
      PROVE  /\ inv'.todo \subseteq inv.todo \ {o} /\ inv'.send \subseteq send
  BY <1>0, <1>1 DEF InvPlanned, InvIdle, InvType
<1>2. ASSUME NEW o \in Orders, InvSkip(o) \/ InvPrepare(o)
      PROVE  /\ Stays /\ inv'.todo \cap inv'.send = {}
             /\ inv'.todo \cup inv'.send \subseteq inv.todo \cup inv.send
  <2>1. o \in inv.todo /\ row' = row
    BY <1>2 DEF InvSkip, InvPrepare, IsOldest
  <2>2. InvPlanned(o, inv.send) \/ InvPlanned(o, inv.send \cup {o})
    BY <1>2 DEF InvSkip, InvPrepare
  <2>3. /\ inv'.todo \subseteq inv.todo \ {o}
        /\ inv'.send \subseteq inv.send \cup {o}
    BY <2>2, <1>0, <1>1 DEF InvType
  <2> QED BY <2>1, <2>3, <1>a, <1>c
<1>3. ASSUME NEW o \in Orders, InvCommit(o)
      PROVE  /\ row[o].st = 4
             /\ Stays \/ Up(o)
             /\ o \notin inv'.todo \cup inv'.send
             /\ inv'.todo \cup inv'.send \subseteq inv.todo \cup inv.send
             /\ inv'.todo \cap inv'.send = {}
  <2>1. /\ IsOldest(o, inv.send) /\ UNCHANGED partners
        /\ UpdateStatusAndInvoiceID(o, 5) \/ row' = row
        /\ inv' = IF inv.send = {o} THEN InvIdle
                  ELSE [inv EXCEPT !.send = @ \ {o}, !.ok = @ \ {o}]
    BY <1>3 DEF InvCommit
  <2>2. o \in inv.send /\ o \notin inv.todo /\ row[o].st = 4
    BY <2>1, <1>c DEF IsOldest
  <2>3. inv'.todo \subseteq inv.todo /\ inv'.send \subseteq inv.send \ {o}
    BY <2>1, <1>0 DEF InvIdle, InvType
  <2>4. Stays \/ Up(o)
    BY <2>1, <2>2, <1>0, <1>a, WriteUp
  <2> QED BY <2>2, <2>3, <2>4, <1>c
<1>4. InvStart({}) => /\ Stays /\ inv'.send = {}
                      /\ \A q \in inv'.todo : row[q].st = 4
  BY <1>a, BatchOfStatus DEF InvStart, InvIdle
<1>5. InvSend \/ InvVerified \/ InvAbort
         => Stays /\ inv'.todo \subseteq inv.todo /\ inv'.send \subseteq inv.send
  <2>1. InvSend \/ InvVerified \/ InvAbort => row' = row
    BY DEF InvSend, InvVerified, InvAbort
  <2>2. InvSend \/ InvAbort => inv' = InvIdle \/ inv' = [inv EXCEPT !.pc = "wait", !.pend = inv.send]
    BY DEF InvSend, InvAbort
  <2>3. InvVerified => \E f : inv' = [inv EXCEPT !.pc = "commit", !.pend = {}, !.ok = f]
    BY DEF InvVerified
  <2>4. InvVerified => inv'.todo = inv.todo /\ inv'.send = inv.send
    BY <2>3, <1>0 DEF InvType
  <2>5. InvSend \/ InvAbort => inv'.todo \subseteq inv.todo /\ inv'.send \subseteq inv.send
    <3>1. CASE inv' = InvIdle
      BY <3>1 DEF InvIdle
    <3>2. CASE inv' = [inv EXCEPT !.pc = "wait", !.pend = inv.send]
      <4>1. inv'.todo = inv.todo /\ inv'.send = inv.send
        BY <3>2, <1>0 DEF InvType
      <4> QED BY <4>1
    <3> QED BY <2>2, <3>1, <3>2
  <2> QED BY <2>1, <2>4, <2>5, <1>a
<1>6. ASSUME NEW o \in Orders, InvProcessed(o)
      PROVE  Stays /\ inv'.todo = inv.todo /\ inv'.send = inv.send
  <2>1. row' = row
    BY <1>6 DEF InvProcessed
  <2>2. \E a, b : inv' = [inv EXCEPT !.pend = a, !.ok = b] \/ inv' = [inv EXCEPT !.pend = a]
    BY <1>6 DEF InvProcessed
  <2>3. inv'.todo = inv.todo /\ inv'.send = inv.send
    BY <2>2, <1>0 DEF InvType
  <2> QED BY <2>1, <2>3, <1>a
<1>7. /\ \A q \in inv'.todo \cup inv'.send : row[q].st = 4
      /\ inv'.todo \cap inv'.send = {}
      /\ Stays \/ \E o \in Orders : /\ Up(o) /\ row[o].st = 4
                                     /\ o \notin inv'.todo \cup inv'.send
  <2>1. CASE \E o \in Orders : InvCommit(o)
    BY <2>1, <1>c, <1>3
  <2>2. CASE \E o \in Orders : InvSkip(o) \/ InvPrepare(o)
    BY <2>2, <1>c, <1>2
  <2>3. CASE InvStart({})
    BY <2>3, <1>4
  <2>4. CASE InvSend \/ InvVerified \/ InvAbort
    BY <2>4, <1>5, <1>c
  <2>5. CASE \E o \in Orders : InvProcessed(o)
    BY <2>5, <1>6, <1>c
  <2> QED BY <2>1, <2>2, <2>3, <2>4, <2>5 DEF Invoice, InvStep
<1>b. Divided'
  BY <1>0, <1>7 DEF StatusInv, Divided, Sent
<1>8. ASSUME NEW o \in Orders, row[o].st = 4, o \notin inv'.todo \cup inv'.send
      PROVE  o \notin (PushWork \cup AckWork \cup ShipWork \cup InvWork)'
  BY <1>8, <1>0, OthersAtWork DEF InvWork
<1>9. \A q \in Orders : q \in InvWork' => row[q].st = 4
  BY <1>7 DEF InvWork
<1> QED BY <1>0, <1>b, <1>7, <1>8, <1>9, OthersAtWork, StagesKept

\* No pull starts, and the operator neither writes a status nor runs a job.
LEMMA NobodyElse ==
    ASSUME "pull" \notin Enabled, ManualJobs = {}, AdminStatuses = {}, StatusInv
    PROVE  ~Pull /\ ~Admin
<1>1. ~Pull
  BY DEF Pull, CanRun, PullStep, PullPage, PullRow, PullAbort, StatusInv
<1>2. ~Admin
  BY DEF Admin, AdminRead, AdminRun, AdminNoRun, StatusInv
<1> QED BY <1>1, <1>2

LEMMA NextStatus ==
    ASSUME "pull" \notin Enabled, ManualJobs = {}, AdminStatuses = {},
           TypeOK, StatusInv, [Next]_vars
    PROVE  StatusInv' /\ (Stays \/ \E o \in Orders : Up(o))
<1>1. CASE Environment \/ UNCHANGED vars
  <2>1. UNCHANGED <<row, pull, push, ack, ship, inv, adm>>
    BY <1>1 DEF Environment, vars, tasks
  <2> QED BY <2>1 DEF StatusInv, Divided, Sent, Stays, PushWork, AckWork, ShipWork, InvWork
<1>2. CASE Push \/ Ack \/ Ship \/ Invoice
  BY <1>2, PushStages, AckStages, ShipStages, InvStages
<1> QED BY <1>1, <1>2, NobodyElse DEF Next

\* Without pulls and operators no two tasks have the same order at one time:
\* the status column keeps them apart, whatever fails or is cut off.
THEOREM TasksKeptApart ==
    ASSUME "pull" \notin Enabled, ManualJobs = {}, AdminStatuses = {}
    PROVE  Spec => []OneTaskPerOrder
<1>1. Init => TypeOK /\ StatusInv
  BY InitTyped, InitStatus
<1>2. TypeOK /\ StatusInv /\ [Next]_vars => (TypeOK /\ StatusInv)'
  BY NextTyped, NextStatus
<1>3. TypeOK /\ StatusInv => OneTaskPerOrder
  <2> SUFFICES ASSUME TypeOK, StatusInv PROVE OneTaskPerOrder
    OBVIOUS
  <2>1. PushWork \cup AckWork \cup ShipWork \cup InvWork \subseteq Orders
    BY DEF TypeOK, PushType, AckType, ShipType, InvType, Sent,
           PushWork, AckWork, ShipWork, InvWork
  <2> QED BY <2>1 DEF StatusInv, OneTaskPerOrder
<1> QED BY <1>1, <1>2, <1>3, PTL DEF Spec

-----------------------------------------------------------------------------
(* The refinement *)

\* The evidence a status is written on, all of it at once.
LEMMA UpBacked ==
    ASSUME AdminStatuses = {}, EvidenceInv', InvoiceInv', AfterInv',
           row \in [Orders -> Row], NEW o \in Orders, Up(o)
    PROVE  /\ row[o].st = 1 => Taken(o)
           /\ row[o].st = 2 => lx[o].rv = "all" \/ dsco[o].st \notin {"none", "created"}
           /\ row[o].st = 3 => Goods \subseteq dsco[o].pkg
           /\ row[o].st = 4 => dsco[o].inv > 0
<1>1. UNCHANGED <<dsco, lx>>
  BY DEF Up, partners
<1>2. /\ row[o].st = 1 => row'[o].st = 2
      /\ row[o].st = 2 => row'[o].st = 3
      /\ row[o].st = 3 => row'[o].st = 4
      /\ row[o].st = 4 => row'[o].inv
  BY DEF Up
<1>3. row'[o].st = 4 => Goods \subseteq dsco'[o].pkg
  BY DEF AfterInv, PastShipment
<1>4. row'[o].inv => dsco'[o].inv > 0
  BY DEF InvoiceInv
<1>5. /\ row'[o].st = 2 => Taken(o)'
      /\ row'[o].st = 3 => lx'[o].rv = "all" \/ dsco'[o].st \notin {"none", "created"}
  BY DEF EvidenceInv
<1>6. Taken(o)' <=> Taken(o)
  BY <1>1 DEF Taken
<1> QED BY <1>1, <1>2, <1>3, <1>4, <1>5, <1>6

LEMMA InitLifecycle == Init => Lifecycle!Init
<1> SUFFICES ASSUME Init PROVE Lifecycle!Init
  OBVIOUS
<1>1. \A o \in Orders : row[o].st \in 0..3
  <2>1. PICK f \in [Orders -> Start] : row = [o \in Orders |-> Cleared(f[o])]
    BY DEF Init, RowInit
  <2>2. \A o \in Orders : f[o] \in 0..3
    BY StartAssumption
  <2> QED BY <2>1, <2>2 DEF Cleared
<1>2. \A o \in Orders :
         /\ Taken(o) <=> row[o].st >= 2
         /\ lx[o].rv = "all" <=> row[o].st = 3
         /\ dsco[o].st \notin {"none", "created"} <=> row[o].st = 3
         /\ ~(Goods \subseteq dsco[o].pkg)
         /\ ~(dsco[o].inv > 0)
  <2>1. \A o \in Orders : /\ Taken(o) <=> row[o].st >= 2
                          /\ lx[o].rv = "all" <=> row[o].st = 3
    BY <1>1 DEF Init, PartnersInit, Taken
  <2>2. \A o \in Orders : dsco[o].st \notin {"none", "created"} <=> row[o].st = 3
    BY <1>1 DEF Init, PartnersInit
  <2>3. \A o \in Orders : dsco[o].pkg = {} /\ dsco[o].inv = 0
    BY DEF Init, PartnersInit
  <2> QED BY <2>1, <2>2, <2>3, GoodsAssumption
<1> QED BY <1>1, <1>2 DEF Lifecycle!Init

\* What the partners showed they show for ever; an order moves on with the
\* evidence of the stage it leaves.
LEMMA StepLifecycle ==
    ASSUME row \in [Orders -> Row], Grows, Lasting,
           \/ Stays
           \/ \E o \in Orders :
                 /\ Up(o)
                 /\ row[o].st = 1 => Taken(o)
                 /\ row[o].st = 2 => lx[o].rv = "all" \/ dsco[o].st \notin {"none", "created"}
                 /\ row[o].st = 3 => Goods \subseteq dsco[o].pkg
                 /\ row[o].st = 4 => dsco[o].inv > 0
    PROVE  Lifecycle!Next
<1>1. CASE Stays
  <2>0. \A o \in Orders : Taken(o) => Taken(o)'
    BY DEF Taken, Lasting
  <2>1. Lifecycle!Learn
    BY <1>1, <2>0 DEF Lifecycle!Learn, Stays, Grows, Lasting
  <2> QED BY <2>1 DEF Lifecycle!Next
<1>2. ASSUME NEW o \in Orders, Up(o),
             row[o].st = 1 => Taken(o),
             row[o].st = 2 => lx[o].rv = "all" \/ dsco[o].st \notin {"none", "created"},
             row[o].st = 3 => Goods \subseteq dsco[o].pkg,
             row[o].st = 4 => dsco[o].inv > 0
      PROVE  Lifecycle!Next
  <2>1. UNCHANGED <<dsco, lx>>
    BY <1>2 DEF Up, partners
  <2>2. UNCHANGED Lifecycle!facts
    BY <2>1 DEF Lifecycle!facts, Taken
  <2>3. [q \in Orders |-> row'[q].st]
           = [[q \in Orders |-> row[q].st] EXCEPT ![o] = @ + 1]
    BY <1>2 DEF Up
  <2>4. row[o].st \in 1..4
    BY <1>2 DEF Up
  <2>5. o \in Lifecycle!Evidence(row[o].st + 1)
    BY <2>4, <1>2 DEF Lifecycle!Evidence
  <2>6. Lifecycle!Advance(o)
    BY <2>2, <2>3, <2>4, <2>5 DEF Lifecycle!Advance
  <2> QED BY <2>6 DEF Lifecycle!Next
<1> QED BY <1>1, <1>2

\* Without pulls and operators the four later tasks, whatever fails, is late
\* or cut off, implement the life cycle of an order: one stage at a time, and
\* each with what the partners show for it.
THEOREM LifecycleImplemented ==
    ASSUME "lookup" \notin Faults, "perpkg" \notin World,
           "pull" \notin Enabled, ManualJobs = {}, AdminStatuses = {}
    PROVE  Spec => LifecycleSpec
<1> DEFINE Ind == /\ TypeOK /\ StatusInv /\ CreateInv /\ AckInv /\ EvidenceInv
                  /\ TrackInv /\ InvoiceInv /\ AfterInv
           stages == [o \in Orders |-> row[o].st]
<1>1. Init => Ind
  BY InitTyped, InitStatus, InitCreate, InitAck, InitEvidence, InitTrack,
     InitInvoice, InitAfter
<1>2. Ind /\ [Next]_vars => Ind'
  BY NextTyped, NextStatus, NextCreate, NextAck, NextEvidence, NextTrack,
     NextInvoice, NextAfter
<1>3. Ind /\ Ind' /\ [Next]_vars => [Lifecycle!Next]_<<stages, Lifecycle!facts>>
  <2> SUFFICES ASSUME Ind, Ind', [Next]_vars
               PROVE  Lifecycle!Next
    OBVIOUS
  <2>1. row \in [Orders -> Row]
    BY DEF TypeOK
  <2>2. Grows /\ Lasting
    BY NextGrows, NextCreate
  <2>3. Stays \/ \E o \in Orders : Up(o)
    BY NextStatus
  <2> QED BY <2>1, <2>2, <2>3, UpBacked, StepLifecycle
<1> HIDE DEF Ind
<1> QED BY <1>1, <1>2, <1>3, InitLifecycle, PTL DEF Spec, LifecycleSpec, Lifecycle!Spec
=============================================================================
