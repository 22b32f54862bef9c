------------------------------ MODULE OrderSync ------------------------------
(***************************************************************************)
(* The order synchronisation as a whole: the five tasks, which share the   *)
(* table dsco_order_sync and nothing else, the operator's console, DSCO    *)
(* and LingXing.  Any two tasks may run at the same time; the order of     *)
(* the scheduler's starts is left open.                                    *)
(***************************************************************************)
EXTENDS PullTask, PushTask, AckTask, ShipTask, InvoiceTask

CONSTANT AdminStatuses   \* statuses the operator writes into rows by hand
ASSUME AdminAssumption == AdminStatuses \subseteq 1..6

VARIABLE adm   \* the one-order request in progress: its order and its job

tasks == <<pull, push, ack, ship, inv>>
vars  == <<row, partners, tasks, adm>>

AdmIdle == [po |-> {}, job |-> "none"]
AdmType == [po : SUBSET Orders, job : JobNames \cup {"none"}]

TypeOK ==
    /\ row \in [Orders -> Row]
    /\ PartnersTypeOK
    /\ pull \in PullType /\ push \in PushType /\ ack \in AckType
    /\ ship \in ShipType /\ inv \in InvType
    /\ adm \in AdmType

Init ==
    /\ RowInit /\ PartnersInit
    /\ PullInit /\ PushInit /\ AckInit /\ ShipInit /\ InvInit
    /\ adm = AdmIdle

-----------------------------------------------------------------------------
(* The operator's console (admin/api.go) *)

\* apiUpdateOrderStatus: any status, whatever the row and the tasks are at.
AdminSetStatus(o, s) ==
    /\ row[o].st # 0
    /\ UpdateStatus(o, s)
    /\ UNCHANGED <<partners, tasks, adm>>

\* apiRunOneOrderByStatus reads the row and picks the job ...
AdminRead(o) ==
    /\ adm = AdmIdle
    /\ row[o].st \in 1..4
    /\ JobOf(row[o].st) \in ManualJobs
    /\ adm' = [po |-> {o}, job |-> JobOf(row[o].st)]
    /\ UNCHANGED <<row, partners, tasks>>

\* ... and then runs it for that order, with what the row is by now.
AdminRun ==
    /\ adm # AdmIdle
    /\ adm' = AdmIdle
    /\ \/ adm.job = "push"    /\ PushStart(adm.po) /\ UNCHANGED <<pull, ack, ship, inv>>
       \/ adm.job = "ack"     /\ AckStart(adm.po)  /\ UNCHANGED <<pull, push, ship, inv>>
       \/ adm.job = "ship"    /\ ShipStart(adm.po) /\ UNCHANGED <<pull, push, ack, inv>>
       \/ adm.job = "invoice" /\ InvStart(adm.po)  /\ UNCHANGED <<pull, push, ack, ship>>

\* The job is running already (409), or the order has left its status.
AdminNoRun ==
    /\ adm # AdmIdle
    /\ \/ adm.job = "push"    /\ (push.pc # "idle" \/ Batch(1, adm.po) = {})
       \/ adm.job = "ack"     /\ (ack.pc  # "idle" \/ Batch(2, adm.po) = {})
       \/ adm.job = "ship"    /\ (ship.pc # "idle" \/ ShipBatch(adm.po) = {})
       \/ adm.job = "invoice" /\ (inv.pc  # "idle" \/ Batch(4, adm.po) = {})
    /\ adm' = AdmIdle
    /\ UNCHANGED <<row, partners, tasks>>

Admin == \/ \E o \in Orders : AdminRead(o) \/ \E s \in AdminStatuses : AdminSetStatus(o, s)
         \/ AdminRun \/ AdminNoRun

-----------------------------------------------------------------------------
(* Steps of the tasks *)

Pull == /\ \/ CanRun("pull") /\ PullStart
           \/ "pull" \in ManualJobs /\ PullManual
           \/ PullStep \/ PullAbort
        /\ UNCHANGED <<push, ack, ship, inv, adm>>

Push == /\ \/ CanRun("push") /\ PushStart({})
           \/ PushStep \/ PushAbort
        /\ UNCHANGED <<pull, ack, ship, inv, adm>>

Ack  == /\ \/ CanRun("ack") /\ AckStart({})
           \/ AckStep \/ AckAbort
        /\ UNCHANGED <<pull, push, ship, inv, adm>>

Ship == /\ \/ CanRun("ship") /\ ShipStart({})
           \/ ShipStep \/ ShipAbort
           \/ \E o \in Orders : ShipProcessed(o)
        /\ UNCHANGED <<pull, push, ack, inv, adm>>

Invoice == /\ \/ CanRun("invoice") /\ InvStart({})
              \/ InvStep \/ InvAbort
              \/ \E o \in Orders : InvProcessed(o)
           /\ UNCHANGED <<pull, push, ack, ship, adm>>

Environment == PartnerStep /\ UNCHANGED <<row, tasks, adm>>

Next == Pull \/ Push \/ Ack \/ Ship \/ Invoice \/ Admin \/ Environment

Spec == Init /\ [][Next]_vars

-----------------------------------------------------------------------------
(* Fairness.  The scheduler starts every enabled job again and again, a    *)
(* run goes on to its end (every wait in the code has a time limit), the   *)
(* partners process what they are sent.  Whether an operator acts, or      *)
(* DSCO cancels an order, is up to them.                                   *)

Others(t) == UNCHANGED <<adm, t>>

Fairness ==
    /\ WF_vars("pull" \in Enabled /\ PullStart /\ Others(<<push, ack, ship, inv>>))
    /\ WF_vars(PullStep /\ Others(<<push, ack, ship, inv>>))
    /\ WF_vars("push" \in Enabled /\ PushStart({}) /\ Others(<<pull, ack, ship, inv>>))
    /\ WF_vars(PushStep /\ Others(<<pull, ack, ship, inv>>))
    /\ WF_vars("ack" \in Enabled /\ AckStart({}) /\ Others(<<pull, push, ship, inv>>))
    /\ WF_vars(AckStep /\ Others(<<pull, push, ship, inv>>))
    /\ WF_vars("ship" \in Enabled /\ ShipStart({}) /\ Others(<<pull, push, ack, inv>>))
    /\ WF_vars((ShipStep \/ \E o \in Orders : ShipProcessed(o))
                 /\ Others(<<pull, push, ack, inv>>))
    /\ WF_vars("invoice" \in Enabled /\ InvStart({}) /\ Others(<<pull, push, ack, ship>>))
    /\ WF_vars((InvStep \/ \E o \in Orders : InvProcessed(o))
                 /\ Others(<<pull, push, ack, ship>>))
    /\ \A o \in Orders :
         /\ WF_vars(Arrive(o) /\ UNCHANGED <<row, tasks, adm>>)
         /\ WF_vars(Review(o) /\ UNCHANGED <<row, tasks, adm>>)
         /\ WF_vars(AckProcessed(o) /\ UNCHANGED <<row, tasks, adm>>)
         /\ WF_vars(LateShipment(o) /\ UNCHANGED <<row, tasks, adm>>)
         /\ WF_vars(LateInvoice(o) /\ UNCHANGED <<row, tasks, adm>>)
         /\ \A p \in Parcels :
              /\ WF_vars(Outbound(o, p) /\ UNCHANGED <<row, tasks, adm>>)
              /\ WF_vars(AssignTracking(o, p) /\ UNCHANGED <<row, tasks, adm>>)

FairSpec == Spec /\ Fairness
=============================================================================
