------------------------------ MODULE PushTask ------------------------------
(***************************************************************************)
(* Task 2, push_to_lingxing: create in LingXing the orders whose row is at *)
(* status 1 and move the row to 2.  What LingXing already has is looked up *)
(* once for the whole batch, before the first order is created.            *)
(***************************************************************************)
EXTENDS Jobs

VARIABLE push
(* pc "lookup": which orders exist is to be read; "work": the oldest order *)
(* of todo is next; "update": its create call was answered with success,   *)
(* its row is not written yet.  exist: the orders the lookup found.        *)

PushIdle == [pc |-> "idle", todo |-> {}, exist |-> {}]
PushType == [pc : {"idle", "lookup", "work", "update"},
             todo : SUBSET Orders, exist : SUBSET Orders]
PushInit == push = PushIdle

PushDone(o) == push' = IF push.todo = {o} THEN PushIdle
                       ELSE [push EXCEPT !.pc = "work", !.todo = @ \ {o}]

-----------------------------------------------------------------------------
\* A run that selects no row returns at once and leaves no trace.
PushStart(only) ==
    /\ push.pc = "idle"
    /\ Batch(1, only) # {}
    /\ push' = [PushIdle EXCEPT !.pc = "lookup", !.todo = Batch(1, only)]
    /\ UNCHANGED <<row, partners>>

\* Mutant: orders another run created since the batch was read are not seen.
PushLookupBlind ==
    /\ push.pc = "lookup"
    /\ push' = [push EXCEPT !.pc = "work", !.exist = {}]
    /\ UNCHANGED <<row, partners>>

\* One list call; when it fails each order is asked for by itself, and an
\* order whose own call fails counts as absent.  After a success without data
\* all of them do.
PushLookup ==
    /\ push.pc = "lookup"
    /\ LET known == {o \in push.todo : lx[o].n > 0}
       IN \E found \in (IF "lookup" \in Faults THEN SUBSET known ELSE {known}) :
             push' = [push EXCEPT !.pc = "work", !.exist = found]
    /\ UNCHANGED <<row, partners>>

\* An order LingXing has is not created again: its row moves to 2.
PushExisting(o) ==
    /\ push.pc = "work" /\ IsOldest(o, push.todo)
    /\ o \in push.exist
    /\ \/ UpdateStatusAndFields(o, 2)
       \/ "db" \in Faults /\ UNCHANGED row
    /\ PushDone(o)
    /\ UNCHANGED partners

PushSkip(o) ==
    /\ push.pc = "work" /\ IsOldest(o, push.todo)
    /\ o \in Unmapped \ push.exist
    /\ PushDone(o)
    /\ UNCHANGED <<row, partners>>

\* Mutant: the row moves to 2 though the call failed and created nothing.
PushCreateForgiving(o) ==
    /\ push.pc = "work" /\ IsOldest(o, push.todo)
    /\ o \notin Unmapped \cup push.exist
    /\ \/ CreateInLx(o) \/ CreateVoid(o)
       \/ "send" \in Faults /\ lx' = lx
    /\ push' = [push EXCEPT !.pc = "update"]
    /\ UNCHANGED <<row, dsco, wms, akq, shq, ivq>>

\* CreateOrdersV2.  A call that fails may have created the order all the
\* same; the row then stays at 1.  It takes an error, or an error detail and
\* no success detail, to count as failed: an answer with neither goes on to
\* the update.
PushCreate(o) ==
    /\ push.pc = "work" /\ IsOldest(o, push.todo)
    /\ o \notin Unmapped \cup push.exist
    /\ \/ /\ CreateInLx(o) \/ CreateVoid(o)
          /\ push' = [push EXCEPT !.pc = "update"]
       \/ /\ "send" \in Faults
          /\ CreateInLx(o) \/ lx' = lx
          /\ PushDone(o)
    /\ UNCHANGED <<row, dsco, wms, akq, shq, ivq>>

PushUpdate(o) ==
    /\ push.pc = "update" /\ IsOldest(o, push.todo)
    /\ \/ UpdateStatusAndFields(o, 2)
       \/ "db" \in Faults /\ UNCHANGED row
    /\ PushDone(o)
    /\ UNCHANGED partners

PushAbort == /\ "abort" \in Faults /\ push.pc # "idle"
             /\ push' = PushIdle /\ UNCHANGED <<row, partners>>

PushStep == \/ PushLookup
            \/ \E o \in Orders : \/ PushExisting(o) \/ PushSkip(o)
                                 \/ PushCreate(o)   \/ PushUpdate(o)
=============================================================================
