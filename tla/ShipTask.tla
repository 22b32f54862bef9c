------------------------------ MODULE ShipTask ------------------------------
(***************************************************************************)
(* Task 4, ship_to_dsco: report to DSCO the tracking numbers of the orders *)
(* at status 3 once every parcel has one, wait for the change log of the   *)
(* request, and move to 4 the rows whose log says success.                 *)
(***************************************************************************)
EXTENDS Jobs

VARIABLE ship
(* pc "fetch": the DSCO orders are to be read; "plan": the oldest order of *)
(* todo is next; "send": the batch is ready; "wait": DSCO has it; "commit":*)
(* rows are being written.  one: a one-order run.                          *)
(* Per order: loc, the row's tracking numbers when it was selected; seen   *)
(* and pkg, DSCO's status ("none" if the read failed) and packages; send,  *)
(* what is reported; mark, what the row gets; pend, what DSCO has not      *)
(* processed; res, what the change log shows so far.                       *)

Nothing  == [o \in Orders |-> {}]
ShipIdle == [pc |-> "idle", one |-> FALSE, todo |-> {}, loc |-> Nothing,
             seen |-> [o \in Orders |-> "none"], pkg |-> Nothing,
             send |-> Nothing, mark |-> Nothing, pend |-> Nothing,
             res |-> [o \in Orders |-> "none"]]
ShipType == [pc : {"idle", "fetch", "plan", "send", "wait", "commit"},
             one : BOOLEAN, todo : SUBSET Orders,
             loc  : [Orders -> SUBSET Parcels], seen : [Orders -> DscoStatus],
             pkg  : [Orders -> SUBSET Parcels], send : [Orders -> SUBSET Parcels],
             mark : [Orders -> SUBSET Parcels], pend : [Orders -> SUBSET Parcels],
             res  : [Orders -> {"none", "ok", "fail"}]]
ShipInit == ship = ShipIdle

Sent == {o \in Orders : ship.send[o] # {}}

\* Order o is planned: it will report s and, if that succeeds, store m.
ShipPlanned(o, s, m) ==
    ship' = IF ship.todo = {o} /\ Sent = {} /\ s = {} THEN ShipIdle
            ELSE [ship EXCEPT !.pc = IF ship.todo = {o} THEN "send" ELSE @,
                              !.todo = @ \ {o}, !.send[o] = s, !.mark[o] = m,
                              !.loc[o] = {}, !.seen[o] = "none", !.pkg[o] = {}]

-----------------------------------------------------------------------------
\* Mutant: scheduled runs take rows past status 3 as well.
ShipBatchAny(only) == {o \in Orders : (only = {} \/ o \in only) /\ row[o].st >= 3}

\* A one-order run takes the order at any status from 3 on.
ShipBatch(only) == IF only = {} THEN FindByStatus(3, Size)
                   ELSE {o \in only : row[o].st >= 3}

ShipStart(only) ==
    /\ ship.pc = "idle"
    /\ ShipBatch(only) # {}
    /\ ship' = [ShipIdle EXCEPT
                  !.pc = "fetch", !.one = only # {}, !.todo = ShipBatch(only),
                  !.loc = [o \in Orders |-> IF o \in ShipBatch(only)
                                            THEN row[o].trk ELSE {}]]
    /\ UNCHANGED <<row, partners>>

\* An order that cannot be read is planned without what DSCO has.  (One that
\* is answered without data has no status and is skipped, as under "wms".)
ShipFetch ==
    /\ ship.pc = "fetch"
    /\ \E read \in (IF "fetch" \in Faults THEN SUBSET ship.todo ELSE {ship.todo}) :
          ship' = [ship EXCEPT
                     !.pc   = "plan",
                     !.seen = [o \in Orders |-> IF o \in read THEN dsco[o].st
                                                ELSE "none"],
                     !.pkg  = [o \in Orders |-> IF o \in read THEN dsco[o].pkg
                                                ELSE {}]]
    /\ UNCHANGED <<row, partners>>

\* What the checks on DSCO's status and on multi_ban let through.  An order
\* that could not be read goes on.
ShipAllowed(o) == /\ ship.seen[o] \in {"none"} \cup Confirmed
                  /\ o \in Banned => ship.one

\* Mutant: only what the row says counts as reported.
AlreadyLocal(o) == ship.loc[o]

\* DSCO's packages decide what is reported already; the row's own tracking
\* numbers only when DSCO could not be read.
Already(o) == IF ship.seen[o] = "none" THEN ship.loc[o] ELSE ship.pkg[o]

\* Mutant: one tracking number is enough.
SomeTracked(o) == Goods \cap wms[o].trk # {}

\* The parcels with a tracking number hold all that was ordered.
FullyTracked(o) == Goods \subseteq wms[o].trk

\* Tracking numbers DSCO does not have; those of empty parcels cannot be sent.
New(o) == wms[o].trk \ Already(o)

ShipSkip(o) ==
    /\ ship.pc = "plan" /\ IsOldest(o, ship.todo)
    /\ \/ ~ShipAllowed(o) \/ ~FullyTracked(o) \/ "wms" \in Faults
       \/ New(o) # {} /\ New(o) \subseteq Empty
    /\ ShipPlanned(o, {}, {})
    /\ UNCHANGED <<row, partners>>

\* Nothing left to report: the row moves to 4, its tracking numbers stay.
ShipNothingNew(o) ==
    /\ ship.pc = "plan" /\ IsOldest(o, ship.todo)
    /\ ShipAllowed(o) /\ FullyTracked(o)
    /\ New(o) = {}
    /\ \/ UpdateStatus(o, 4)
       \/ "db" \in Faults /\ UNCHANGED row
    /\ ShipPlanned(o, {}, {})
    /\ UNCHANGED partners

ShipPrepare(o) ==
    /\ ship.pc = "plan" /\ IsOldest(o, ship.todo)
    /\ ShipAllowed(o) /\ FullyTracked(o)
    /\ New(o) \ Empty # {}
    /\ ShipPlanned(o, New(o) \ Empty, ship.loc[o] \cup ship.pkg[o] \cup New(o))
    /\ UNCHANGED <<row, partners>>

\* Requests DSCO holds and this task stops waiting for.
Orphaned(left) == [o \in Orders |-> IF left[o] = {} THEN shq[o]
                                    ELSE shq[o] \cup {left[o]}]

\* CreateSmallBatch; a call that fails may have been taken by DSCO.
ShipSend ==
    /\ ship.pc = "send"
    /\ \/ /\ ship' = [ship EXCEPT !.pc = "wait", !.pend = ship.send]
          /\ shq' = shq
       \/ /\ "send" \in Faults
          /\ ship' = ShipIdle
          /\ shq' \in {shq, Orphaned(ship.send)}
    /\ UNCHANGED <<row, dsco, lx, wms, akq, ivq>>

\* DSCO works on the request; a failure in the log outweighs a success.
ShipProcessed(o) ==
    /\ ship.pc = "wait"
    /\ ship.pend[o] # {}
    /\ \E done \in SUBSET ship.pend[o], ok \in BOOLEAN :
          /\ ShipmentStep(o, ship.pend[o], done, ok)
          /\ ship' = [ship EXCEPT
                        !.pend[o] = @ \ done,
                        !.res[o]  = IF ok /\ @ # "fail" THEN "ok" ELSE "fail"]
    /\ UNCHANGED <<row, lx, wms, akq, shq, ivq>>

\* pollDSCOShipmentChangeLog returns: some log is there for every order, or
\* the wait is over.  An answer without a request id is not waited for at all
\* ("late"), and DSCO may not have taken the request ("reject").
ShipVerified ==
    /\ ship.pc = "wait"
    /\ (\A o \in Sent : ship.res[o] # "none") \/ "late" \in Faults
    /\ ship' = [ship EXCEPT !.pc = "commit", !.pend = Nothing]
    /\ shq' = Orphaned(ship.pend)
    /\ UNCHANGED <<row, dsco, lx, wms, akq, ivq>>

\* Mutant: no failure in the log counts as success.
ShipCommitUnlessFailed(o) ==
    /\ ship.pc = "commit" /\ IsOldest(o, Sent)
    /\ IF ship.res[o] # "fail" THEN UpdateStatusAndTrackingNo(o, 4, ship.mark[o])
       ELSE UNCHANGED row
    /\ ship' = IF Sent = {o} THEN ShipIdle
               ELSE [ship EXCEPT !.send[o] = {}, !.mark[o] = {}, !.res[o] = "none"]
    /\ UNCHANGED partners

\* Only an order whose log says success is written.
ShipCommit(o) ==
    /\ ship.pc = "commit" /\ IsOldest(o, Sent)
    /\ \/ ship.res[o] = "ok" /\ UpdateStatusAndTrackingNo(o, 4, ship.mark[o])
       \/ ship.res[o] # "ok" /\ UNCHANGED row
       \/ "db" \in Faults /\ UNCHANGED row
    /\ ship' = IF Sent = {o} THEN ShipIdle
               ELSE [ship EXCEPT !.send[o] = {}, !.mark[o] = {}, !.res[o] = "none"]
    /\ UNCHANGED partners

ShipAbort ==
    /\ "abort" \in Faults /\ ship.pc # "idle"
    /\ ship' = ShipIdle
    /\ shq' = Orphaned(ship.pend)
    /\ UNCHANGED <<row, dsco, lx, wms, akq, ivq>>

ShipStep == \/ ShipFetch \/ ShipSend \/ ShipVerified
            \/ \E o \in Orders : \/ ShipSkip(o) \/ ShipNothingNew(o)
                                 \/ ShipPrepare(o) \/ ShipCommit(o)
=============================================================================
