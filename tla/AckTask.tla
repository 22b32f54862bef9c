------------------------------- MODULE AckTask -------------------------------
(***************************************************************************)
(* Task 3, ack_to_dsco: acknowledge to DSCO the orders at status 2 that    *)
(* LingXing has reviewed, and move their rows to 3.  One batch call sends  *)
(* all of them; DSCO only confirms that it took the call.                  *)
(***************************************************************************)
EXTENDS Jobs

VARIABLE ack
(* pc "fetch": the DSCO orders are to be read; "scan": the oldest order of *)
(* todo is sorted; "list": LingXing is to be asked about `need`; "send":   *)
(* need is to be acknowledged; "commit": its rows are being written.       *)
(* conf: orders DSCO was seen to have confirmed; one: a one-order run.     *)

AckIdle == [pc |-> "idle", todo |-> {}, conf |-> {}, need |-> {}, one |-> FALSE]
AckType == [pc : {"idle", "fetch", "scan", "list", "send", "commit"},
            todo : SUBSET Orders, conf : SUBSET Orders, need : SUBSET Orders,
            one : BOOLEAN]
AckInit == ack = AckIdle

\* Order o of the batch is dealt with; those in `need` go on.
AckSorted(o, need) ==
    ack' = IF ack.todo # {o} THEN [ack EXCEPT !.todo = @ \ {o}, !.need = need]
           ELSE IF need = {} THEN AckIdle
           ELSE [AckIdle EXCEPT !.pc = "list", !.need = need]

-----------------------------------------------------------------------------
AckStart(only) ==
    /\ ack.pc = "idle"
    /\ Batch(2, only) # {}
    /\ ack' = [AckIdle EXCEPT !.pc = "fetch", !.todo = Batch(2, only),
                              !.one = only # {}]
    /\ UNCHANGED <<row, partners>>

\* Each order is read by a call of its own; one that fails leaves no entry.
AckFetch ==
    /\ ack.pc = "fetch"
    /\ LET confirmed == {o \in ack.todo : dsco[o].st \in Confirmed}
       IN \E c \in (IF "fetch" \in Faults THEN SUBSET confirmed ELSE {confirmed}) :
             ack' = [ack EXCEPT !.pc = "scan", !.conf = c]
    /\ UNCHANGED <<row, partners>>

\* Confirmed already: the row moves to 3 without a call.
AckConfirmed(o) ==
    /\ ack.pc = "scan" /\ IsOldest(o, ack.todo)
    /\ o \in ack.conf
    /\ \/ UpdateStatusAndFields(o, 3)
       \/ "db" \in Faults /\ UNCHANGED row
    /\ AckSorted(o, ack.need)
    /\ UNCHANGED partners

AckSort(o) ==
    /\ ack.pc = "scan" /\ IsOldest(o, ack.todo)
    /\ o \notin ack.conf
    /\ AckSorted(o, IF o \in Banned /\ ~ack.one THEN ack.need
                    ELSE ack.need \cup {o})
    /\ UNCHANGED <<row, partners>>

\* Mutant: one reviewed order of the PO is enough.
AckListAny ==
    /\ ack.pc = "list"
    /\ LET ready == {o \in ack.need : lx[o].n > 0 /\ lx[o].rv # "no"}
       IN ack' = IF ready = {} THEN AckIdle
                 ELSE [ack EXCEPT !.pc = "send", !.need = ready]
    /\ UNCHANGED <<row, partners>>

\* Every LingXing order of the PO must be reviewed.  When the list call fails
\* each PO is asked for by itself, which returns one of its orders at most; a
\* list without data readies none.
AckList ==
    /\ ack.pc = "list"
    /\ LET found(rv) == {o \in ack.need : lx[o].n > 0 /\ lx[o].rv \in rv}
       IN \E ready \in {found({"all"})} \cup
              (IF "lookup" \in Faults THEN SUBSET found({"part", "all"}) ELSE {}) :
             ack' = IF ready = {} THEN AckIdle
                    ELSE [ack EXCEPT !.pc = "send", !.need = ready]
    /\ UNCHANGED <<row, partners>>

\* One call for all; nothing but an error is looked at in the answer, and DSCO
\* processes or rejects ("reject") what it took later.
AckSend ==
    /\ ack.pc = "send"
    /\ \/ /\ akq' = akq \cup ack.need
          /\ ack' = [ack EXCEPT !.pc = "commit"]
       \/ /\ "send" \in Faults
          /\ akq' \in {akq, akq \cup ack.need}
          /\ ack' = AckIdle
    /\ UNCHANGED <<row, dsco, lx, wms, shq, ivq>>

AckCommit(o) ==
    /\ ack.pc = "commit" /\ IsOldest(o, ack.need)
    /\ \/ UpdateStatusAndFields(o, 3)
       \/ "db" \in Faults /\ UNCHANGED row
    /\ ack' = IF ack.need = {o} THEN AckIdle ELSE [ack EXCEPT !.need = @ \ {o}]
    /\ UNCHANGED partners

AckAbort == /\ "abort" \in Faults /\ ack.pc # "idle"
            /\ ack' = AckIdle /\ UNCHANGED <<row, partners>>

AckStep == \/ AckFetch \/ AckList \/ AckSend
           \/ \E o \in Orders : AckConfirmed(o) \/ AckSort(o) \/ AckCommit(o)
=============================================================================
