----------------------------- MODULE InvoiceTask -----------------------------
(***************************************************************************)
(* Task 5, invoice_to_dsco: send DSCO one invoice, with the PO number as   *)
(* its id, for each order at status 4, wait for the change log, look the   *)
(* invoice up when the log stays silent, and move the rows of the          *)
(* confirmed ones to 5.                                                    *)
(***************************************************************************)
EXTENDS Jobs

VARIABLE inv
(* pc "plan": the oldest order of todo is next; "send": the batch is       *)
(* ready; "wait": DSCO has it; "commit": rows are being written.  loc:     *)
(* orders whose row had an invoice id when selected; send: orders in the   *)
(* batch; pend: those DSCO has not processed; ok: those confirmed.         *)

InvIdle == [pc |-> "idle", one |-> FALSE, todo |-> {}, loc |-> {},
            send |-> {}, pend |-> {}, ok |-> {}]
InvType == [pc : {"idle", "plan", "send", "wait", "commit"}, one : BOOLEAN,
            todo : SUBSET Orders, loc : SUBSET Orders, send : SUBSET Orders,
            pend : SUBSET Orders, ok : SUBSET Orders]
InvInit == inv = InvIdle

\* Order o is planned; `send` is the batch so far.
InvPlanned(o, send) ==
    inv' = IF inv.todo # {o} THEN [inv EXCEPT !.todo = @ \ {o}, !.send = send]
           ELSE IF send = {} THEN InvIdle
           ELSE [InvIdle EXCEPT !.pc = "send", !.send = send]

-----------------------------------------------------------------------------
InvStart(only) ==
    /\ inv.pc = "idle"
    /\ Batch(4, only) # {}
    /\ inv' = [InvIdle EXCEPT !.pc = "plan", !.one = only # {},
                              !.todo = Batch(4, only),
                              !.loc = {o \in Batch(4, only) : row[o].inv}]
    /\ UNCHANGED <<row, partners>>

\* shouldSkipInvoiceBecauseAlreadyHasInvoiceID
HasInvoiceID(o) == ~inv.one /\ o \in inv.loc

\* The outbound orders hold all that was ordered, tracking number or not.
FullyOut(o) == Goods \subseteq wms[o].out

\* An order the row says is invoiced, when DSCO has the invoice, is left at
\* its status.
InvSkip(o) ==
    /\ inv.pc = "plan" /\ IsOldest(o, inv.todo)
    /\ \/ HasInvoiceID(o) /\ dsco[o].inv > 0
       \/ o \in Banned /\ ~inv.one
       \/ ~FullyOut(o)
       \/ "wms" \in Faults
    /\ InvPlanned(o, inv.send)
    /\ UNCHANGED <<row, partners>>

InvPrepare(o) ==
    /\ inv.pc = "plan" /\ IsOldest(o, inv.todo)
    /\ HasInvoiceID(o) => dsco[o].inv = 0 \/ "fetch" \in Faults
    /\ o \in Banned => inv.one
    /\ FullyOut(o)
    /\ InvPlanned(o, inv.send \cup {o})
    /\ UNCHANGED <<row, partners>>

\* Requests DSCO holds and this task stops waiting for.
InvOrphaned(left) == [o \in Orders |-> IF o \in left THEN Bump(ivq[o]) ELSE ivq[o]]

InvSend ==
    /\ inv.pc = "send"
    /\ \/ /\ inv' = [inv EXCEPT !.pc = "wait", !.pend = inv.send]
          /\ ivq' = ivq
       \/ /\ "send" \in Faults
          /\ inv' = InvIdle
          /\ ivq' \in {ivq, InvOrphaned(inv.send)}
    /\ UNCHANGED <<row, dsco, lx, wms, akq, shq>>

\* DSCO works on the request.
InvProcessed(o) ==
    /\ inv.pc = "wait"
    /\ o \in inv.pend
    /\ \/ /\ dsco' = AddInvoice(o)
          /\ inv' = [inv EXCEPT !.pend = @ \ {o}, !.ok = @ \cup {o}]
       \/ /\ "reject" \in Faults
          /\ dsco' = dsco
          /\ inv' = [inv EXCEPT !.pend = @ \ {o}]
    /\ UNCHANGED <<row, lx, wms, akq, shq, ivq>>

\* The change log has a result for every invoice, or the wait is over and
\* the silent ones are looked up by their id: all of them if the answer to the
\* call came without a request id.
InvVerified ==
    /\ inv.pc = "wait"
    /\ inv.pend = {} \/ "late" \in Faults
    /\ LET visible == {o \in inv.pend : dsco[o].inv > 0}
       IN \E found \in (IF "fetch" \in Faults THEN SUBSET visible ELSE {visible}) :
             inv' = [inv EXCEPT !.pc = "commit", !.pend = {}, !.ok = @ \cup found]
    /\ ivq' = InvOrphaned(inv.pend)
    /\ UNCHANGED <<row, dsco, lx, wms, akq, shq>>

\* Mutant: the answer to the batch call counts as success.
InvCommitAll(o) ==
    /\ inv.pc = "commit" /\ IsOldest(o, inv.send)
    /\ UpdateStatusAndInvoiceID(o, 5)
    /\ inv' = IF inv.send = {o} THEN InvIdle
              ELSE [inv EXCEPT !.send = @ \ {o}, !.ok = @ \ {o}]
    /\ UNCHANGED partners

\* Only the confirmed ones are written.
InvCommit(o) ==
    /\ inv.pc = "commit" /\ IsOldest(o, inv.send)
    /\ \/ o \in inv.ok /\ UpdateStatusAndInvoiceID(o, 5)
       \/ o \notin inv.ok /\ UNCHANGED row
       \/ "db" \in Faults /\ UNCHANGED row
    /\ inv' = IF inv.send = {o} THEN InvIdle
              ELSE [inv EXCEPT !.send = @ \ {o}, !.ok = @ \ {o}]
    /\ UNCHANGED partners

InvAbort ==
    /\ "abort" \in Faults /\ inv.pc # "idle"
    /\ inv' = InvIdle
    /\ ivq' = InvOrphaned(inv.pend)
    /\ UNCHANGED <<row, dsco, lx, wms, akq, shq>>

InvStep == \/ InvSend \/ InvVerified
           \/ \E o \in Orders : InvSkip(o) \/ InvPrepare(o) \/ InvCommit(o)
=============================================================================
