----------------------------- MODULE OrderCheck -----------------------------
(***************************************************************************)
(* The operator's order check (integration/dsco_lingxing/                  *)
(* task_check_orders.go): it compares rows with what DSCO and LingXing     *)
(* show and returns a verdict per order.  It writes nothing, takes no lock *)
(* of an order job, and makes its reads one after the other while every    *)
(* other task goes on, so a verdict compares a row with partners of later  *)
(* moments.                                                                *)
(*                                                                         *)
(* A check asks for one PO number or for a range of creation times.  Its   *)
(* local rows fit one page of 500; the lists of fifty POs it asks LingXing *)
(* for are one read, of which any part may be lost.                        *)
(***************************************************************************)
EXTENDS OrderSync

CONSTANT CheckMax   \* DSCO orders a range check takes at most
ASSUME CheckMaxAssumption == CheckMax \in Nat \ {0}

VARIABLE check
(* asked: the orders in the range; one: the check is for a PO number.      *)
(* local, seen: rows and DSCO statuses as read; listed: orders LingXing    *)
(* has; todo: orders whose invoices are still to be read; billed: orders   *)
(* with an invoice.  blind (history): what could not be read, or came      *)
(* without data, and so counts as "not there"; the report does not say so. *)

Sources == {"dsco", "lingxing", "invoices"}

CheckIdle == [pc |-> "idle", asked |-> {}, one |-> FALSE,
              local |-> [o \in Orders |-> Cleared(0)], seen |-> [o \in Orders |-> "none"],
              listed |-> {}, todo |-> {}, billed |-> {}, blind |-> {}]
CheckType == [pc : {"idle", "dsco", "lingxing", "invoices"},
              asked : SUBSET Orders, one : BOOLEAN, local : [Orders -> Row],
              seen : [Orders -> DscoStatus \cup {"blank"}],
              listed : SUBSET Orders, todo : SUBSET Orders,
              billed : SUBSET Orders, blind : SUBSET Sources]
CheckTypeOK == check \in CheckType

LocalWith(s) == {o \in Orders : check.local[o].st = s}

-----------------------------------------------------------------------------
(* Reads *)

\* The local rows come first.
CheckStart(asked, one) ==
    /\ check.pc = "idle"
    /\ check' = [CheckIdle EXCEPT
                   !.pc = "dsco", !.asked = asked, !.one = one,
                   !.local = [o \in Orders |-> IF o \in asked THEN row[o]
                                               ELSE Cleared(0)]]

CheckOne(o) == CheckStart({o}, TRUE)

\* listLocalOrdersByCreateTimeRange
CheckRange(from, to) == from <= to /\ CheckStart({o \in Orders : from <= o /\ o <= to}, FALSE)

\* Then DSCO's orders: the one asked for; of a range the first CheckMax.
DscoPage == LET there == {o \in check.asked : dsco[o].st # "none"}
            IN IF check.one THEN there
               ELSE {o \in there : Cardinality({p \in there : p < o}) < CheckMax}

Shown(found) == [o \in Orders |-> IF o \in found THEN dsco[o].st ELSE "none"]

CheckSee(seen, blind) ==
    check' = [check EXCEPT !.pc = "lingxing", !.seen = seen, !.blind = blind]

\* An order that cannot be read is not there; one that comes without data is,
\* with no status.  A page that fails ends the check, one without data the
\* reading.
CheckDsco ==
    /\ check.pc = "dsco"
    /\ \/ CheckSee(Shown(DscoPage), {})
       \/ /\ check.one /\ "fetch" \in Faults
          /\ \E answer \in {"none", "blank"} :
                CheckSee([o \in Orders |-> IF o \in check.asked THEN answer ELSE "none"],
                         {"dsco"})
       \/ /\ ~check.one /\ "page" \in Faults
          /\ \/ check' = CheckIdle
             \/ \E part \in SUBSET DscoPage : CheckSee(Shown(part), {"dsco"})

\* Mutant: the rows are refreshed before the verdicts are made.
CheckLingXingRefreshed ==
    /\ check.pc = "lingxing"
    /\ LET now == [o \in Orders |-> IF o \in check.asked THEN row[o] ELSE Cleared(0)]
       IN check' = [check EXCEPT !.pc = "invoices", !.local = now,
                      !.listed = {o \in Orders : now[o].st = 2 /\ lx[o].n > 0},
                      !.todo = {o \in Orders : now[o].st = 5}]

\* LingXing is asked for the orders at 2.  What the lists do not return counts
\* as absent: everything from the first call that fails on, and also, with no
\* error anywhere, what was asked in a call that succeeds without data.
CheckLingXing ==
    /\ check.pc = "lingxing"
    /\ LET there == {o \in LocalWith(2) : lx[o].n > 0}
           reads(listed, blind) ==
             check' = [check EXCEPT !.pc = "invoices", !.todo = LocalWith(5),
                         !.listed = listed, !.blind = @ \cup blind]
       IN \/ reads(there, {})
          \/ /\ "lookup" \in Faults /\ LocalWith(2) # {}
             /\ \E part \in SUBSET there : reads(part, {"lingxing"})

\* The invoices of the orders at 5 are read one by one, in any order.
CheckInvoice(o) ==
    /\ check.pc = "invoices" /\ o \in check.todo
    /\ \/ check' = [check EXCEPT !.todo = @ \ {o},
                      !.billed = @ \cup (IF dsco[o].inv > 0 THEN {o} ELSE {})]
       \/ "fetch" \in Faults /\ check' = [check EXCEPT !.todo = @ \ {o},
                                             !.blind = @ \cup {"invoices"}]

-----------------------------------------------------------------------------
(* The verdicts *)

Backed(o) == CASE check.local[o].st = 2 -> o \in check.listed
               [] check.local[o].st = 3 -> check.seen[o] \in Confirmed
               [] check.local[o].st = 4 -> check.seen[o] \in {"shipped", "completed"}
               [] check.local[o].st = 5 -> o \in check.billed
               [] OTHER                 -> FALSE

Missing(s) == CASE s = 2      -> "lingxing_order_missing"
                [] s \in 3..4 -> "dsco_status_mismatch"
                [] s = 5      -> "dsco_invoice_missing"
                [] OTHER      -> "status_not_supported"

\* An order of a range that neither side has is no part of the report.
Verdict(o) ==
    LET s == check.local[o].st
        there == check.seen[o] # "none"
    IN CASE o \notin check.asked              -> "none"
         [] s = 0 /\ there                    -> "missing_local_record"
         [] s = 0 /\ ~there /\ check.one      -> "order_not_found"
         [] s = 0 /\ ~there /\ ~check.one     -> "none"
         [] s = 1                             -> "skip"
         [] s > 1 /\ ~there                   -> "dsco_order_not_found"
         [] s > 1 /\ there /\ Backed(o)       -> "ok"
         [] s > 1 /\ there /\ ~Backed(o)      -> Missing(s)

\* The report is Verdict of every order.
CheckRead   == check.pc = "invoices" /\ check.todo = {}
CheckReport == CheckRead /\ check' = CheckIdle

-----------------------------------------------------------------------------
CheckStep ==
    \/ \E o \in Orders : CheckOne(o) \/ CheckInvoice(o)
    \/ \E from, to \in Orders : CheckRange(from, to)
    \/ CheckDsco \/ CheckLingXing \/ CheckReport

CheckInit == Init /\ check = CheckIdle
CheckNext == \/ Next /\ UNCHANGED check
             \/ CheckStep /\ UNCHANGED vars
CheckSpec == CheckInit /\ [][CheckNext]_<<vars, check>>

-----------------------------------------------------------------------------
(* Properties *)

\* What the pipeline wrote, the check finds: an order whose row said "in
\* LingXing", "shipped" or "invoiced" is not reported, although the row may
\* have moved on, been pulled again or been reset between the check's first
\* read and its last.  Each verdict needs the answers it rests on: a list or
\* an invoice that failed or came without data raises a false alarm.  An order
\* at 2 is rightly reported if LingXing never made it, though it said so.  A
\* range of more than CheckMax orders is the last exception.
NoFalseAlarm ==
    CheckRead /\ "dsco" \notin check.blind
              /\ (check.one \/ Cardinality(check.asked) <= CheckMax) =>
        \A o \in Orders :
            LET r == check.local[o]
            IN r.st \notin AdminStatuses =>
                 /\ r.st = 2 /\ "lingxing" \notin check.blind =>
                       Verdict(o) = "ok" \/ lx[o].void
                 /\ r.st = 4 => Verdict(o) = "ok"
                 /\ r.st = 5 /\ r.inv /\ "invoices" \notin check.blind =>
                       Verdict(o) = "ok"
=============================================================================
