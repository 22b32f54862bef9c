------------------------------ MODULE PullTask ------------------------------
(***************************************************************************)
(* Task 1, pull_dsco_orders: read the DSCO orders created in a window page *)
(* by page and upsert one row per order.  The window of a scheduled run    *)
(* starts at the newest creation time already stored, inclusive; a manual  *)
(* run has the operator's [start, end).  A page is read at one time and    *)
(* its rows are written at later ones.                                     *)
(*                                                                         *)
(* The window ends 10 seconds ago: Arrive(o) stands for the moment order o *)
(* is that old.  DSCO is taken to page in order of creation.               *)
(***************************************************************************)
EXTENDS Jobs

VARIABLE pull
(* pc "page": the next page is to be read; "rows": `page` is being stored. *)
(* todo: orders of the window not read yet; page[o]: the DSCO status order *)
(* o had when its page was read, "none" if it is not in the page or done.  *)

NoPage   == [o \in Orders |-> "none"]
PullIdle == [pc |-> "idle", todo |-> {}, page |-> NoPage]
PullType == [pc : {"idle", "page", "rows"}, todo : SUBSET Orders,
             page : [Orders -> DscoStatus]]
PullInit == pull = PullIdle

InPage(page) == {o \in Orders : page[o] # "none"}

\* Mutant: an unknown status leaves the range of the column.
SyncStatusRaw(s) == CASE s = "created"   -> 1
                      [] s = "shipped"   -> 5
                      [] s = "cancelled" -> 6
                      [] OTHER           -> 7

\* dscoStatusToSyncStatus; an unknown status counts as new.
SyncStatus(s) == CASE s = "shipped"   -> 5
                   [] s = "cancelled" -> 6
                   [] OTHER           -> 1

Window(from, to) == {o \in Orders : from <= o /\ o <= to /\ dsco[o].st # "none"}

-----------------------------------------------------------------------------
PullOpen(w) ==
    /\ pull.pc = "idle"
    /\ pull' = [PullIdle EXCEPT !.pc = "page", !.todo = w]
    /\ UNCHANGED <<row, partners>>

\* Mutant: every run reads all orders again.
PullStartFromZero == PullOpen({o \in Orders : dsco[o].st # "none"})

\* A scheduled run: everything created at or after the newest stored order.
PullStart == PullOpen({o \in Orders : SinceMaxCreateTime(o) /\ dsco[o].st # "none"})

\* A manual run over a range of creation times.
PullManual == \E from, to \in Orders : from <= to /\ PullOpen(Window(from, to))

\* Mutant: a page that cannot be read is passed over.
PullPageGoesOn ==
    /\ pull.pc = "page"
    /\ LET next == {o \in pull.todo :
                      Cardinality({p \in pull.todo : p < o}) < PageSize}
       IN \/ /\ next # {}
             /\ pull' = [pc   |-> "rows",
                         todo |-> pull.todo \ next,
                         page |-> [o \in Orders |-> IF o \in next THEN dsco[o].st
                                                    ELSE "none"]]
          \/ next = {} /\ pull' = PullIdle
          \/ "page" \in Faults /\ pull' = [pull EXCEPT !.todo = @ \ next]
    /\ UNCHANGED <<row, partners>>

\* One GetPage call; an empty page or an error ends the run, the rows that
\* were stored before it stay.
PullPage ==
    /\ pull.pc = "page"
    /\ LET next == {o \in pull.todo :
                      Cardinality({p \in pull.todo : p < o}) < PageSize}
       IN \/ /\ next # {}
             /\ pull' = [pc   |-> "rows",
                         todo |-> pull.todo \ next,
                         page |-> [o \in Orders |-> IF o \in next THEN dsco[o].st
                                                    ELSE "none"]]
          \/ /\ next = {} \/ "page" \in Faults
             /\ pull' = PullIdle
    /\ UNCHANGED <<row, partners>>

\* One order of the page: the row is overwritten, also when it exists; an
\* order that cannot be decoded or stored is skipped and the run goes on.
PullRow(o) ==
    /\ pull.pc = "rows"
    /\ IsOldest(o, InPage(pull.page))
    /\ \/ Upsert(o, SyncStatus(pull.page[o]))
       \/ "decode" \in Faults /\ UNCHANGED row
    /\ pull' = [pull EXCEPT !.page[o] = "none",
                            !.pc = IF InPage(pull.page) = {o} THEN "page" ELSE @]
    /\ UNCHANGED partners

PullAbort == /\ "abort" \in Faults /\ pull.pc # "idle"
             /\ pull' = PullIdle /\ UNCHANGED <<row, partners>>

PullStep == PullPage \/ \E o \in Orders : PullRow(o)
=============================================================================
