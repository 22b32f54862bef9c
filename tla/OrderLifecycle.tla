---------------------------- MODULE OrderLifecycle ----------------------------
(***************************************************************************)
(* What the pipeline promises of an order (section 4.1 of the requirements *)
(* document): it goes through the stages of the status column one by one,  *)
(* and enters a stage only when the partners show that the stage before is *)
(* really done.  Who shows it, and by which calls, is not said here.       *)
(***************************************************************************)
EXTENDS Naturals

CONSTANT Orders

VARIABLES
    stage,     \* stage[o]: 0 unknown, 1 to push, 2 to acknowledge, 3 to ship,
               \* 4 to invoice, 5 done, 6 cancelled
    taken,     \* orders LingXing has, or says it took
    reviewed,  \* orders LingXing has reviewed, or DSCO has moved on
    shipped,   \* orders all of whose goods DSCO knows as shipped
    invoiced   \* orders DSCO has an invoice for

facts == <<taken, reviewed, shipped, invoiced>>

Evidence(s) == CASE s = 2 -> taken
                 [] s = 3 -> reviewed
                 [] s = 4 -> shipped
                 [] s = 5 -> invoiced

Init == /\ stage \in [Orders -> 0..3]
        /\ taken  = {o \in Orders : stage[o] >= 2}
        /\ reviewed = {o \in Orders : stage[o] = 3}
        /\ shipped = {} /\ invoiced = {}

\* The partners get on; nothing they showed is taken back.
Learn == /\ taken \subseteq taken' /\ reviewed \subseteq reviewed'
         /\ shipped \subseteq shipped' /\ invoiced \subseteq invoiced'
         /\ UNCHANGED stage

Advance(o) == /\ stage[o] \in 1..4
              /\ o \in Evidence(stage[o] + 1)
              /\ stage' = [stage EXCEPT ![o] = @ + 1]
              /\ UNCHANGED facts

Next == Learn \/ \E o \in Orders : Advance(o)

Spec == Init /\ [][Next]_<<stage, facts>>
=============================================================================
