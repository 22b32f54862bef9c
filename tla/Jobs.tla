-------------------------------- MODULE Jobs --------------------------------
(***************************************************************************)
(* How the five order tasks are started (integration/runner.go): a         *)
(* scheduled run needs the job enabled in the runtime configuration, a     *)
(* manual run does not; both hold the job's lock while they run, so a job  *)
(* has one run at a time.  The lock is a task's pc being "idle" or not.    *)
(***************************************************************************)
EXTENDS Partners

CONSTANTS
    Enabled,     \* jobs the scheduler runs (jobs.*.enable)
    ManualJobs,  \* jobs an operator starts by hand
    PageSize,    \* orders per page of pull_dsco_orders (jobs.*.size)
    Unmapped,    \* orders push_to_lingxing skips: no shop or logistics
                 \* mapping, incomplete address, no usable line
    Banned       \* orders of several lines or units: with jobs.*.multi_ban,
                 \* only a one-order run takes them further than LingXing

JobNames == {"pull", "push", "ack", "ship", "invoice"}

ASSUME JobsAssumption     == Enabled \cup ManualJobs \subseteq JobNames
ASSUME PageSizeAssumption == PageSize \in Nat \ {0}
ASSUME OrderKinds         == Unmapped \cup Banned \subseteq Orders

\* A run of the whole batch: by the scheduler, or by an operator, who may
\* start a disabled job too.
CanRun(j) == j \in Enabled \cup ManualJobs

\* apiRunOneOrderByStatus: the job that takes an order on from a status.
JobOf(s) == CASE s = 1 -> "push" [] s = 2 -> "ack"
              [] s = 3 -> "ship" [] s = 4 -> "invoice"
=============================================================================
