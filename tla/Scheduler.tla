------------------------------ MODULE Scheduler ------------------------------
(***************************************************************************)
(* The scheduler (transport/scheduler/scheduler.go): a cron with one entry *)
(* per enabled job, rebuilt by a polling goroutine when the configuration  *)
(* carries a new time, and stopped by another goroutine.  Both take the    *)
(* mutex; the rebuild holds it while it waits for the runs of the cron it  *)
(* replaces.                                                               *)
(***************************************************************************)
EXTENDS JobRunner

VARIABLES
    cron,  \* nil: s.cron = nil; ticking: it starts runs; jobs: its entries
    last,  \* lastStamp
    poll,  \* the polling goroutine
    stop   \* how far Stop has come

scheduler == <<cron, last, poll, stop>>

Cron == [nil : BOOLEAN, ticking : BOOLEAN, jobs : SUBSET Registered]
Poll == [pc : {"idle", "lock", "wait", "gone"}, cfg : Config]
StopPoints == {"no", "asked", "taken", "runs", "loop", "http"}

CronNew  == [nil |-> FALSE, ticking |-> TRUE, jobs |-> {}]
PollIdle == [pc |-> "idle", cfg |-> Default]

SchedulerTypeOK == cron \in Cron /\ last \in 0..MaxStamp /\ poll \in Poll /\ stop \in StopPoints

\* Start, when the process starts; there are no entries yet.
SchedulerStarted == /\ cron' = CronNew /\ poll' = PollIdle
                    /\ last' = 0 /\ stop' = "no"

Signalled == stop # "no"          \* SIGTERM: ctx is done
MutexFree == poll.pc # "wait"     \* the only step that keeps it

\* Runs Stop or a rebuild waits for: cron.Stop()'s context.
Started(by) == {r \in Runs : run[r].by = by}

-----------------------------------------------------------------------------
\* An entry is due.
Fire(j, r) ==
    /\ cron.ticking /\ j \in cron.jobs
    /\ Begin(r, j, "cron")

\* pollLoop, every three seconds: the comparison without the mutex.
PollCheck ==
    /\ poll.pc = "idle"
    /\ mem.at # last
    /\ poll' = [poll EXCEPT !.pc = "lock"]
    /\ UNCHANGED <<cron, last, stop, run>>

\* Mutant: s.cron = nil is not looked at again.
PollRebuildAnyway ==
    /\ poll.pc = "lock"
    /\ last' = mem.at
    /\ cron' = CronNew
    /\ run' = [r \in Runs |-> IF run[r].by = "cron" THEN [run[r] EXCEPT !.by = "old"] ELSE run[r]]
    /\ poll' = [pc |-> "wait", cfg |-> mem.cfg]
    /\ UNCHANGED stop

\* rebuildIfNeeded with the mutex: both checks again, then an empty cron
\* takes the place of the old one, which starts no more runs.
PollRebuild ==
    /\ poll.pc = "lock"
    /\ IF cron.nil \/ mem.at = last
       THEN poll' = PollIdle /\ UNCHANGED <<cron, last, run>>
       ELSE /\ last' = mem.at
            /\ cron' = CronNew
            /\ run' = [r \in Runs |-> IF run[r].by = "cron" THEN [run[r] EXCEPT !.by = "old"] ELSE run[r]]
            /\ poll' = [pc |-> "wait", cfg |-> mem.cfg]
    /\ UNCHANGED stop

\* Mutant: the wait has no way out for a shutdown.
PollAddPatient ==
    /\ poll.pc = "wait"
    /\ Started("old") = {}
    /\ cron' = [cron EXCEPT !.jobs = poll.cfg.on]
    /\ poll' = PollIdle
    /\ UNCHANGED <<last, stop, run>>

\* Mutant: lastStamp is set when the rebuild is finished.
PollAddLate ==
    /\ poll.pc = "wait"
    /\ Signalled \/ Started("old") = {}
    /\ cron' = [cron EXCEPT !.jobs = poll.cfg.on]
    /\ poll' = PollIdle
    /\ last' = mem.at
    /\ UNCHANGED <<stop, run>>

\* The old cron's runs have ended, or ctx is done: the entries are added and
\* the mutex is released.
PollAdd ==
    /\ poll.pc = "wait"
    /\ Signalled \/ Started("old") = {}
    /\ cron' = [cron EXCEPT !.jobs = poll.cfg.on]
    /\ poll' = PollIdle
    /\ UNCHANGED <<last, stop, run>>

\* ctx or stopCh is seen; the select may take the ticker first.
PollExit ==
    /\ poll.pc = "idle" /\ Signalled
    /\ poll' = [poll EXCEPT !.pc = "gone"]
    /\ UNCHANGED <<cron, last, stop, run>>

-----------------------------------------------------------------------------
(* Shutdown: main.go, then Stop under a limit of 60 seconds, then HTTP. *)

Signal == stop = "no" /\ stop' = "asked" /\ UNCHANGED <<cron, last, poll>>

\* Stop takes the cron, if no rebuild has the mutex ...
StopTake ==
    /\ stop = "asked" /\ MutexFree
    /\ cron' = [cron EXCEPT !.nil = TRUE]
    /\ stop' = "taken"
    /\ UNCHANGED <<last, poll>>

\* ... stops it ...
StopCron ==
    /\ stop = "taken"
    /\ cron' = [cron EXCEPT !.ticking = FALSE]
    /\ stop' = "runs"
    /\ UNCHANGED <<last, poll>>

\* ... waits for its runs, or for the limit ...
StopRuns(expired) ==
    /\ stop = "runs"
    /\ expired \/ Started("cron") = {}
    /\ stop' = "loop"
    /\ UNCHANGED <<cron, last, poll>>

\* ... and for the polling goroutine, or for the limit.
StopLoop(expired) ==
    /\ stop = "loop"
    /\ expired \/ poll.pc = "gone"
    /\ stop' = "http"
    /\ UNCHANGED <<cron, last, poll>>
=============================================================================
