---------------------------- MODULE ControlPlane ----------------------------
(***************************************************************************)
(* The process as a whole (main.go): the configuration, the console, the   *)
(* runner and the scheduler, from start to shutdown or crash and start     *)
(* again.                                                                  *)
(***************************************************************************)
EXTENDS Scheduler

VARIABLE up   \* the process runs

vars == <<config, runner, scheduler, up>>

TypeOK == ConfigTypeOK /\ RunnerTypeOK /\ SchedulerTypeOK /\ up \in BOOLEAN

Init ==
    /\ ConfigInit /\ RunnerInit
    /\ cron = CronNew /\ poll = PollIdle /\ last = 0 /\ stop = "no"
    /\ up = FALSE

-----------------------------------------------------------------------------
\* main: the configuration is loaded before anything reads it.
Boot == /\ ~up /\ up' = TRUE
        /\ LoadOrInit
        /\ UNCHANGED <<runner, scheduler>>

Ended == up' = FALSE /\ ConfigLost /\ RunnerLost /\ SchedulerStarted

\* Shutdown makes ListenAndServe return, and main with it: requests in
\* progress, manual runs among them, end with the process.
Exit == stop = "http" /\ Ended

Crash == "crash" \in Faults /\ up /\ Ended

\* apiUpdateRuntimeConfig and the page it saves.
Console == \E w \in Operators :
    /\ stop # "http" /\ (OpOpen(w) \/ OpSubmit(w))
    /\ UNCHANGED <<runner, scheduler, up>>

SaveStep == \E w \in Writers :
    (Write(w) \/ Publish(w)) /\ UNCHANGED <<runner, scheduler, up>>

\* An entry of the cron is due, or an operator starts a job.
Start(r) ==
    /\ \E j \in Registered : \/ Fire(j, r)
                             \/ stop # "http" /\ Begin(r, j, "manual")
    /\ UNCHANGED <<config, scheduler, up>>

RunStep(r) ==
    /\ \/ SkuSave(r)
       \/ (TryLock(r) \/ Work(r) \/ SkuSaved(r) \/ Unlock(r)) /\ UNCHANGED config
    /\ UNCHANGED <<scheduler, up>>

Drop(r) == SessionLost(r) /\ UNCHANGED <<config, scheduler, up>>

PollStep == /\ PollCheck \/ PollRebuild \/ PollAdd \/ PollExit
            /\ UNCHANGED <<config, lock, up>>

StopStep == /\ \/ StopTake \/ StopCron
               \/ \E expired \in BOOLEAN : StopRuns(expired) \/ StopLoop(expired)
            /\ UNCHANGED <<config, runner, up>>

Terminate == Signal /\ UNCHANGED <<config, runner, up>>

Next == \/ Boot
        \/ up /\ \/ Console \/ SaveStep \/ PollStep \/ StopStep \/ Terminate
                 \/ \E r \in Runs : Start(r) \/ RunStep(r) \/ Drop(r)
                 \/ Exit
        \/ Crash

Spec == Init /\ [][Next]_vars

-----------------------------------------------------------------------------
(* Fairness: goroutines that can go on do.  A run ends by itself (its      *)
(* context has 30 minutes), but not within the 60 seconds of a shutdown,   *)
(* in which only Stop and the polling goroutine are taken to be quick.     *)
Fairness ==
    /\ WF_vars(up /\ SaveStep)
    /\ WF_vars(up /\ PollStep)
    /\ WF_vars(up /\ StopStep)
    /\ WF_vars(Exit)
    /\ \A r \in Runs : WF_vars(up /\ ~Signalled /\ RunStep(r))

FairSpec == Spec /\ Fairness
=============================================================================
