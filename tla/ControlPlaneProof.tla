-------------------------- MODULE ControlPlaneProof --------------------------
(***************************************************************************)
(* Proofs about the control plane, for every set of jobs, mappings,        *)
(* operators and runs and every bound: types, one run per job, a memory    *)
(* that agrees with the table, no start after a stop, and a SKU task that  *)
(* loses no edit.                                                          *)
(***************************************************************************)
EXTENDS ControlPlaneProps, TLAPS

LEMMA Defaults ==
    /\ Default \in Config /\ NoCopy \in Copy /\ SaveIdle \in Save
    /\ RunIdle \in Run /\ CronNew \in Cron /\ PollIdle \in Poll
BY ConfigAssumption DEF Default, Config, NoCopy, Copy, SaveIdle, Save, RunIdle, Run,
   CronNew, Cron, PollIdle, Poll

LEMMA Times == Now \subseteq 1..MaxStamp
BY DEF Now

\* What a save submits is a configuration once Validate has passed it.
LEMMA EditsValid ==
    ASSUME NEW c \in Config, NEW d \in Edits(c), Valid(d)
    PROVE  d \in Config
BY DEF Edits, Valid, Config

LEMMA SubmitTyped ==
    ASSUME ConfigTypeOK, NEW w \in Writers, NEW c \in Config, Submit(w, c)
    PROVE  save' \in [Writers -> Save] /\ stamp' \in 0..MaxStamp
<1>1. PICK t \in Now : /\ stamp' = t
                       /\ save' = [save EXCEPT ![w] = [pc |-> "write", cfg |-> c, at |-> t]]
  BY DEF Submit
<1>2. t \in 0..MaxStamp
  BY Times
<1> QED BY <1>1, <1>2 DEF ConfigTypeOK, Save

LEMMA SaveStepTyped ==
    ASSUME ConfigTypeOK, NEW w \in Writers, Write(w) \/ Publish(w)
    PROVE  ConfigTypeOK'
<1>1. save[w].cfg \in Config /\ save[w].at \in 0..MaxStamp
  BY DEF ConfigTypeOK, Save
<1>2. [cfg |-> save[w].cfg, at |-> save[w].at] \in Copy
  BY <1>1 DEF Copy
<1>3. [save EXCEPT ![w] = SaveIdle] \in [Writers -> Save]
  BY Defaults DEF ConfigTypeOK
<1>4. [save EXCEPT ![w].pc = "publish"] \in [Writers -> Save]
  BY DEF ConfigTypeOK, Save
<1>5. CASE Write(w)
  BY <1>2, <1>3, <1>4, <1>5 DEF Write, ConfigTypeOK
<1>6. CASE Publish(w)
  BY <1>2, <1>3, <1>6 DEF Publish, ConfigTypeOK
<1> QED BY <1>5, <1>6

LEMMA ConsoleTyped ==
    ASSUME ConfigTypeOK, NEW w \in Operators, OpOpen(w) \/ OpSubmit(w)
    PROVE  ConfigTypeOK'
<1>0. w \in Writers
  BY DEF Writers
<1>1. CASE OpOpen(w)
  <2>1. [pc |-> "edit", cfg |-> mem.cfg, at |-> 0] \in Save
    BY ConfigAssumption DEF ConfigTypeOK, Copy, Save
  <2> QED BY <1>0, <1>1, <2>1 DEF OpOpen, ConfigTypeOK
<1>2. CASE OpSubmit(w)
  <2>1. PICK c \in Edits(save[w].cfg) : Submit(w, c)
    BY <1>2 DEF OpSubmit
  <2>2. c \in Config
    <3>1. save[w].cfg \in Config
      BY <1>0 DEF ConfigTypeOK, Save
    <3> QED BY <2>1, <3>1, EditsValid DEF Submit
  <2>3. save' \in [Writers -> Save] /\ stamp' \in 0..MaxStamp
    BY <1>0, <2>1, <2>2, SubmitTyped
  <2> QED BY <1>2, <2>3 DEF OpSubmit, ConfigTypeOK
<1> QED BY <1>1, <1>2

LEMMA BeginTyped ==
    ASSUME TypeOK, NEW r \in Runs, NEW j \in Registered, NEW by \in {"cron", "manual"},
           Begin(r, j, by)
    PROVE  RunnerTypeOK'
<1> DEFINE new == IF j = "sku"
                  THEN [pc |-> "lock", job |-> j, by |-> by,
                        sku |-> mem.cfg.sku, shop |-> mem.cfg.shop, lost |-> FALSE]
                  ELSE [RunIdle EXCEPT !.pc = "lock", !.job = j, !.by = by]
<1>1. mem.cfg.sku \in Skus /\ mem.cfg.shop \in BOOLEAN
  BY DEF TypeOK, ConfigTypeOK, Copy, Config
<1>2. new \in Run
  BY <1>1, ConfigAssumption DEF RunIdle, Run
<1>3. run' = [run EXCEPT ![r] = new] /\ lock' = lock
  BY DEF Begin
<1> QED BY <1>2, <1>3 DEF TypeOK, RunnerTypeOK

LEMMA OverTyped ==
    ASSUME RunnerTypeOK, NEW r \in Runs
    PROVE  Over(r) \in Run
BY ConfigAssumption DEF RunnerTypeOK, Over, RunIdle, Run

LEMMA RunStepTyped ==
    ASSUME TypeOK, NEW r \in Runs,
           TryLock(r) \/ Work(r) \/ SkuSave(r) \/ SkuSaved(r) \/ Unlock(r) \/ SessionLost(r)
    PROVE  RunnerTypeOK'
<1>0. run \in [Runs -> Run] /\ lock \in [Registered -> SUBSET Runs]
  BY DEF TypeOK, RunnerTypeOK
<1>1. CASE TryLock(r)
  BY <1>0, <1>1, Defaults DEF TryLock, RunnerTypeOK, Run
<1>2. CASE Work(r) \/ SkuSaved(r)
  BY <1>0, <1>2, OverTyped DEF Work, SkuSaved, RunnerTypeOK
<1>3. CASE SkuSave(r)
  BY <1>0, <1>3 DEF SkuSave, RunnerTypeOK, Run
<1>4. CASE Unlock(r)
  BY <1>0, <1>4, Defaults DEF Unlock, RunnerTypeOK
<1>5. CASE SessionLost(r)
  <2>1. [run EXCEPT ![r].lost = TRUE] \in [Runs -> Run]
    BY <1>0 DEF Run
  <2> QED BY <1>0, <1>5, <2>1 DEF SessionLost, RunnerTypeOK
<1> QED BY <1>1, <1>2, <1>3, <1>4, <1>5

LEMMA PollTyped ==
    ASSUME TypeOK, PollCheck \/ PollRebuild \/ PollAdd \/ PollExit
    PROVE  run' \in [Runs -> Run] /\ SchedulerTypeOK'
<1>0. /\ run \in [Runs -> Run] /\ SchedulerTypeOK
      /\ mem.at \in 0..MaxStamp /\ mem.cfg \in Config
  BY DEF TypeOK, RunnerTypeOK, ConfigTypeOK, Copy
<1>1. CASE PollCheck \/ PollExit
  BY <1>0, <1>1 DEF PollCheck, PollExit, SchedulerTypeOK, Poll
<1>2. CASE PollRebuild
  <2>1. [r \in Runs |-> IF run[r].by = "cron" THEN [run[r] EXCEPT !.by = "old"] ELSE run[r]]
            \in [Runs -> Run]
    BY <1>0 DEF Run
  <2>2. [pc |-> "wait", cfg |-> mem.cfg] \in Poll
    BY <1>0 DEF Poll
  <2> QED BY <1>0, <1>2, <2>1, <2>2, Defaults DEF PollRebuild, SchedulerTypeOK
<1>3. CASE PollAdd
  <2>1. poll.cfg.on \in SUBSET Registered
    BY <1>0 DEF SchedulerTypeOK, Poll, Config
  <2> QED BY <1>0, <1>3, <2>1, Defaults DEF PollAdd, SchedulerTypeOK, Cron
<1> QED BY <1>1, <1>2, <1>3

LEMMA StopTyped ==
    ASSUME SchedulerTypeOK, NEW expired,
           StopTake \/ StopCron \/ StopRuns(expired) \/ StopLoop(expired) \/ Signal
    PROVE  SchedulerTypeOK'
BY DEF SchedulerTypeOK, StopTake, StopCron, StopRuns, StopLoop, Signal, StopPoints, Cron

LEMMA EndedTyped ==
    ASSUME TypeOK, Ended
    PROVE  TypeOK'
<1>1. ConfigTypeOK'
  BY Defaults DEF TypeOK, ConfigTypeOK, Ended, ConfigLost
<1>2. RunnerTypeOK'
  BY Defaults DEF Ended, RunnerLost, RunnerTypeOK
<1>3. SchedulerTypeOK'
  BY Defaults, ConfigAssumption DEF Ended, SchedulerStarted, SchedulerTypeOK, StopPoints
<1> QED BY <1>1, <1>2, <1>3 DEF TypeOK, Ended

LEMMA NextTyped == TypeOK /\ [Next]_vars => TypeOK'
<1> SUFFICES ASSUME TypeOK, [Next]_vars PROVE TypeOK'
  OBVIOUS
<1>0. ConfigTypeOK /\ RunnerTypeOK /\ SchedulerTypeOK /\ up \in BOOLEAN
  BY DEF TypeOK
<1>a. /\ UNCHANGED config => ConfigTypeOK'
      /\ UNCHANGED runner => RunnerTypeOK'
      /\ UNCHANGED scheduler => SchedulerTypeOK'
      /\ UNCHANGED up => (up \in BOOLEAN)'
  BY <1>0 DEF config, runner, scheduler, ConfigTypeOK, RunnerTypeOK, SchedulerTypeOK
<1>1. CASE Boot
  <2>1. stored' \in Copy /\ stamp' \in 0..MaxStamp
    <3>1. CASE stored.at = 0
      <4>1. PICK t \in Now : stamp' = t /\ stored' = [cfg |-> Default, at |-> t]
        BY <1>1, <3>1 DEF Boot, LoadOrInit
      <4> QED BY <4>1, Times, Defaults DEF Copy
    <3>2. CASE stored.at # 0
      BY <1>0, <1>1, <3>2 DEF Boot, LoadOrInit, ConfigTypeOK
    <3> QED BY <3>1, <3>2
  <2>2. ConfigTypeOK'
    BY <1>0, <1>1, <2>1 DEF Boot, LoadOrInit, ConfigTypeOK
  <2> QED BY <1>1, <1>a, <2>2 DEF Boot, TypeOK
<1>2. CASE Console
  BY <1>0, <1>2, <1>a, ConsoleTyped DEF Console, TypeOK
<1>3. CASE SaveStep
  BY <1>0, <1>3, <1>a, SaveStepTyped DEF SaveStep, TypeOK
<1>4. CASE PollStep
  <2>1. run' \in [Runs -> Run] /\ SchedulerTypeOK'
    BY <1>4, PollTyped DEF PollStep
  <2>2. RunnerTypeOK'
    BY <1>0, <1>4, <2>1 DEF PollStep, RunnerTypeOK
  <2> QED BY <1>4, <1>a, <2>1, <2>2 DEF PollStep, TypeOK
<1>5. CASE StopStep \/ Terminate
  <2>1. SchedulerTypeOK'
    BY <1>0, <1>5, StopTyped DEF StopStep, Terminate
  <2> QED BY <1>5, <1>a, <2>1 DEF StopStep, Terminate, TypeOK
<1>6. ASSUME NEW r \in Runs, Start(r) PROVE TypeOK'
  <2>1. RunnerTypeOK'
    BY <1>6, BeginTyped DEF Start, Fire
  <2> QED BY <1>6, <1>a, <2>1 DEF Start, TypeOK
<1>7. ASSUME NEW r \in Runs, RunStep(r) PROVE TypeOK'
  <2>1. RunnerTypeOK'
    BY <1>7, RunStepTyped DEF RunStep
  <2>2. ConfigTypeOK'
    <3>1. CASE SkuSave(r)
      <4>1. PICK s \in Skus : Submit(r, [mem.cfg EXCEPT !.sku = s])
        BY <3>1 DEF SkuSave
      <4>2. [mem.cfg EXCEPT !.sku = s] \in Config
        BY <1>0 DEF ConfigTypeOK, Copy, Config
      <4>3. save' \in [Writers -> Save] /\ stamp' \in 0..MaxStamp
        BY <1>0, <4>1, <4>2, SubmitTyped DEF Writers
      <4> QED BY <1>0, <3>1, <4>3 DEF SkuSave, ConfigTypeOK
    <3>2. CASE UNCHANGED config
      BY <3>2, <1>a
    <3> QED BY <1>7, <3>1, <3>2 DEF RunStep
  <2> QED BY <1>7, <1>a, <2>1, <2>2 DEF RunStep, TypeOK
<1>8. ASSUME NEW r \in Runs, Drop(r) PROVE TypeOK'
  BY <1>8, <1>a, RunStepTyped DEF Drop, TypeOK
<1>9. CASE Exit \/ Crash
  BY <1>9, EndedTyped DEF Exit, Crash
<1>10. CASE UNCHANGED vars
  BY <1>10, <1>a DEF vars, TypeOK
<1> QED BY <1>1, <1>2, <1>3, <1>4, <1>5, <1>6, <1>7, <1>8, <1>9, <1>10 DEF Next

LEMMA InitTyped == Init => TypeOK
<1> SUFFICES ASSUME Init PROVE TypeOK
  OBVIOUS
<1>1. ConfigTypeOK
  BY Defaults, ConfigAssumption DEF Init, ConfigInit, ConfigTypeOK
<1>2. RunnerTypeOK
  BY Defaults DEF Init, RunnerInit, RunnerTypeOK
<1>3. SchedulerTypeOK
  BY Defaults, ConfigAssumption DEF Init, SchedulerTypeOK, StopPoints
<1> QED BY <1>1, <1>2, <1>3 DEF Init, TypeOK

\* Every variable of the control plane keeps its type: nothing that is not a
\* valid configuration is ever stored, published or scheduled.
THEOREM ControlPlaneTyped == Spec => []TypeOK
<1> QED BY InitTyped, NextTyped, PTL DEF Spec

-----------------------------------------------------------------------------
(* One run per job: who is past TryLock, not past Unlock, and has its       *)
(* session, is the one holder of the lock of the job.                       *)

Locked(r) == run[r].pc \in {"work", "save", "unlock"}

Holders == \A r \in Runs :
    Locked(r) => /\ run[r].job \in Registered
                 /\ ~run[r].lost => lock[run[r].job] = {r}

\* A run in line for its lock names a job (the type alone allows "none") and
\* has no session to lose yet.
Waiting == \A r \in Runs : run[r].pc = "lock" => /\ run[r].job \in Registered
                                                 /\ ~run[r].lost

LEMMA HoldersStep ==
    ASSUME TypeOK, Holders, Waiting, [Next]_vars
    PROVE  Holders' /\ Waiting'
<1>0. run \in [Runs -> Run] /\ lock \in [Registered -> SUBSET Runs]
  BY DEF TypeOK, RunnerTypeOK
<1>a. UNCHANGED runner => Holders' /\ Waiting'
  BY DEF runner, Holders, Waiting, Locked
<1>1. ASSUME NEW r \in Runs, Start(r) PROVE Holders' /\ Waiting'
  <2>1. PICK j \in Registered, by \in {"cron", "manual"} : Begin(r, j, by)
    BY <1>1 DEF Start, Fire
  <2>2. lock' = lock /\ run'[r].pc = "lock" /\ run'[r].job = j /\ ~run'[r].lost
    BY <1>0, <2>1 DEF Begin, RunIdle
  <2>3. \A q \in Runs \ {r} : run'[q] = run[q]
    BY <1>0, <2>1 DEF Begin
  <2> QED BY <2>2, <2>3 DEF Holders, Waiting, Locked
<1>2. ASSUME NEW r \in Runs, RunStep(r) PROVE Holders' /\ Waiting'
  <2>1. \A q \in Runs \ {r} : run'[q] = run[q]
    BY <1>0, <1>2 DEF RunStep, TryLock, Work, SkuSave, SkuSaved, Unlock
  <2>2. CASE TryLock(r)
    <3>1. CASE run'[r].pc = "work"
      <4>1. lock[run[r].job] = {} /\ lock' = [lock EXCEPT ![run[r].job] = {r}]
        BY <1>0, <2>2, <3>1 DEF TryLock, RunIdle
      <4>2. run'[r].job = run[r].job /\ run[r].job \in Registered
        BY <1>0, <2>2, <3>1 DEF TryLock, RunIdle, Run, Waiting
      <4>3. \A q \in Runs \ {r} : Locked(q) /\ ~run[q].lost => run[q].job # run[r].job
        BY <4>1 DEF Holders
      <4> QED BY <1>0, <2>1, <3>1, <4>1, <4>2, <4>3 DEF Holders, Waiting, Locked
    <3>2. CASE run'[r].pc # "work"
      <4>1. run'[r] = RunIdle /\ lock' = lock
        BY <1>0, <2>2, <3>2 DEF TryLock, Run
      <4> QED BY <2>1, <4>1 DEF Holders, Waiting, Locked, RunIdle
    <3> QED BY <3>1, <3>2
  <2>3. CASE Work(r) \/ SkuSaved(r)
    <3>1. /\ run'[r].pc = "unlock" /\ run'[r].job = run[r].job /\ lock' = lock /\ Locked(r)
          /\ run'[r].lost = run[r].lost
      BY <1>0, <2>3 DEF Work, SkuSaved, Over, RunIdle, Locked
    <3> QED BY <2>1, <3>1 DEF Holders, Waiting, Locked
  <2>4. CASE SkuSave(r)
    <3>1. /\ run'[r].pc = "save" /\ run'[r].job = run[r].job /\ lock' = lock /\ Locked(r)
          /\ run'[r].lost = run[r].lost
      BY <1>0, <2>4 DEF SkuSave, Run, Locked
    <3> QED BY <2>1, <3>1 DEF Holders, Waiting, Locked
  <2>5. CASE Unlock(r)
    <3>1. run'[r] = RunIdle /\ lock' = [lock EXCEPT ![run[r].job] = @ \ {r}]
      BY <1>0, <2>5 DEF Unlock
    <3>2. \A q \in Runs \ {r} : Locked(q) /\ ~run[q].lost => lock'[run[q].job] = {q}
      BY <1>0, <3>1 DEF Holders
    <3> QED BY <2>1, <3>1, <3>2 DEF Holders, Waiting, Locked, RunIdle
  <2> QED BY <1>2, <2>2, <2>3, <2>4, <2>5 DEF RunStep
<1>3. CASE PollStep
  <2>1. lock' = lock /\ \A q \in Runs : /\ run'[q].pc = run[q].pc /\ run'[q].job = run[q].job
                                       /\ run'[q].lost = run[q].lost
    BY <1>0, <1>3 DEF PollStep, PollCheck, PollRebuild, PollAdd, PollExit, Run
  <2> QED BY <2>1 DEF Holders, Waiting, Locked
<1>4. CASE Exit \/ Crash
  BY <1>4 DEF Exit, Crash, Ended, RunnerLost, RunIdle, Holders, Waiting, Locked
<1>5. ASSUME NEW r \in Runs, Drop(r) PROVE Holders' /\ Waiting'
  <2>1. /\ run' = [run EXCEPT ![r].lost = TRUE]
        /\ lock' = [lock EXCEPT ![run[r].job] = @ \ {r}]
        /\ run[r].pc \in {"work", "save"}
    BY <1>5 DEF Drop, SessionLost
  <2>2. /\ run'[r].lost /\ run'[r].pc = run[r].pc /\ run'[r].job = run[r].job
        /\ \A q \in Runs \ {r} : run'[q] = run[q]
    BY <1>0, <2>1 DEF Run
  <2>3. \A q \in Runs \ {r} : Locked(q) /\ ~run[q].lost => lock'[run[q].job] = {q}
    BY <1>0, <2>1 DEF Holders
  <2> QED BY <2>1, <2>2, <2>3 DEF Holders, Waiting, Locked
<1>6. CASE Boot \/ Console \/ SaveStep \/ StopStep \/ Terminate
  BY <1>6, <1>a DEF Boot, Console, SaveStep, StopStep, Terminate
<1>7. CASE UNCHANGED vars
  BY <1>7, <1>a DEF vars
<1> QED BY <1>1, <1>2, <1>3, <1>4, <1>5, <1>6, <1>7 DEF Next

\* Two runs of a job are at work together only after one of them lost its
\* session, whatever else fails, rebuilds, saves, stops or starts, and however
\* many runs have lost theirs before: the end of such a run gives nobody room.
THEOREM JobsRunAlone == Spec => []OneRunPerJob
<1>1. Init => Holders /\ Waiting
  BY DEF Init, RunnerInit, RunIdle, Holders, Waiting, Locked
<1>2. TypeOK /\ Holders /\ Waiting /\ [Next]_vars => Holders' /\ Waiting'
  BY HoldersStep
<1>3. Holders => OneRunPerJob
  BY DEF Holders, OneRunPerJob, AtWork, Locked
<1> QED BY <1>1, <1>2, <1>3, InitTyped, NextTyped, PTL DEF Spec

-----------------------------------------------------------------------------
(* Stop and the polling goroutine *)

\* From StopTake on s.cron is nil, and from StopCron on it ticks no more.
Stopped == /\ stop \in {"taken", "runs", "loop", "http"} => cron.nil
           /\ stop \in {"runs", "loop", "http"} => ~cron.ticking

LEMMA StoppedStep ==
    ASSUME TypeOK, Stopped, [Next]_vars
    PROVE  Stopped'
<1>0. cron \in Cron
  BY DEF TypeOK, SchedulerTypeOK
<1>a. UNCHANGED <<cron, stop>> => Stopped'
  BY DEF Stopped
<1>1. CASE PollStep
  <2>1. CASE PollRebuild
    BY <2>1 DEF PollRebuild, Stopped
  <2>2. CASE PollAdd
    BY <1>0, <2>2 DEF PollAdd, Stopped, Cron
  <2>3. CASE PollCheck \/ PollExit
    BY <2>3, <1>a DEF PollCheck, PollExit
  <2> QED BY <1>1, <2>1, <2>2, <2>3 DEF PollStep
<1>2. CASE StopStep
  <2>1. CASE StopTake
    BY <1>0, <2>1 DEF StopTake, Stopped
  <2>2. CASE StopCron
    BY <1>0, <2>2 DEF StopCron, Stopped, Cron
  <2>3. CASE \E expired \in BOOLEAN : StopRuns(expired) \/ StopLoop(expired)
    BY <2>3 DEF StopRuns, StopLoop, Stopped
  <2> QED BY <1>2, <2>1, <2>2, <2>3 DEF StopStep
<1>3. CASE Terminate
  BY <1>3 DEF Terminate, Signal, Stopped
<1>4. CASE Exit \/ Crash
  BY <1>4 DEF Exit, Crash, Ended, SchedulerStarted, Stopped
<1>5. CASE Boot \/ Console \/ SaveStep
  BY <1>5, <1>a DEF Boot, Console, SaveStep, scheduler
<1>6. ASSUME NEW r \in Runs, Start(r) \/ RunStep(r) \/ Drop(r) PROVE Stopped'
  BY <1>6, <1>a DEF Start, RunStep, Drop, scheduler
<1>7. CASE UNCHANGED vars
  BY <1>7, <1>a DEF vars, scheduler
<1> QED BY <1>1, <1>2, <1>3, <1>4, <1>5, <1>6, <1>7 DEF Next

LEMMA NoStartStep ==
    ASSUME TypeOK, Stopped, Next, NEW r \in Runs,
           stop \in {"runs", "loop", "http"}, run'[r].by = "cron"
    PROVE  run[r].by = "cron"
<1>0. run \in [Runs -> Run]
  BY DEF TypeOK, RunnerTypeOK
<1>1. ASSUME NEW q \in Runs, Start(q) PROVE run[r].by = "cron"
  <2>1. PICK j \in Registered : Begin(q, j, "manual")
    BY <1>1 DEF Start, Fire, Stopped
  <2>2. run'[q].by = "manual" /\ \A p \in Runs \ {q} : run'[p] = run[p]
    BY <1>0, <2>1 DEF Begin, RunIdle
  <2> QED BY <2>2
<1>2. ASSUME NEW q \in Runs, RunStep(q) PROVE run[r].by = "cron"
  <2>1. \A p \in Runs \ {q} : run'[p] = run[p]
    BY <1>0, <1>2 DEF RunStep, TryLock, Work, SkuSave, SkuSaved, Unlock
  <2>2. run'[q] = RunIdle \/ run'[q].by = run[q].by
    BY <1>0, <1>2 DEF RunStep, TryLock, Work, SkuSave, SkuSaved, Unlock, Over, RunIdle, Run
  <2> QED BY <2>1, <2>2 DEF RunIdle
<1>3. CASE PollStep
  BY <1>0, <1>3 DEF PollStep, PollCheck, PollRebuild, PollAdd, PollExit, Run
<1>4. CASE Exit \/ Crash
  BY <1>4 DEF Exit, Crash, Ended, RunnerLost, RunIdle
<1>5. CASE Boot \/ Console \/ SaveStep \/ StopStep \/ Terminate
  BY <1>5 DEF Boot, Console, SaveStep, StopStep, Terminate, runner
<1>6. ASSUME NEW q \in Runs, Drop(q) PROVE run[r].by = "cron"
  BY <1>6 DEF Drop, SessionLost
<1> QED BY <1>1, <1>2, <1>3, <1>4, <1>5, <1>6 DEF Next

\* No scheduled run begins once Stop has stopped the cron: a rebuild that was
\* on its way finds s.cron = nil, one that was waiting only adds entries to
\* a cron that has stopped.
THEOREM StoppedStaysStopped == Spec => NoStartAfterStop
<1> DEFINE Step == \A r \in Runs :
          stop \in {"runs", "loop", "http"} /\ run'[r].by = "cron" =>
              run[r].by = "cron"
<1>1. Init => Stopped
  BY DEF Init, Stopped
<1>2. TypeOK /\ Stopped /\ [Next]_vars => Stopped'
  BY StoppedStep
<1>3. TypeOK /\ Stopped /\ [Next]_vars => [Step]_vars
  BY NoStartStep
<1>4. Spec => [][Step]_vars
  BY <1>1, <1>2, <1>3, InitTyped, NextTyped, PTL DEF Spec
<1> QED BY <1>4 DEF NoStartAfterStop

-----------------------------------------------------------------------------
(* Saves, one at a time *)

NoOverlap     == "overlap" \notin Faults
NoHiddenWrite == "reply" \notin Faults

Alone  == \A v, w \in Writers : Saving(v) /\ Saving(w) => v = w
Quiet  == ~up => \A w \in Writers : ~Saving(w)
Ahead  == \A w \in Writers : save[w].pc = "publish" =>
              stored = [cfg |-> save[w].cfg, at |-> save[w].at]
Behind == up /\ (\A w \in Writers : save[w].pc # "publish") => mem = stored

\* A save of the SKU task carries the configuration in memory, but for the
\* mapping, and that mapping is still the one its run started from.
Mine == \A r \in Runs : Saving(r) =>
            /\ run[r].pc = "save"
            /\ save[r].cfg = [mem.cfg EXCEPT !.sku = save[r].cfg.sku]
            /\ mem.cfg.sku = run[r].sku

SaveInv == Alone /\ Quiet /\ Ahead /\ Behind /\ Mine

\* A new save finds no other in progress and leaves the others' editors be.
LEMMA SubmitAlone ==
    ASSUME NoOverlap, ConfigTypeOK, NEW w \in Writers, NEW c, Submit(w, c)
    PROVE  /\ \A v \in Writers : ~Saving(v)
           /\ \A v \in Writers \ {w} : save'[v] = save[v]
           /\ save'[w].pc = "write" /\ save'[w].cfg = c
<1>1. PICK t \in Now : save' = [save EXCEPT ![w] = [pc |-> "write", cfg |-> c, at |-> t]]
  BY DEF Submit
<1> QED BY <1>1 DEF Submit, NoOverlap, ConfigTypeOK

\* What a step of a run does to the other runs and to itself.
LEMMA RunsKept ==
    ASSUME TypeOK, NEW r \in Runs, Start(r) \/ RunStep(r) \/ Drop(r), ~SkuSave(r),
           NEW q \in Runs, Saving(q), run[q].pc = "save"
    PROVE  run'[q].pc = run[q].pc /\ run'[q].sku = run[q].sku
<1>0. run \in [Runs -> Run] /\ save \in [Writers -> Save] /\ q \in Writers
  BY DEF TypeOK, RunnerTypeOK, ConfigTypeOK, Writers
<1>1. CASE q # r
  BY <1>0, <1>1 DEF Run, Start, Fire, Begin, RunStep, TryLock, Work, SkuSaved, Unlock,
     Drop, SessionLost
<1>2. CASE q = r
  <2>1. ~Start(r)
    <3>1. Start(r) => run[r] = RunIdle
      BY DEF Start, Fire, Begin
    <3>2. RunIdle.pc = "idle"
      BY DEF RunIdle
    <3> QED BY <1>2, <3>1, <3>2
  <2>2. RunStep(r) => FALSE
    BY <1>2 DEF RunStep, TryLock, Work, SkuSaved, Unlock, Saving
  <2> QED BY <1>0, <1>2, <2>1, <2>2 DEF Drop, SessionLost, Run
<1> QED BY <1>1, <1>2

LEMMA ConsoleSaves ==
    ASSUME NoOverlap, TypeOK, SaveInv, up, NEW w \in Operators,
           OpOpen(w) \/ OpSubmit(w), UNCHANGED <<run, up>>
    PROVE  SaveInv'
<1>0. /\ w \in Writers /\ w \notin Runs /\ save \in [Writers -> Save]
      /\ ConfigTypeOK /\ Runs \subseteq Writers
  BY ConfigAssumption DEF Writers, TypeOK, ConfigTypeOK
<1>1. CASE OpOpen(w)
  <2>1. /\ ~Saving(w) /\ ~Saving(w)' /\ save'[w].pc # "publish"
        /\ \A v \in Writers \ {w} : save'[v] = save[v]
        /\ stored' = stored /\ mem' = mem
    BY <1>0, <1>1 DEF OpOpen, Saving
  <2> QED BY <1>0, <2>1 DEF SaveInv, Alone, Quiet, Ahead, Behind, Mine, Saving
<1>2. CASE OpSubmit(w)
  <2>1. PICK c \in Edits(save[w].cfg) : Submit(w, c)
    BY <1>2 DEF OpSubmit
  <2>2. /\ \A v \in Writers : ~Saving(v)
        /\ \A v \in Writers \ {w} : save'[v] = save[v]
        /\ save'[w].pc = "write" /\ stored' = stored /\ mem' = mem
    BY <1>0, <1>2, <2>1, SubmitAlone DEF OpSubmit
  <2> QED BY <1>0, <2>2 DEF SaveInv, Alone, Quiet, Ahead, Behind, Mine, Saving
<1> QED BY <1>1, <1>2

LEMMA SaveStepSaves ==
    ASSUME NoHiddenWrite, TypeOK, SaveInv, up, NEW w \in Writers, Write(w) \/ Publish(w),
           UNCHANGED <<run, up>>
    PROVE  SaveInv'
<1>0. save \in [Writers -> Save] /\ Runs \subseteq Writers /\ Saving(w)
  BY DEF TypeOK, ConfigTypeOK, Writers, Saving, Write, Publish
<1>1. \A v \in Writers \ {w} : save'[v] = save[v] /\ ~Saving(v)
  BY <1>0 DEF Write, Publish, SaveInv, Alone
<1>2. CASE Write(w)
  <2>1. CASE save'[w].pc = "publish"
    <3>1. /\ save'[w].cfg = save[w].cfg /\ save'[w].at = save[w].at
          /\ stored' = [cfg |-> save[w].cfg, at |-> save[w].at] /\ mem' = mem
      BY <1>0, <1>2, <2>1 DEF Write, SaveIdle, Save
    <3> QED BY <1>0, <1>1, <2>1, <3>1 DEF SaveInv, Alone, Quiet, Ahead, Behind, Mine, Saving
  <2>2. CASE save'[w].pc # "publish"
    <3>1. save'[w] = SaveIdle /\ stored' = stored /\ mem' = mem
      BY <1>0, <1>2, <2>2 DEF Write, NoHiddenWrite, Save
    <3>2. \A v \in Writers : save[v].pc # "publish"
      BY <1>1, <1>2 DEF Write, Saving
    <3> QED BY <1>0, <1>1, <3>1, <3>2
            DEF SaveInv, Alone, Quiet, Ahead, Behind, Mine, Saving, SaveIdle
  <2> QED BY <2>1, <2>2
<1>3. CASE Publish(w)
  <2>1. save'[w] = SaveIdle /\ stored' = stored /\ mem' = stored
    BY <1>0, <1>3 DEF Publish, SaveInv, Ahead
  <2> QED BY <1>0, <1>1, <2>1 DEF SaveInv, Alone, Quiet, Ahead, Behind, Mine, Saving, SaveIdle
<1> QED BY <1>2, <1>3

LEMMA SkuSaveSaves ==
    ASSUME NoOverlap, TypeOK, SaveInv, up, NEW r \in Runs, SkuSave(r), UNCHANGED up
    PROVE  SaveInv'
<1>0. /\ r \in Writers /\ save \in [Writers -> Save] /\ Runs \subseteq Writers
      /\ run \in [Runs -> Run] /\ ConfigTypeOK /\ mem.cfg \in Config
  BY DEF Writers, TypeOK, ConfigTypeOK, RunnerTypeOK, Copy
<1>1. PICK s \in Skus : Submit(r, [mem.cfg EXCEPT !.sku = s])
  BY DEF SkuSave
<1>2. /\ \A v \in Writers : ~Saving(v)
      /\ \A v \in Writers \ {r} : save'[v] = save[v]
      /\ save'[r].pc = "write" /\ save'[r].cfg = [mem.cfg EXCEPT !.sku = s]
  BY <1>0, <1>1, SubmitAlone
<1>3. /\ stored' = stored /\ mem' = mem /\ mem.cfg.sku = run[r].sku
      /\ run'[r].pc = "save" /\ run'[r].sku = run[r].sku
  BY <1>0 DEF SkuSave, Run
<1>4. save'[r].cfg = [mem.cfg EXCEPT !.sku = save'[r].cfg.sku]
  BY <1>0, <1>2 DEF Config
<1>5. Mine'
  BY <1>0, <1>2, <1>3, <1>4 DEF Mine, Saving
<1> QED BY <1>0, <1>2, <1>3, <1>5 DEF SaveInv, Alone, Quiet, Ahead, Behind, Saving

LEMMA SaveInvStep ==
    ASSUME NoOverlap, NoHiddenWrite, TypeOK, SaveInv, [Next]_vars
    PROVE  SaveInv'
<1>0. run \in [Runs -> Run]
  BY DEF TypeOK, RunnerTypeOK
<1>a. UNCHANGED <<config, run, up>> => SaveInv'
  BY DEF config, SaveInv, Alone, Quiet, Ahead, Behind, Mine, Saving
<1>1. CASE Boot
  <2>1. \A w \in Writers : ~Saving(w)
    BY <1>1 DEF Boot, SaveInv, Quiet
  <2>2. save' = save /\ mem' = stored'
    BY <1>1 DEF Boot, LoadOrInit
  <2> QED BY <2>1, <2>2 DEF SaveInv, Alone, Quiet, Ahead, Behind, Mine, Saving, Writers
<1>2. ASSUME up, Console PROVE SaveInv'
  BY <1>2, ConsoleSaves DEF Console, runner
<1>3. ASSUME up, SaveStep PROVE SaveInv'
  BY <1>3, SaveStepSaves DEF SaveStep, runner
<1>4. CASE PollStep
  <2>1. \A r \in Runs : run'[r].pc = run[r].pc /\ run'[r].sku = run[r].sku
    BY <1>0, <1>4 DEF PollStep, PollCheck, PollRebuild, PollAdd, PollExit, Run
  <2>2. UNCHANGED <<stored, mem, save, up>>
    BY <1>4 DEF PollStep, config
  <2> QED BY <2>1, <2>2 DEF SaveInv, Alone, Quiet, Ahead, Behind, Mine, Saving
<1>5. ASSUME up, NEW r \in Runs, Start(r) \/ RunStep(r) \/ Drop(r) PROVE SaveInv'
  <2>1. CASE SkuSave(r) /\ UNCHANGED up
    BY <1>5, <2>1, SkuSaveSaves
  <2>2. CASE ~SkuSave(r)
    <3>1. UNCHANGED config /\ UNCHANGED up
      BY <1>5, <2>2 DEF Start, RunStep, Drop
    <3>2. \A q \in Runs : Saving(q) => run'[q].pc = run[q].pc /\ run'[q].sku = run[q].sku
      BY <1>5, <2>2, RunsKept DEF SaveInv, Mine
    <3> QED BY <3>1, <3>2
            DEF config, SaveInv, Alone, Quiet, Ahead, Behind, Mine, Saving
  <2>3. UNCHANGED up
    BY <1>5 DEF Start, RunStep, Drop
  <2> QED BY <2>1, <2>2, <2>3
<1>6. CASE StopStep \/ Terminate
  BY <1>6, <1>a DEF StopStep, Terminate, runner
<1>7. CASE Exit \/ Crash
  <2>1. ~up' /\ \A w \in Writers : save'[w] = SaveIdle
    BY <1>7 DEF Exit, Crash, Ended, ConfigLost
  <2> QED BY <2>1 DEF SaveInv, Alone, Quiet, Ahead, Behind, Mine, Saving, SaveIdle, Writers
<1>8. CASE UNCHANGED vars
  BY <1>8, <1>a DEF vars, runner
<1> QED BY <1>1, <1>2, <1>3, <1>4, <1>5, <1>6, <1>7, <1>8 DEF Next

LEMMA SaveInvInit == Init => SaveInv
<1> SUFFICES ASSUME Init PROVE SaveInv
  OBVIOUS
<1>1. \A w \in Writers : save[w] = SaveIdle
  BY DEF Init, ConfigInit
<1> QED BY <1>1 DEF Init, SaveInv, Alone, Quiet, Ahead, Behind, Mine, Saving, SaveIdle, Writers

\* If saves do not overlap and the database tells the truth about its writes,
\* failing statements and crashes included, what tasks read is always what a
\* restart would load.
THEOREM MemoryAgrees ==
    ASSUME NoOverlap, NoHiddenWrite
    PROVE  Spec => []MemoryIsStored
<1>1. TypeOK /\ SaveInv /\ [Next]_vars => SaveInv'
  BY SaveInvStep
<1>2. SaveInv => MemoryIsStored
  BY DEF SaveInv, Behind, MemoryIsStored, Saving
<1> QED BY <1>1, <1>2, SaveInvInit, InitTyped, NextTyped, PTL DEF Spec

\* What changes the copy in memory while a save of the SKU task is about to.
LEMMA SkuPublish ==
    ASSUME TypeOK, SaveInv, Next, NEW r \in Runs, save[r].pc = "publish", mem' # mem, up'
    PROVE  /\ mem'.cfg = [mem.cfg EXCEPT !.sku = mem'.cfg.sku]
           /\ mem.cfg.sku = run[r].sku
<1>0. r \in Writers /\ Saving(r)
  BY DEF Writers, Saving
<1>1. CASE Boot
  BY <1>0, <1>1 DEF Boot, SaveInv, Quiet
<1>2. CASE SaveStep
  <2>1. PICK w \in Writers : Write(w) \/ Publish(w)
    BY <1>2 DEF SaveStep
  <2>2. w = r
    BY <1>0, <2>1 DEF Write, Publish, Saving, SaveInv, Alone
  <2>3. Publish(r)
    BY <2>1, <2>2 DEF Write
  <2>4. mem'.cfg = save[r].cfg
    BY <2>3 DEF Publish
  <2> QED BY <1>0, <2>4 DEF SaveInv, Mine
<1>3. CASE Exit \/ Crash
  BY <1>3 DEF Exit, Crash, Ended
<1>4. CASE Console
  BY <1>4 DEF Console, OpOpen, OpSubmit
<1>5. CASE PollStep \/ StopStep \/ Terminate
  BY <1>5 DEF PollStep, StopStep, Terminate, config
<1>6. ASSUME NEW q \in Runs, Start(q) \/ RunStep(q) \/ Drop(q) PROVE FALSE
  BY <1>6 DEF Start, RunStep, Drop, SkuSave, config
<1> QED BY <1>1, <1>2, <1>3, <1>4, <1>5, <1>6 DEF Next

\* The SKU task changes only the mapping it started from, in whatever order
\* operators save, runs begin and lose their locks, and the process dies.
THEOREM SkuTaskKeepsEdits ==
    ASSUME NoOverlap, NoHiddenWrite
    PROVE  Spec => SkuTaskLosesNothing
<1> DEFINE Step == \A r \in Runs :
          save[r].pc = "publish" /\ mem' # mem /\ up' =>
              /\ mem'.cfg = [mem.cfg EXCEPT !.sku = mem'.cfg.sku]
              /\ mem.cfg.sku = run[r].sku
<1>1. TypeOK /\ SaveInv /\ [Next]_vars => SaveInv'
  BY SaveInvStep
<1>2. TypeOK /\ SaveInv /\ [Next]_vars => [Step]_vars
  BY SkuPublish
<1>3. Spec => [][Step]_vars
  BY <1>1, <1>2, SaveInvInit, InitTyped, NextTyped, PTL DEF Spec
<1> QED BY <1>3 DEF SkuTaskLosesNothing
=============================================================================
