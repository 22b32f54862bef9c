-------------------------- MODULE ControlPlaneProps --------------------------
(***************************************************************************)
(* What the process promises about its configuration, its runs and its     *)
(* schedule.                                                               *)
(***************************************************************************)
EXTENDS ControlPlane

\* Two runs of a job, scheduled or manual, are at work at one time only if one
\* of them lost its database session meanwhile, over rebuilds, shutdowns and
\* restarts: the lock of the job's name is all that keeps them apart
\* (runner.go, TryLock).  A run that lost its session works on and gets
\* company; it must not make room for more when it ends, by freeing the lock
\* its successor took (advisory.go, Unlock).
AtWork(r) == run[r].pc \in {"work", "save"}

OneRunPerJob ==
    \A q, r \in Runs :
        q # r /\ AtWork(q) /\ AtWork(r) /\ run[q].job = run[r].job =>
            run[q].lost \/ run[r].lost

\* With no save in progress, what the tasks read is what a restart would
\* load: a failed or interrupted save (manager.go, Update) leaves neither
\* ahead.  (An error that hides a write, or overlapping saves, may.)
MemoryIsStored ==
    up /\ (\A w \in Writers : ~Saving(w)) => mem = stored

\* The SKU task changes nothing but the mapping, and only the mapping its run
\* started from: what an operator saved since is kept (task_pull_sku_pair.go,
\* rule 4).  Two saves in progress at once may break this.
SkuTaskLosesNothing ==
    [][\A r \in Runs :
          save[r].pc = "publish" /\ mem' # mem /\ up' =>
              /\ mem'.cfg = [mem.cfg EXCEPT !.sku = mem'.cfg.sku]
              /\ mem.cfg.sku = run[r].sku]_vars

\* Once Stop has stopped the cron no scheduled run begins, whatever the
\* polling goroutine was doing: rebuilds look at s.cron again with the mutex.
NoStartAfterStop ==
    [][\A r \in Runs :
          stop \in {"runs", "loop", "http"} /\ run'[r].by = "cron" =>
              run[r].by = "cron"]_vars

\* A save takes effect on the schedule without a restart: the entries become
\* those of the configuration, also if it changes during a rebuild.
ScheduleFollowsConfig ==
    []<>(up /\ ~Signalled => cron.jobs = mem.cfg.on)

\* A shutdown ends although runs go on for longer than it may take, and
\* although a rebuild waits for them with the mutex Stop needs.
ShutdownEnds == stop = "asked" ~> ~up
=============================================================================
