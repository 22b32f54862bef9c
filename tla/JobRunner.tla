------------------------------ MODULE JobRunner ------------------------------
(***************************************************************************)
(* Runs of jobs (integration/runner.go).  A run takes a snapshot of the    *)
(* configuration, tries the job's advisory lock on a database session of   *)
(* its own (infra/lock/advisory.go), works, and unlocks.  Of the work,     *)
(* what touches the configuration is followed: pull_sku_pair pulls a SKU   *)
(* mapping from LingXing and saves it unless the mapping changed meanwhile *)
(* (integration/dsco_lingxing/task_pull_sku_pair.go).                      *)
(***************************************************************************)
EXTENDS RuntimeConfig

VARIABLES
    run,   \* run[r]
    lock   \* lock[j]: the runs whose session holds the lock of job j

runner == <<run, lock>>

Run == [pc  : {"idle", "lock", "work", "save", "unlock"},
        job : Registered \cup {"none"},
        by  : {"none", "cron", "old", "manual"},  \* "old": by a replaced cron
        sku : Skus, shop : BOOLEAN,               \* of ctx.Config
        lost : BOOLEAN]         \* history: its session ended while it worked
RunIdle == [pc |-> "idle", job |-> "none", by |-> "none", sku |-> 0, shop |-> TRUE,
            lost |-> FALSE]

\* The task is over; its snapshot is not looked at any more.
Over(r) == [RunIdle EXCEPT !.pc = "unlock", !.job = run[r].job, !.by = run[r].by,
                           !.lost = run[r].lost]

RunnerTypeOK == run \in [Runs -> Run] /\ lock \in [Registered -> SUBSET Runs]

RunnerInit == /\ run = [r \in Runs |-> RunIdle]
              /\ lock = [j \in Registered |-> {}]

-----------------------------------------------------------------------------
\* runInternal up to the lock: a scheduled run of a job that is off by now
\* is refused, a manual one is not.
Begin(r, j, by) ==
    /\ run[r] = RunIdle
    /\ by = "manual" \/ j \in mem.cfg.on
    /\ run' = [run EXCEPT ![r] =
                  IF j = "sku"
                  THEN [pc |-> "lock", job |-> j, by |-> by,
                        sku |-> mem.cfg.sku, shop |-> mem.cfg.shop, lost |-> FALSE]
                  ELSE [RunIdle EXCEPT !.pc = "lock", !.job = j, !.by = by]]
    /\ UNCHANGED lock

\* Advisory.TryLock never waits: a held lock ends the run (ErrJobRunning).
TryLock(r) ==
    /\ run[r].pc = "lock"
    /\ \/ /\ lock[run[r].job] = {}
          /\ lock' = [lock EXCEPT ![run[r].job] = {r}]
          /\ run' = [run EXCEPT ![r].pc = "work"]
       \/ /\ lock[run[r].job] # {} \/ "db" \in Faults
          /\ run' = [run EXCEPT ![r] = RunIdle]
          /\ UNCHANGED lock

\* The task ends.  pull_sku_pair may end without a save: no shop is mapped,
\* a request fails, the pairs contradict each other, the mapping in memory
\* is not that of the snapshot.
Work(r) ==
    /\ run[r].pc = "work"
    /\ run' = [run EXCEPT ![r] = Over(r)]
    /\ UNCHANGED lock

\* Mutant: no comparison with the snapshot.
SkuSaveBlind(r) ==
    /\ run[r].pc = "work" /\ run[r].job = "sku"
    /\ run[r].shop
    /\ \E s \in Skus : Submit(r, [mem.cfg EXCEPT !.sku = s])
    /\ run' = [run EXCEPT ![r].pc = "save"]
    /\ UNCHANGED <<lock, stored, mem>>

\* The pairs are pulled; the configuration is read again, its mapping is
\* compared with the snapshot's, and the whole of it is saved with the new
\* mapping (also when that is the old one).
SkuSave(r) ==
    /\ run[r].pc = "work" /\ run[r].job = "sku"
    /\ run[r].shop
    /\ mem.cfg.sku = run[r].sku
    /\ \E s \in Skus : Submit(r, [mem.cfg EXCEPT !.sku = s])
    /\ run' = [run EXCEPT ![r].pc = "save"]
    /\ UNCHANGED <<lock, stored, mem>>

\* Update returns, with or without an error.
SkuSaved(r) ==
    /\ run[r].pc = "save" /\ save[r].pc = "idle"
    /\ run' = [run EXCEPT ![r] = Over(r)]
    /\ UNCHANGED lock

\* Mutant: the lock is freed by the job's name, whoever holds it.
UnlockByName(r) ==
    /\ run[r].pc = "unlock"
    /\ lock' = [lock EXCEPT ![run[r].job] = {}]
    /\ run' = [run EXCEPT ![r] = RunIdle]

\* Advisory.Unlock, also after a failed task: on the session TryLock opened,
\* so that a run whose session is gone frees nobody's lock.
Unlock(r) ==
    /\ run[r].pc = "unlock"
    /\ lock' = [lock EXCEPT ![run[r].job] = @ \ {r}]
    /\ run' = [run EXCEPT ![r] = RunIdle]

\* The server drops the session, and with it the lock; the task goes on.
SessionLost(r) ==
    /\ "session" \in Faults
    /\ run[r].pc \in {"work", "save"}
    /\ lock' = [lock EXCEPT ![run[r].job] = @ \ {r}]
    /\ run' = [run EXCEPT ![r].lost = TRUE]

\* The process ends: its sessions end too and PostgreSQL frees their locks.
RunnerLost ==
    /\ run' = [r \in Runs |-> RunIdle]
    /\ lock' = [j \in Registered |-> {}]
=============================================================================
