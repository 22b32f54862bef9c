---------------------------- MODULE RuntimeConfig ----------------------------
(***************************************************************************)
(* The runtime configuration: one row of runtime_config, its copy in       *)
(* memory, which every task reads, and the saves of both (infra/runtimecfg *)
(* /manager.go).  A save validates, takes the time, writes the row and     *)
(* then replaces the copy; nothing serialises two saves.  Of the content,  *)
(* kept are the enabled jobs, the SKU mapping (a number names a mapping,   *)
(* 0 the empty one) and whether any shop is mapped.                        *)
(***************************************************************************)
EXTENDS Naturals, FiniteSets

CONSTANTS
    Registered,  \* the jobs of integration/registry.go
    Skus,        \* names of SKU mappings
    Operators,   \* browser sessions of the console
    Runs,        \* runs of jobs that may exist at one time
    MaxStamp,    \* bound: the seconds in which something is saved
    Faults       \* what may go wrong; see AllFaults

AllFaults == {"db",       \* a statement fails
              "reply",    \* the row is written and the caller told it is not
              "crash",    \* the process dies
              "session",  \* the session that holds a lock is lost
              "second",   \* two saves fall into the same second
              "overlap"}  \* two saves are in progress at one time

ASSUME ConfigAssumption ==
    /\ Skus \subseteq Nat /\ 0 \in Skus
    /\ MaxStamp \in Nat \ {0}
    /\ Faults \subseteq AllFaults
    /\ Operators \cap Runs = {}

Writers == Operators \cup Runs
Config  == [on : SUBSET Registered, sku : Skus, shop : BOOLEAN]

\* DefaultConfig: of the jobs only cleanup_exports is on; shops are mapped.
Default == [on |-> Registered \cap {"cleanup"}, sku |-> 0, shop |-> TRUE]

\* Mutant: names of jobs are not checked.
ValidLoose(c) == c.on \cap {"push", "ship", "invoice"} # {} => c.shop

\* Validate: only registered jobs, and these not on unless a shop is mapped.
Valid(c) == /\ c.on \subseteq Registered
            /\ c.on \cap {"push", "ship", "invoice"} # {} => c.shop

VARIABLES
    stored,  \* the row; at = 0 means there is none yet
    mem,     \* Manager.cur
    stamp,   \* the last second in which a save took its time
    save     \* save[w]: the save (or the open editor) of w

config == <<stored, mem, stamp, save>>

Copy     == [cfg : Config, at : 0..MaxStamp]
Save     == [pc : {"idle", "edit", "write", "publish"}, cfg : Config, at : 0..MaxStamp]
NoCopy   == [cfg |-> Default, at |-> 0]
SaveIdle == [pc |-> "idle", cfg |-> Default, at |-> 0]

ConfigTypeOK ==
    /\ stored \in Copy /\ mem \in Copy
    /\ stamp \in 0..MaxStamp
    /\ save \in [Writers -> Save]

ConfigInit ==
    /\ stored = NoCopy /\ mem = NoCopy
    /\ stamp = 0
    /\ save = [w \in Writers |-> SaveIdle]

-----------------------------------------------------------------------------
(* Manager.Update *)

Saving(w) == save[w].pc \in {"write", "publish"}

\* The time of a save, in seconds.
Now == {t \in {stamp, stamp + 1} :
           t \in 1..MaxStamp /\ (t = stamp => "second" \in Faults)}

\* The checks, and the time the save will carry.
Submit(w, c) ==
    /\ Valid(c)
    /\ "overlap" \in Faults \/ \A v \in Writers : ~Saving(v)
    /\ \E t \in Now : /\ stamp' = t
                      /\ save' = [save EXCEPT ![w] = [pc |-> "write", cfg |-> c, at |-> t]]

\* Mutant: the copy is replaced before the row is written.
WriteBehind(w) ==
    /\ save[w].pc = "write"
    /\ mem' = [cfg |-> save[w].cfg, at |-> save[w].at]
    /\ \/ /\ stored' = [cfg |-> save[w].cfg, at |-> save[w].at]
          /\ save' = [save EXCEPT ![w].pc = "publish"]
       \/ /\ "db" \in Faults
          /\ save' = [save EXCEPT ![w] = SaveIdle]
          /\ UNCHANGED stored
    /\ UNCHANGED stamp

\* RuntimeConfigStore.Upsert; when it fails the copy stays as it is.
Write(w) ==
    /\ save[w].pc = "write"
    /\ \/ /\ stored' = [cfg |-> save[w].cfg, at |-> save[w].at]
          /\ \/ save' = [save EXCEPT ![w].pc = "publish"]
             \/ "reply" \in Faults /\ save' = [save EXCEPT ![w] = SaveIdle]
       \/ /\ "db" \in Faults
          /\ save' = [save EXCEPT ![w] = SaveIdle]
          /\ UNCHANGED stored
    /\ UNCHANGED <<mem, stamp>>

\* cur.Store: from now on every Snapshot returns the new configuration.
Publish(w) ==
    /\ save[w].pc = "publish"
    /\ mem' = [cfg |-> save[w].cfg, at |-> save[w].at]
    /\ save' = [save EXCEPT ![w] = SaveIdle]
    /\ UNCHANGED <<stored, stamp>>

-----------------------------------------------------------------------------
(* The console (admin/api.go): the page is loaded, edited and saved whole. *)

\* apiGetRuntimeConfig.  (Loading the page again is opening it later.)
OpOpen(w) ==
    /\ save[w].pc = "idle"
    /\ Now # {}   \* the bound: something can still be saved
    /\ save' = [save EXCEPT ![w] = [pc |-> "edit", cfg |-> mem.cfg, at |-> 0]]
    /\ UNCHANGED <<stored, mem, stamp>>

\* What an operator makes of a page: one field changed.  The body of the
\* request is free text: it may name a job nobody registered.
Edits(c) ==
    LET names == Registered \cup {"unknown"}
    IN  {[c EXCEPT !.sku = s] : s \in Skus} \cup {[c EXCEPT !.shop = ~@]}
          \cup {[c EXCEPT !.on = @ \cup {j}] : j \in names}
          \cup {[c EXCEPT !.on = @ \ {j}] : j \in names}

\* apiUpdateRuntimeConfig
OpSubmit(w) ==
    /\ save[w].pc = "edit"
    /\ \E c \in Edits(save[w].cfg) : Submit(w, c)
    /\ UNCHANGED <<stored, mem>>

-----------------------------------------------------------------------------
(* The process starts: LoadOrInit, with the defaults for an empty table. *)
LoadOrInit ==
    /\ \/ stored.at # 0 /\ UNCHANGED <<stored, stamp>>
       \/ /\ stored.at = 0
          /\ \E t \in Now : stamp' = t /\ stored' = [cfg |-> Default, at |-> t]
    /\ mem' = stored'
    /\ UNCHANGED save

\* The process ends, and with it the copy and every save in progress.
ConfigLost ==
    /\ mem' = NoCopy
    /\ save' = [w \in Writers |-> SaveIdle]
    /\ UNCHANGED <<stored, stamp>>
=============================================================================
