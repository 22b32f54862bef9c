------------------------------ MODULE StockSync ------------------------------
(***************************************************************************)
(* Stock synchronisation: the task sync_stock, which carries LingXing's    *)
(* stock to DSCO and keeps a row per look in dsco_warehouse_sync           *)
(* (integration/dsco_lingxing/task_sync_stock.go), and the inventory API,  *)
(* which runs it on quantities of its caller or of those rows              *)
(* (api/inventory_api.go).  All runs hold one lock, so there is one at a   *)
(* time.  A SKU has one name here: the reverse SKU mapping is taken to     *)
(* name different DSCO items for different LingXing SKUs.                  *)
(***************************************************************************)
EXTENDS Integers, FiniteSets, Functions

CONSTANTS
    Warehouses,  \* mapping.warehouse
    Skus,        \* SKUs LingXing lists in every warehouse
    MaxQty,      \* bound on quantities
    PageLength,  \* items per InventoryDetails call
    Size,        \* items per UpdateSmallBatch call (jobs.sync_stock.size)
    SyncModes,   \* values jobs.sync_stock.sync takes
    Stream,      \* jobs.sync_stock.use_stream
    DiffOnly,    \* values of diff_only in requests to the inventory API
    Events       \* bound: stock movements, faults and API requests together

ASSUME StockAssumption ==
    /\ IsFiniteSet(Warehouses) /\ IsFiniteSet(Skus)
    /\ MaxQty \in Nat /\ Events \in Nat
    /\ PageLength \in Nat \ {0} /\ Size \in Nat \ {0}
    /\ SyncModes \subseteq BOOLEAN /\ DiffOnly \subseteq BOOLEAN /\ Stream \in BOOLEAN

Keys == Warehouses \X Skus     \* (dsco_warehouse_id, dsco_warehouse_sku)
Qty  == 0..MaxQty

VARIABLES
    lxq,     \* LingXing: available quantity
    acc,     \* DSCO: last quantity accepted for a key ...
    dq,      \* ... and the quantity it shows, once that is processed
    latest,  \* the day's last row of each key that has one
    differ,  \* LingXing's quantity in a key's last row with a difference
    events,  \* how many events are still to come
    sync     \* the run

partners == <<lxq, acc, dq>>
rows     == <<latest, differ>>
vars     == <<partners, rows, events, sync>>

Partial(S, T) == UNION {[D -> T] : D \in SUBSET S}

Look  == [num : Qty, dsco : Qty, st : {1, 2}]      \* a row in the making
Entry == [st : {"missing", "failed", "read"}, q : [Warehouses -> Qty]]

SyncType ==
    [pc    : {"idle", "next", "page", "look", "send", "push"},
     src   : {"stock", "daily", "items"},  \* Override.Source
     write : BOOLEAN,              \* doSync
     todo  : SUBSET Warehouses,    \* warehouses not begun
     wh    : SUBSET Warehouses,    \* the one in progress
     left  : SUBSET Skus,          \* its SKUs not listed yet
     cache : [Skus -> Entry],      \* dscoInvCache
     page  : Partial(Skus, Qty),   \* listed, not looked up at DSCO yet
     made  : Partial(Skus, Look),  \* the page's rows
     out   : Partial(Keys, Qty),   \* quantities still to be sent
     bad   : BOOLEAN]              \* syncErr

Empty   == [x \in {} |-> 0]

\* The entries of g, and those of f for the rest.
Over(g, f)    == [x \in DOMAIN f \cup DOMAIN g |-> IF x \in DOMAIN g THEN g[x] ELSE f[x]]
Put(f, x, v)  == Over([y \in {x} |-> v], f)
Without(f, B) == Restrict(f, DOMAIN f \ B)

Missing == [st |-> "missing", q |-> [w \in Warehouses |-> 0]]

SyncIdle == [pc |-> "idle", src |-> "stock", write |-> FALSE, todo |-> {}, wh |-> {}, left |-> {},
             cache |-> [s \in Skus |-> Missing], page |-> Empty, made |-> Empty,
             out |-> Empty, bad |-> FALSE]

TypeOK ==
    /\ lxq \in [Keys -> Qty] /\ acc \in [Keys -> Qty] /\ dq \in [Keys -> Qty]
    /\ latest \in Partial(Keys, [num : Qty, st : {1, 2}])
    /\ differ \in Partial(Keys, Qty)
    /\ events \in 0..Events
    /\ sync \in SyncType

Init ==
    /\ lxq = [k \in Keys |-> MaxQty]
    /\ acc = [k \in Keys |-> 0] /\ dq = acc
    /\ latest = Empty /\ differ = Empty
    /\ events = Events
    /\ sync = SyncIdle

\* The bound: one of the things that happen only so often.
Event == events > 0 /\ events' = events - 1

\* A batch or a page: n of the keys of f, all of them if there are fewer.
Some(f, n) == {B \in SUBSET DOMAIN f :
                 /\ B # {}
                 /\ \/ Cardinality(B) = n
                    \/ Cardinality(B) < n /\ B = DOMAIN f}

-----------------------------------------------------------------------------
(* The partners *)

\* Goods come and go in a warehouse.
Move(k) == /\ Event
           /\ \E q \in Qty \ {lxq[k]} : lxq' = [lxq EXCEPT ![k] = q]
           /\ UNCHANGED <<acc, dq, rows, sync>>

\* UpdateSmallBatch is asynchronous: DSCO shows the quantity later.
Process(k) == /\ dq[k] # acc[k]
              /\ dq' = [dq EXCEPT ![k] = acc[k]]
              /\ UNCHANGED <<lxq, acc, rows, events, sync>>

Accepts(B) == acc' = [k \in Keys |-> IF k \in B THEN sync.out[k] ELSE acc[k]]

-----------------------------------------------------------------------------
(* SyncStock: warehouse by warehouse, page by page. *)

\* With use_stream the cache is filled beforehand, with the SKUs that come.
SyncStart(write) ==
    /\ sync.pc = "idle"
    /\ \E S \in IF Stream THEN SUBSET Skus ELSE {{}} :
         sync' = [SyncIdle EXCEPT
                    !.pc = "next", !.write = write, !.todo = Warehouses,
                    !.cache = [s \in Skus |->
                        IF s \in S THEN [st |-> "read", q |-> [w \in Warehouses |-> dq[<<w, s>>]]]
                        ELSE Missing]]
    /\ UNCHANGED <<partners, rows, events>>

\* The next warehouse (a map: in any order), or the end of the run.
SyncNext ==
    /\ sync.pc = "next"
    /\ \/ \E w \in sync.todo :
            sync' = [sync EXCEPT !.pc = "page", !.todo = @ \ {w}, !.wh = {w}, !.left = Skus]
       \/ sync.todo = {} /\ sync' = SyncIdle
    /\ UNCHANGED <<partners, rows, events>>

\* InventoryDetails: the next page of the warehouse with the quantities of
\* now; when it fails, the rest of the warehouse is left for the next run.
SyncPage ==
    /\ sync.pc = "page"
    /\ \E w \in sync.wh :
       LET listed == [s \in sync.left |-> lxq[<<w, s>>]]
       IN  \/ /\ sync.left # {}
              /\ \E B \in Some(listed, PageLength) :
                   sync' = [sync EXCEPT !.pc = "look", !.page = Restrict(listed, B),
                                        !.left = @ \ B, !.bad = FALSE]
              /\ UNCHANGED events
           \/ /\ sync.left = {} /\ UNCHANGED events
              /\ sync' = [sync EXCEPT !.pc = "next", !.wh = {}]
           \/ /\ sync.left # {} /\ Event
              /\ sync' = [sync EXCEPT !.pc = "next", !.wh = {}, !.left = {}]
    /\ UNCHANGED <<partners, rows>>

\* What DSCO has of an item: from the cache, else by GetByKey, whose answer,
\* or failure (an unknown SKU fails every time), stays in the cache.
LookUps(s) ==
    IF sync.cache[s].st # "missing" THEN {sync.cache[s]}
    ELSE {[st |-> "read", q |-> [w \in Warehouses |-> dq[<<w, s>>]]],
          [Missing EXCEPT !.st = "failed"]}

\* Mutant: an item DSCO does not show is not sent.
SyncLookOrSkip(s) ==
    /\ sync.pc = "look" /\ s \in DOMAIN sync.page
    /\ \E w \in sync.wh, e \in LookUps(s) :
         sync' = [sync EXCEPT
                !.cache[s] = e,
                !.page = Without(@, {s}),
                !.made = Put(@, s, [num |-> sync.page[s], dsco |-> e.q[w],
                                    st |-> IF e.st = "failed" THEN 2 ELSE 1]),
                !.out = IF sync.write /\ e.st # "failed"
                        THEN Put(@, <<w, s>>, sync.page[s]) ELSE @]
    /\ UNCHANGED <<partners, rows, events>>

\* One item of the page: its row, and the quantity to send, which is sent
\* whatever DSCO has or whether that is known.
SyncLook(s) ==
    /\ sync.pc = "look" /\ s \in DOMAIN sync.page
    /\ \E w \in sync.wh, e \in LookUps(s) :
         sync' = [sync EXCEPT
                !.cache[s] = e,
                !.page = Without(@, {s}),
                !.made = Put(@, s, [num |-> sync.page[s], dsco |-> e.q[w],
                                    st |-> IF e.st = "failed" THEN 2 ELSE 1]),
                !.out = IF sync.write THEN Put(@, <<w, s>>, sync.page[s]) ELSE @]
    /\ UNCHANGED <<partners, rows, events>>

SyncLooked ==
    /\ sync.pc = "look" /\ sync.page = Empty
    /\ sync' = [sync EXCEPT !.pc = "send"]
    /\ UNCHANGED <<partners, rows, events>>

\* Mutant: a failed batch does not end the sending, and syncErr is that of
\* the last batch.
SyncSendOn ==
    /\ sync.pc = "send"
    /\ \E B \in Some(sync.out, Size) :
         \/ /\ Accepts(B) /\ UNCHANGED events
            /\ sync' = [sync EXCEPT !.out = Without(@, B), !.bad = FALSE]
         \/ /\ Event /\ UNCHANGED acc
            /\ sync' = [sync EXCEPT !.out = Without(@, B), !.bad = TRUE]
    /\ UNCHANGED <<lxq, dq, rows>>

\* UpdateSmallBatch, batch by batch until one fails (it may have been taken).
SyncSend ==
    /\ sync.pc = "send"
    /\ \E B \in Some(sync.out, Size) :
         \/ /\ Accepts(B) /\ UNCHANGED events
            /\ sync' = [sync EXCEPT !.out = Without(@, B)]
         \/ /\ Event /\ (UNCHANGED acc \/ Accepts(B))
            /\ sync' = [sync EXCEPT !.out = Empty, !.bad = TRUE]
    /\ UNCHANGED <<lxq, dq, rows>>

\* The status a row is stored with.
Status(r) == IF sync.bad THEN 2 ELSE r.st

\* The page's rows are inserted (or the insert fails), and on to the next.
SyncRecord ==
    /\ sync.pc = "send" /\ sync.out = Empty
    /\ \E w \in sync.wh :
       LET made   == sync.made
           new    == {<<w, s>> : s \in DOMAIN made}
           differ1 == {k \in new : made[k[2]].num # made[k[2]].dsco}
       IN  \/ /\ latest' = Over([k \in new |-> [num |-> made[k[2]].num,
                                             st |-> Status(made[k[2]])]], latest)
              /\ differ' = Over([k \in differ1 |-> made[k[2]].num], differ)
              /\ UNCHANGED events
           \/ Event /\ UNCHANGED rows
    /\ sync' = [sync EXCEPT !.pc = "page", !.made = Empty, !.bad = FALSE]
    /\ UNCHANGED partners

\* The run's context ends (a timeout, a closed request), or the process does.
SyncAbort == sync.pc # "idle" /\ Event /\ sync' = SyncIdle /\ UNCHANGED <<partners, rows>>

-----------------------------------------------------------------------------
(* postSync and syncStockByOverride *)

\* ListLatestByDSCOKey: one row per key of those the filter leaves, the
\* last.  The filter "diff <> 0" comes first.
ListLatest(diffOnly) ==
    IF diffOnly THEN differ ELSE [k \in DOMAIN latest |-> latest[k].num]

Override(src, target) ==
    /\ sync.pc = "idle" /\ Event
    /\ sync' = [SyncIdle EXCEPT !.pc = "push", !.src = src, !.write = TRUE, !.out = target]
    /\ UNCHANGED <<partners, rows>>

\* daily_pulled, not as a dry run.
DailyPulled(diffOnly) == Override("daily", ListLatest(diffOnly))

\* Mutant: any number is taken for a quantity.
ManualItemsAny(k, q) == Override("items", Put(Empty, k, q))

\* manual_items: the caller's quantities.
ManualItems(k, q) == q >= 0 /\ Override("items", Put(Empty, k, q))

\* Batch by batch; the first that fails ends the run.
OverrideSend ==
    /\ sync.pc = "push"
    /\ \E B \in Some(sync.out, Size) :
         \/ /\ Accepts(B) /\ UNCHANGED events
            /\ sync' = [sync EXCEPT !.out = Without(@, B)]
         \/ Event /\ (UNCHANGED acc \/ Accepts(B)) /\ sync' = SyncIdle
    /\ UNCHANGED <<lxq, dq, rows>>

OverrideDone ==
    /\ sync.pc = "push" /\ sync.out = Empty
    /\ sync' = SyncIdle
    /\ UNCHANGED <<partners, rows, events>>

-----------------------------------------------------------------------------
SyncStep == \/ SyncNext \/ SyncPage \/ SyncLooked \/ SyncSend \/ SyncRecord
            \/ \E s \in Skus : SyncLook(s)
            \/ OverrideSend \/ OverrideDone

Next == \/ \E write \in SyncModes : SyncStart(write)
        \/ SyncStep \/ SyncAbort
        \/ \E d \in DiffOnly : DailyPulled(d)
        \/ \E k \in Keys : Move(k) \/ Process(k) \/ \E q \in -1..MaxQty : ManualItems(k, q)

Spec == Init /\ [][Next]_vars

\* Scheduled runs come round again and again, also with the API in use, and
\* with the setting that writes; a run goes on; DSCO processes updates.
FairSpec == /\ Spec
            /\ SF_vars(TRUE \in SyncModes /\ SyncStart(TRUE))
            /\ WF_vars(SyncStep)
            /\ \A k \in Keys : WF_vars(Process(k))
=============================================================================
