# Verification of lingxingipass

`lingxingipass` is a Go service that connects DSCO (a drop-shipping hub) with LingXing (an ERP). Six scheduled
tasks pull orders from DSCO, create them in LingXing, acknowledge, ship and invoice them at DSCO, and carry
LingXing's stock to DSCO. A seventh keeps the SKU mapping up to date; a console and an HTTP API let people start
the same tasks, edit rows and change the configuration while everything runs. One process and one PostgreSQL
database do all of it; no step is protected by a transaction that spans two systems.

This directory holds TLA+ models of that code, the TLC configurations that check them, and TLAPS proofs.
`PROJECT.json` is the index: components, runs, the source lines of every definition (`map`), the hazards with the
properties that watch them, the findings and the theorems. In the modules, operators whose comment starts with
`Mutant:` are variants of a definition with a plausible bug; each property is known to fail with one of them.
Paths below are relative to `src/`.

## 1. Inventory

| Component | Source | State it keeps | Operations | Model |
|---|---|---|---|---|
| Order table | `infra/store/dsco_order_sync_store.go`, `pg_text_array.go` | `dsco_order_sync`: status 1..6, tracking numbers, invoice id, items, creation time | upsert, find by status (oldest first), four updates, newest creation time; items to a `text[]` and back | `SyncTable`, `RowItems` |
| Pull | `task_pull_dsco_orders.go` | window and page of a run | pages of DSCO orders, row by row upsert | `PullTask` |
| Push | `task_push_to_lingxing.go` | batch, orders found in LingXing | look-up, CreateOrdersV2, row to 2 | `PushTask` |
| Acknowledge | `task_ack_to_dsco.go` | batch, orders to acknowledge | read DSCO, check the review, one batch call, rows to 3 | `AckTask` |
| Ship | `task_ship_to_dsco.go`, `dsco_shipment_change_log.go` | batch, what DSCO has, what is sent, change log | read DSCO and WMS, one batch call, poll, rows to 4 | `ShipTask` |
| Invoice | `task_invoice_to_dsco.go` | batch, what is sent, what is confirmed | read WMS, one batch call, poll, look-up, rows to 5 | `InvoiceTask` |
| Runner | `integration/runner.go`, `infra/lock` | advisory lock per job, on a session of its own | snapshot, refuse, lock, run, unlock | `Jobs`, `JobRunner` |
| Configuration | `infra/runtimecfg`, `runtime_config_store.go` | a row and a copy in memory | load, validate, save, publish | `RuntimeConfig` |
| SKU pair task | `task_pull_sku_pair.go` | store, offset and maps of a run | list pairs page by page, detect conflicts, compare, save | `SkuMapping`; `JobRunner` (its save) |
| Scheduler | `transport/scheduler/scheduler.go` | cron, last time stamp, mutex | poll, rebuild, fire, stop | `Scheduler` |
| Process | `main.go` | up or not | start, signal, shutdown, crash | `ControlPlane` |
| Console | `admin/api.go` | none | set a status, run one order, run a job, edit the configuration, export CSV files | `OrderSync`, `RuntimeConfig`, `ControlPlane`, `ExportFiles` |
| Stock task | `task_sync_stock.go`, `sdk/dsco/inventory_stream.go` | cache of DSCO quantities, page; stream position | read DSCO's stock from a stream; then page by page: look, send, record | `StreamPull`; `StockSync` |
| Inventory API | `api/inventory_api.go` | `dsco_warehouse_sync` (read) | send the caller's quantities or the day's rows | `StockSync` |
| DSCO, LingXing | `golib/v2/sdk` (clients) | orders, packages, invoices, stock | batch requests processed later | `Partners`, `StockSync` (external) |
| Order check | `task_check_orders.go` | none | read rows, DSCO, LingXing, invoices; a verdict per order | `OrderCheck` |
| Export clean-up | `integration/ops`, `infra/fileutil` | the export directory | delete the oldest files until the rest fits | `ExportFiles` |
| Clients | `golib/v2/sdk/lingxing`, `golib/v2/sdk/dsco` | LingXing's token and its age | get and renew tokens, sign, send, sort the answer | `SdkClients` |
| Logging, environment, pages | `golib`, `admin/ui.go` | HTTP | request types, JSON, pages | never |

**How they interact.** The five order tasks share the table and nothing else. A task reads the oldest rows of its
input status, makes calls for seconds or minutes, and then writes by PO number without looking at what the row has
become. Each job has a lock, but different jobs run at the same time, and so do the operator's writes. DSCO answers
a batch call with a request id and does the work afterwards; the ship and invoice tasks poll a change log for at
most 60 seconds. The runner hands every task a snapshot of the configuration; saves replace the copy in memory, and
a polling goroutine rebuilds the cron when the time stamp of that copy changes. Every run makes a LingXing client of
its own, so runs that overlap take LingXing's token from each other. The order check and the exports read the table
while all of that goes on, and the clean-up job deletes files an export may be writing.

**What is hard.** Writes on the strength of old reads; calls that fail after they were carried out; answers that
come after the wait is over, in part, or never; a run that ends between a call and its row update; two saves, or a
save and a task that saves; a rebuild that waits with the mutex a shutdown needs; filters and cursors at their
boundary; lists read page by page while they change; a stream that does not say where it ends; tokens that expire or
are displaced. The 40 entries of `hazards` in `PROJECT.json` give the lines.

**What makes each part correct.** A status is backed by what the partner shows; a thing is created or sent once as
long as the look-ups work; what a row records was confirmed; an order does not get stuck; one run per job; memory
and table agree; the schedule follows the configuration; a shutdown ends; stock arrives; no order is left behind the
cursor; a read that ends well was complete; a refused request is an error; a new mapping can be used.

## 2. Modules

### Order pipeline

`SyncTable` -> `Partners` -> `Jobs` -> `PullTask`, `PushTask`, `AckTask`, `ShipTask`, `InvoiceTask` -> `OrderSync`
-> `OrderSyncProps` -> `OrderSyncInd`; `MCOrderSync` instantiates it for TLC and `OrderLifecycle` is the abstract
specification. An arrow is EXTENDS. The proofs follow in a chain of their own: `OrderSyncInd` (the invariants) ->
`OrderSyncProof` (types, and what pulls do) -> `ShippingProof` -> `EvidenceProof` -> `CheckProof`, which adds
`OrderCheck`.

* **State.** `row[o]` is a row; orders are numbered by creation time, so the store's `ORDER BY dsco_create_time` is
  the order on numbers. Each task has one variable (`pull`, `push`, ...) with a `pc` and the local variables the code
  reads after a call. `pc = "idle"` is the free lock of the job. `dsco`, `lx`, `wms` are the partners' side; `akq`,
  `shq`, `ivq` are requests DSCO took and has not processed. `lx[o].void` is a history field: LingXing answered a create
  call with success and without results.
* **Actions.** One action per stretch of code between two calls that others can come between: e.g. `ShipStart`
  (select rows), `ShipFetch` (read DSCO), `ShipSkip` / `ShipNothingNew` / `ShipPrepare` (one order of the plan loop),
  `ShipSend`, `ShipProcessed` (DSCO works), `ShipVerified` (the poll returns), `ShipCommit` (one row). Local loops that
  nobody can observe are one step. Quantities and lines are sets of parcels: `Goods` are parcels with lines that count,
  `Empty` those without.
* **Operator.** `AdminSetStatus` writes any status of `AdminStatuses`; `AdminRead` and `AdminRun` are the two halves
  of a one-order run, because the code reads the status and then starts the job.
* **Assumptions taken from outside the code.** `Arrive(o)` is the moment an order is ten seconds old (the window of
  a pull ends there). DSCO returns orders in order of creation. An outbound order counts whatever its WMS status.
  `"wms"` stands for a failed WMS call and for a missing warehouse, carrier or SKU mapping alike. `"abort"` stands for a
  crash, a cancelled request and the 30-minute limit. An answer that succeeds without data does what the code makes of
  it: for a DSCO read, a list of LingXing orders or a WMS list it is the absence a failed read leaves (`"fetch"`,
  `"lookup"`, `"wms"`), for a create call it is a success (`"void"`, `task_push_to_lingxing.go:390`). Counters saturate
  at `DupCap` = 2: "more than one" is all any property asks.

### Control plane

`RuntimeConfig` -> `JobRunner` -> `Scheduler` -> `ControlPlane` -> `ControlPlaneProps` -> `ControlPlaneProof`;
`MCControlPlane` for TLC.

* `RuntimeConfig`: `stored` is the row, `mem` is `Manager.cur`, `save[w]` a save in progress. `Submit`, `Write` and
  `Publish` are the three parts of `Manager.Update`. Of the content, the enabled jobs, the SKU mapping (as a number) and
  whether a shop is mapped are kept: those are what `Validate`, the scheduler and the SKU task look at. Time counts
  seconds in which something is saved (`MaxStamp`).
* `JobRunner`: `run[r]` is a call of `runInternal`, `lock[j]` the sessions that hold a job's lock; `run[r].lost`
  (history) says that the session of the run is gone while the run works on.
* `Scheduler`: the polling goroutine (`poll`) and `Stop` (`stop`) are two processes; `poll.pc = "wait"` is the only
  place the mutex is kept over a wait, so `MutexFree` is its negation. `by = "old"` marks runs a replaced cron started.
* `ControlPlane`: start, shutdown, crash, restart.

### Stock

`StockSync` -> `StockSyncProps` -> `StockProof`; `MCStockSync` for TLC. The rows of one day are kept as `latest` (the last row of a key)
and `differ` (LingXing's quantity in the last row with a difference), which is what `ListLatestByDSCOKey` returns
without and with `diff_only`. `Events` bounds stock movements, faults and API requests together; failing look-ups are
not counted. SKU names are taken to be unique.

### Services

Six components that meet the pipeline only through what they read. `MCServices` extends all of them and runs one at a
time: its variable `part` picks the component, whose own `Init` and `Next` then work on its own variables. Each also has a
specification of its own (`CheckSpec`, `StreamSpec`, `SdkSpec`, `PairsSpec`, `ExportSpec`, ...), which the proofs are
about. Proof modules: `ClientsProof` (`StreamPull`, `SdkClients`), `ServicesProof` (`SkuMapping`,
`ExportFiles`, `RowItems`), `CheckProof`.

* `OrderCheck` extends `OrderSync`: `check` is one call of the check, with the rows it read first (`local`), then DSCO
  (`CheckDsco`), LingXing (`CheckLingXing`) and the invoices one by one (`CheckInvoice`), while every task goes on.
  `Verdict` is the report. What fails or comes without data counts as absent, and the report does not say so; the
  history field `blind` names the sources that were. A DSCO order without data is there with no status (`"blank"`).
  The check changes nothing, so its steps leave the pipeline alone and the reverse.
* `StreamPull`: `dump` is the stream at DSCO with its events, `reader` the reader's loop: create, sync, wait for the
  first event, pull, handle each event, acknowledge, look for the end, delete. Times are rounds of the loop (one sleep
  each). `Late` is set once DSCO paused for longer than `Pause`. `blank` is the event without an id.
* `SdkClients`: `issued` is LingXing's newest token with its age, `client[c]` the client of one run. `Ensure`,
  `RefreshToken` and `GetToken` are the token manager, `SignedByClient` and `SignedByServer` the two views of a field
  that is absent, empty or null, `Decode` and `DecodeDsco` what becomes of an answer. That a refresh token
  works once is what `authorization.go:39` quotes from LingXing; that LingXing keeps one token at a time is assumed, as
  the worst case: if it keeps several, runs do not disturb each other.
* `SkuMapping`: `listing[s]` is a store's list at LingXing, `pairs` the run: store by store, page by page by offset, pair
  by pair with the three conflict tests (`TakePair`), then the save. A Go map gives the stores in any order.
* `ExportFiles`: `export` is an export of orders or stock rows: for every page the rows are counted (`ExportCount`)
  and then read by offset (`ExportPageRead`), while rows come and go. `clean` is the clean-up with the list of files
  it took first. Both work on `dir`, the files by number; exports run one at a time (the model's choice; over HTTP
  they may overlap, each with a file of its own), so a file with a lower number is older. Stock rows of a batch share
  their sort key, so `Pages` leaves their order open.
* `RowItems`: the tokens `sku(qty)` of an order, quoted by the code, read and printed by PostgreSQL, scanned by the code
  and used by `multi_ban`. The reader is the code's loop as a machine that takes a letter at a time (`Read`, `Scan`);
  `Space` stands for all white space.

## 3. Runs

Ten runs pass and two show where the code differs from a statement of the repository's documents. All bounds are
constants in the `.cfg`.

| Run | Question | Bounds and why they are enough |
|---|---|---|
| `front` | Pull, push and acknowledge at the same time with failing calls and writes, create calls answered without results, aborted runs, cancelled and self-confirmed orders: are statuses backed, is each order created once, does a pull rewrite the newest order only, is no order left behind the cursor? | Two orders, pages of one: "newest" and "older", a window of two pages, two orders in one batch. Order 2 has several lines and is skipped (`Banned`). |
| `back` | Ship and invoice while requests fail, are rejected in part or answer too late: do rows record only what DSCO has? | Two orders of two parcels: a part of an order and a part of a batch can fail. Parcels are symmetric. |
| `console` | The same properties with an operator who starts pulls and shipments, for all orders or for one, and sets statuses in the middle. | One order: the operator and the jobs meet on one row. |
| `lifecycle` | Do the four later tasks, with failures and create calls answered without results, implement `OrderLifecycle`? Do two of them ever hold the same order? | Two orders, so that batches mix. |
| `live_front` | Is every order but the newest acknowledged in the end? | Two orders and batches of one: the older one competes for its place with the one that is always put back. |
| `live_back` | Is every order at status 3 closed in the end, also when every change log comes too late? | Two orders of one parcel. |
| `control` | One run per job; no start after a stop; types. With failing statements, hidden writes, overlapping saves, crashes and lost lock sessions. | Two jobs, two runs, one operator, three saves: a save before, during and after a rebuild. |
| `live_control` | Memory and table agree; the SKU task loses no edit; the schedule follows the configuration; a shutdown ends. With failing statements, crashes and lost lock sessions. | One job, two runs of it (so one can lose its lock to the other), three saves. |
| `stock` | A success row has the accepted quantity; DSCO gets LingXing's stock in the end. | One warehouse, two SKUs in one page and batches of one: one of two batches can fail. Three events: a movement, a fault and an API request. |
| `services` | The six services, one per initial value of `part`: is a check right (with answers that fail or come without data), a read complete, a stream deleted, a token good, a refusal seen, a mapping usable, an export complete, a clean-up enough, an order of several lines seen? | Check: two orders, so a range passes its limit of one. Stream: two items of which one has the other as partner, three events in pulls of two, waits of two and three rounds, nine rounds in all: a stream that ends early, late, or by `Longest`. Tokens: two runs, a life of two ticks. Pairs: two stores, two pages each. Exports: three rows, pages of one, two files over the limit together. Items: the eight letters that mean something in a token, an array or a literal, in SKUs of two, two lines. |
| `v_regress` | "No status regression" (`doc/.../1.业务需求.md:253`) | One order: pull, push, pull. |
| `v_stale` | "By the day's latest row" (`doc/.../9.api定义.md:235`) | One SKU, two runs, one movement. |

`front`, `console`, the control-plane runs and `stock` check for deadlock. `back`, `lifecycle`, `live_front`,
`live_back` do not, since without new orders the system comes to rest when all orders are closed. Nor does `services`,
where a component comes to rest by design: a row that was written and read, a mapping that was saved.

### Properties worth a comment

* `StageEvidence` and `LifecycleSpec` are about statuses written on the strength of old reads. They hold because what
  the tasks read (created, reviewed, shipped) is never taken back, not because anything is locked. Status 2 stands on
  an order in LingXing or on an answer that claimed one (`Taken`): the code cannot tell a success without results from
  a created order. With `"void"` left out of the `Faults` the weaker statement is the stronger one.
* `OneRunPerJob`: the lock lives in a session, and a run whose session is gone works on. Two runs of a job are at work
  at one time only after such a loss; the late unlock of that run must not free the lock of its successor
  (`UnlockByName`).
* `OneTaskPerOrder`: the status column is the only thing that keeps two tasks from having one order. Pulls and
  operators break it, which is why `lifecycle` runs without them.
* `LocalTrackingConfirmed` matters because the next run takes the row's numbers for reported ones when it cannot read
  DSCO.
* `MemoryIsStored` is about the two halves of a save; `SkuTaskLosesNothing` about the comparison before it.
* `ScheduleFollowsConfig`: `lastStamp` is taken before a rebuild's long wait. Taken after it (`PollAddLate`), a save
  during the wait would never reach the schedule.
* `ShutdownEnds`: the rebuild waits with the mutex `Stop` takes first; only the wait's second way out (`ctx.Done()`)
  saves the shutdown (`PollAddPatient`).

* `NothingPassed`: the next pull starts at the newest stored order, so an order missing below it is lost. It needs
  orders that can be decoded and stored, and no pull of a later range by hand; section 5 shows both.
* `NoFalseAlarm`: the check compares an old row with new partners. What it looks for at 2, 4 and 5 is never taken
  back; at 3 the properties of the pipeline say no such thing, so 3 is not in it. Each verdict needs the answers it
  rests on: DSCO's orders always, LingXing's lists at 2, the invoices at 5. Without any one of these conditions, or
  without the exception for `lx[o].void`, TLC finds a false alarm.
* `StreamComplete` needs a DSCO that does not pause for as long as the reader waits, since nothing marks the end.
* `StreamRunsOut` is a measure that every step of a run uses up. It says that the loop ends without any fairness, and
  can be proved, which a liveness property could not.
* `LastTokenServes` relates the client's clock, which starts before a call, to LingXing's. The leeway has to be at least
  the time limit of a call; both are 30 seconds in the code, which is just enough.
* `SavedIsMap`, `SavedIsListing`: the task may save a mapping that cannot be read backwards only if two stores share a
  LingXing SKU; paging by offset loses nothing while lists stand still.
* `ExportComplete`: rows come while pages are read by offset. Two cases are excepted by history variables, `left` (a row
  left the filter) and `slip` (a row came between a count and its page); both lose rows.

### Fairness

Tasks: the scheduler starts every enabled job again and again, and every wait in the code has a limit, so a run goes
on to its end (weak fairness per task: its start and its steps). Partners: they process what they took (weak
fairness). Operators, cancellations, faults: none. Control plane: saves, the polling goroutine and `Stop` go on; runs
end, but during a shutdown, which lasts 60 seconds where a run may take 30 minutes, no run is assumed to.
`StockSync`: the scheduled run comes round again and again although API requests take the same lock in between, which
is strong fairness of its start; without it a client that never stops could keep it out.

## 4. Proofs

TLAPS proves these for every set of orders, parcels, jobs, operators and runs and for every bound.

| Theorem | Says | Needs |
|---|---|---|
| `TypeCorrect` | `TypeOK` of `OrderSync` | - |
| `TrackingConfirmed` | `LocalTrackingConfirmed` | DSCO logs an order once per request (`"perpkg" \notin World`) |
| `InvoicesRecorded` | `InvoiceRecorded` | - |
| `InvoicedAfterShipment` | `InvoiceOnlyAfterShipment` | the operator does not write status 4 (part of the property), one log per request |
| `OneOrderCreated` | `OneLingXingOrder` | the look-up works |
| `ReviewedAcknowledged` | `AckOnlyReviewed` | the look-up works |
| `StatusesBacked` | `StageEvidence` | as the two above; success without results is part of the property |
| `ControlPlaneTyped` | `TypeOK` of `ControlPlane` | - |
| `JobsRunAlone` | `OneRunPerJob` | - (lost sessions are part of the property) |
| `StoppedStaysStopped` | `NoStartAfterStop` | - |
| `MemoryAgrees` | `MemoryIsStored` | saves do not overlap, no write is hidden by an error |
| `SkuTaskKeepsEdits` | `SkuTaskLosesNothing` | the same |
| `CursorPassesNothing` | `NothingPassed` | no pull by hand (`"pull" \notin ManualJobs`), orders can be decoded (`"decode" \notin Faults`), a table that starts empty or without unstored rows (`0 \notin Start` or `Start = {0}`) |
| `PullsLeaveOlderRows` | `PullRewritesNewestOnly` | no pull by hand, the same start |
| `TasksKeptApart` | `OneTaskPerOrder` | no pulls, no runs by hand, no statuses by hand |
| `LifecycleImplemented` | `LifecycleSpec`, the refinement of `OrderLifecycle` | the same, the look-up works, one log per request |
| `MappingUsable`, `MappingWhole` | `SavedIsMap`, `SavedIsListing` | - |
| `ReadComplete`, `StreamsDeleted`, `ReadEnds` | `StreamComplete`, `NoStreamLeft`, `StreamRunsOut` | - (`Pause` below both waits is part of the first) |
| `RefusalsSeen`, `LastTokenWorks` | `RefusalIsError`, `LastTokenServes` | `Delay <= Leeway <= Life`, assumed of the constants |
| `ExportsAll` | `ExportComplete` | - (rows that leave, or slip in before a page, are excepted by the property) |
| `CleansEnough` | `CleanEnough` | - (an export that interferes, or a removal that fails, is excepted by the property) |
| `BanSees` | `BanSeesOrder` | - |
| `AlarmsAreTrue` | `NoFalseAlarm` | - (answers with data, for the verdict in question, are part of the property) |
| `StockTyped` | `TypeOK` of `StockSync` | - |
| `SuccessBacked` | `SuccessMeansAccepted` | - |

**The argument of the order pipeline.** A task's memory is older than the table and the partners, so the properties
are not inductive. `OrderSyncInd` ties each task's memory to what cannot be taken back: DSCO drops no package and
no invoice, its status never returns to `created`, LingXing drops no order. `TrackInv` says that the tracking numbers a
run will store are DSCO's or in its own request, and that a log that says "ok" stands for the whole request;
`InvoiceInv` that confirmed invoices exist; `AfterInv` that every order past its shipment, wherever it is (table,
batch, request, late request), is shipped; `CreateInv` that the look-up stays good for a batch because only the push
task creates; `AckInv` that what waits for its acknowledge stays reviewed. Lemmas on the partners' steps say what only
grows; each step of a task is one lemma. `StatusesBacked` then needs type correctness and those invariants.

**The argument of the control plane.** `Holders`: a run past `TryLock` and before the end of `Unlock` that has not
lost its session is the one holder of its job's lock, and nobody else frees it; so of two runs at work one has lost its
session. `Stopped`: once `Stop` took the cron it is nil, and stays
nil because the rebuild looks again with the mutex. `SaveInv`: one save at a time, a save about to publish is what the
table has, and the SKU task's save carries the configuration in memory but for the mapping it compared.

**The argument of the cursor.** `WindowInv` says that orders come in the order of their creation, that what a scheduled
pull still has to store is not older than any stored row, and that its page is the oldest part of that; `GapInv` that
neither the table nor what is left of the window has a gap. A page is stored oldest first, so a run cut off anywhere
leaves no gap behind. `WorkInv` says that the later tasks hold stored orders only, so none of them makes a row.

**The argument of the life cycle.** `StatusInv` says that a task's memory holds orders of its own input status, and that
the parts of one memory are disjoint (`Divided`): a row leaves that status only by the write of the task that holds it.
So every step leaves all statuses alone (`Stays`) or raises one by one (`Up`), and `UpBacked` takes from `CreateInv`,
`AckInv`, `EvidenceInv`, `InvoiceInv` and `AfterInv` that the partners show what the new status says.

**The arguments of the services.** `PairsInv`: the maps of a run are what `TakePair` lets through, one to one within a
store; `PagingInv` adds that the pairs seen are the list up to the offset (`Upto`). `StreamInv`: the position and
the rounds agree with what DSCO wrote (`Progress`), the waits with DSCO's pause (`Pacing`), and the cache has the last
event handled of every item, under its own SKU whatever partners' SKUs say (`InCache`). `SdkInv`: `Fit` relates the age
of a token by the client's clock to LingXing's age of it, between which a call's time limit lies.

**The argument of the check.** A check has read the rows before it reads the partners. `ShownInv` says of every
moment that the partners show what rows and memories are about: an order with a row is DSCO's (`ListedInv`), one at 2 or
found by a task is LingXing's, or LingXing said so (`FoundInv`, `Taken`), one at 4 has a parcel at DSCO
(`SomeParcelInv`), an invoice id stands for an invoice (`InvoiceInv`). None of it needs working look-ups. The partners take none of it back (`Lasts`), so `CheckInv` can
carry it from the moment the check read the row (`CopyInv`) to each of its later reads (`SightInv`).

**The argument of the stock task.** All runs hold one lock, so while a page is in progress nobody else changes what
DSCO accepted. `PageInv`: an item of a writing run is still to be sent with the quantity that was listed (`Unsent`), or
was accepted with it (`Accepted`), or the page is marked as bad; and a page marked as bad is written with status 2.

**The arguments of the exports.** `ReadInv` counts, for each row still to be written, the rows ahead of it in the sort:
unless a row left there are at least `offset`, and within a counted page fewer than `total`. A page takes the rows
behind the first `offset` ones, so what is left of it has at least `offset` plus the page ahead of it (`PageAhead`), and
when that reaches the count nothing is left. Rows that come can only raise the number. `CleanInv` says that the size the
job believes in is that of the files it has not looked at, and that without its last removal it was over the limit;
it needs that `SizeOf` loses exactly a file's size with the file (`SizeWithout`). `SizeOf` is a recursive function; the
library's induction theorems cannot be used, so its lemmas take the least index at which a claim fails
(`LeastNumber`, from the well-foundedness of `<`), which needs no operator parameter.

**The argument of the items.** A parser undoes a printer, for every text. `Scan` reads `s \o t` as `s` and then `t`
(`ScanBoth`), so the proof is put together from what is read at an escaped letter (`ScanEscaped`), at an element with or
without quotes (`ScanPart`), at a comma (`ScanComma`) and of a whole column (`ReadsWritten`, for the literal of the code
and the array PostgreSQL prints alike). `Tells` says which lines a list of tokens speaks of, and `TokenRead` that the last
bracket of a token is the one `Token` wrote. Each recursive function is met as a function on `0..n` that satisfies
its recursion (`Recursion` shows that there is one), and what holds of it at every `i` follows by `UpTo`, which takes
the property as the set of numbers that have it.

**Only model-checked:** liveness (`OlderOrdersAcknowledged`, `EventuallyInvoiced`, `ScheduleFollowsConfig`,
`ShutdownEnds`, `StockReachesDsco`), which with ENABLED is out of the prover's reach. Every invariant and every action
property of the runs has a theorem.

## 5. Where the code differs from what one may expect

The two violation runs disagree with sentences of the documents. The following need a fault, or contradict no sentence
word for word (the nearest ones are quoted); each can be reproduced by changing one constant of a run.

* *Newest order put back* (`v_regress`). Every scheduled pull starts at the newest stored creation time, inclusive,
  and clears that row. A pull between ship and invoice maps `shipped` to 5 and closes the order without an invoice.
  With batches, an older order can be closed the same way: a page read while the order was the newest is stored later.
* *An order that cannot be decoded or stored* is passed over and lies behind the cursor for ever: add `"decode"` to
  `Faults` of `front`.
* *A later range pulled by hand* moves the cursor past what is missing: `"pull"` in `ManualJobs` of `front`.
* *Cancelled orders go on.* A task that holds an order in its batch overwrites status 6.
* *A second order in LingXing*: add `"lookup"` to `Faults` of `front`; an order whose look-up fails counts as absent.
* *A sub-order acknowledged for the whole*: the same fault; the fallback returns one of the PO's orders.
* *A package sent again*: `"late"`; a request silent for 60 seconds may still be processed after the next run sent it.
* *Acknowledge is asynchronous*: the row is at 3 when DSCO took the call, also if DSCO rejects it later (`"reject"`).
* *Head of the line*: `Unmapped = {1}` and `Size = 1` in `live_front`: skipped orders keep their place among the
  oldest and keep later ones out. `doc/DSCO同步领星设计文档/1.业务需求.md:254` says that a single order that fails does not
  block others (单个订单失败不会阻塞其他订单推进): true of one order, not of as many as a batch holds.
* *A create call answered without results*: `"void"`, part of `front`, `lifecycle` and `services`. Only an answer with
  error details and no success details counts as failed; any other moves the row to 2. If LingXing made nothing, no
  task looks for the order again: it is never acknowledged, and the order check alone reports it.
* *A list of LingXing orders answered without data*: `"lookup"`. The push may create an order twice, and the order check
  reports every order it asked for as missing; the same goes for DSCO's answers and the check (`"fetch"`, `"page"`).
* *A parcel without lines*: `Empty = {p1}`: its number is stored but never sent; a row of nothing else stays at 3.
* *First log counts*: `"perpkg"` in `World` of `back`: the poll ends with one log per order, more may follow.
* *Overlapping saves*: `"overlap"` in `live_control`: table and memory end up different, and the SKU task may write
  over an operator's save. `"reply"` does the former with one save.
* *Lost session*: `"session"`, part of `control`: the run works on and another run of the job joins it. `OneRunPerJob`
  promises no more than that nothing else lets two runs meet.
* *Two saves in one second* have one time stamp, and the scheduler does not see the second: `"second"` in `Faults` of
  `live_control` breaks `ScheduleFollowsConfig`.
* *Stores that share a LingXing SKU*: the mapping is saved and then every job that reads it backwards fails
  (`系统说明文档.md:147` and `4.配置设计.md:296` ask for a mapping that can be).
* *A success without data* (`"null"`) ends a store's list: the mapping loses its pairs. So does a list that changes while
  it is paged (`"shift"`).
* *Tokens*: a token answered empty or without a term is kept for ever, also when it has expired (`"empty"`,
  `"noexpiry"`); overlapping runs displace each other's tokens, and the run that lost its token sees errors only.
* *Exports*: stock rows of one time may be left out or written twice between two pages; a row that leaves the filter
  moves the rest past the offset; the clean-up may remove the file that is being written, and the export fails.
* *Lines without a SKU* are not among the items of a row, so `multi_ban` does not count them.
* *An event without an id* at the end of a pull is pulled again, until the run's time is over.
* *A page open while the SKU task saves*: the operator's save restores the old mapping (`OpOpen`, `OpSubmit`).
* *Shutdown*: runs of a replaced cron and runs started over HTTP are not waited for (`PollAdd`, `Exit`).

## 6. Not modelled, and the plan

Written as planned, core first: order pipeline, control plane, stock, then the services and the proofs of the cursor
and the life cycle. Left, in order:

1. `ChangeLogPoll`: the two polls with their retries and time limits, shown to implement `ShipVerified` and
   `InvVerified`; now their outcome is one step.
2. `OrderList`: fifty POs against a page of fifty LingXing orders (`task_ack_to_dsco.go:208`), where sub-orders beyond
   the page are not seen; the fallback by PO.
3. The window of a pull in seconds with its ten-second margin; DSCO's paging while orders come.
4. `ShipAssemble`: lines to packages. Quantities are sets of parcels now.
5. Proofs of what items 1 to 4 add, the two refinements of the polls first.

Never: the request and answer types of the clients, HTTP plumbing, logging and the pages of the console keep no state
that a property is about; of the signature only the fields it covers are modelled. Also outside: several processes on
one database (only the lock is written for that), orders deleted in LingXing (the push counts them as existing, the
check does not see them), more than one domain, and the order in which PostgreSQL returns
order rows of equal time.
