# A TLA+ model of worker_lightweight

worker_lightweight is a small task scheduler: an HTTP server that keeps shell
tasks in one SQLite table, and worker processes that pull them, run them and
report what came of it. This directory holds its formal model: TLA+ modules
translated from the Go source, TLC configurations that check them on small
instances, and proofs checked by TLAPS for every instance.

Paths such as `store.go:489` are relative to the package they live in
(`src/internal/...`); `PROJECT.json` maps every definition to its lines.

## 1. The system

| Part | State it keeps | Operations | Talks to |
|---|---|---|---|
| Task store, `store/store.go` | the `tasks` table, the AUTOINCREMENT counter | Create, Delete, SetEnabled, StopTask, ResumeTask, StopAllCron, ClearWorker, GetStopList, ListCron, ClaimPending, ReportResult, queries | called by handlers and scheduler through one connection |
| HTTP handlers, `server/server.go` | none (registry and limiter aside) | createTask, deleteTask, setTaskEnabled, stopTask, resumeTask, handlePull, handleResult, handleWorkerHeartbeat | store; nudge the scheduler |
| Cron scheduler, `server/scheduler.go` | cron entries, a one-slot signal channel | Start, resync, spawn, ResyncNow | store (ListCron, Create), lock, cron library |
| Lock, `lock/memory.go` | a map of shared entries (token, expiry) | Acquire, Release | scheduler |
| Worker pool, `worker/pool.go` | jobs channel, active map, executors | Start, fetch, runTask, exec, report, cancelActive, heartbeat | server over HTTP; shell |
| Rate limiter, `server/server.go` | tokens and time of last request per address | allow, cleanup | in front of every `/api/` handler |
| Worker registry, `server/server.go` | latest heartbeat per worker | Heartbeat, List (which prunes) | heartbeat goroutine of each pool; dashboard |
| Listing and paging, `store/store.go`, `server/server.go`, `server/ui.go` | none | buildWhere, List, Count, listTasks, buildPageItems | dashboard and API clients |
| Dashboard, `server/ui_template.go` | filter, current page and size, what is drawn, auto-refresh timer | refreshTable, renderRows, renderPagination, goPage, tabs, search | listTasks over HTTP, answers in any order |
| Life of the server, `main.go` | running, draining, closed | Start, Shutdown, Close | store, scheduler, requests in progress |
| Auth, TLS, audit, logger, scripts | see section 8 | | |

How they meet. A one-shot row starts `pending`. A worker's fetcher pulls:
`handlePull` first claims the oldest due row (`pending` to `running`, owner set)
and then reads the worker's stop list. The answer goes to the fetcher, which
first cancels what the stop list names and then sends the task to the jobs
channel. An executor takes it, registers its cancel function under the task id,
runs the command and reports with the context of the run. `handleResult` applies
the report if the row still names that worker: `success`, `dead`, or back to
`pending` with one more retry and a delay. Users may stop, restart or delete a
row at any time. A cron row is a template that is never claimed; the scheduler
keeps the engine's entries equal to the enabled templates and each firing
creates a one-shot child.

What is hard, and what each part has to get right:

* **Store.** Any order of calls from many clients. No row is given to two
  workers, a stop survives late outcomes, retries are counted exactly, templates
  are never executed, ids are never reused.
* **Dispatch.** Nothing numbers the claims of a task, so late, lost and
  duplicated messages meet rows that have moved on. A claim must be run at most
  once, a stop must reach the run it was meant for and no later one, and without
  faults nothing may be forgotten.
* **Worker pool.** Fetcher, executors and shutdown share a channel and a map. The
  map must never cancel the wrong run, and shutdown must not hang.
* **Scheduler.** A lossy one-slot signal, a listing that is old by the time it is
  applied, firings in the middle of it, handlers that commit first and nudge
  later.
* **The one connection.** Every call of the server shares it. A transaction may be cut
  short by its context, a closed store or the end of the process between any two
  statements; half a call must never be on disk, and the connection never lost.
* **Rate limiter.** Refilled lazily from a time that every call moves, and forgotten
  when idle: neither may be visible.
* **Registry.** Clocks read before locks, heartbeats that time out at the worker while
  their handlers go on and overtake one another.
* **Dashboard.** Refreshes that overtake one another, two statements behind one answer,
  error answers read as data, page arithmetic done twice in two languages.
* **Lock.** Fields read and written with no synchronisation once a lease has run
  out.

`PROJECT.json` lists these hazards line by line with the properties that cover
them.

## 2. Modules

| Module | Models | Uses |
|---|---|---|
| `WorkerIds` | the set of worker ids | |
| `TaskStore` | the table and all store calls; the abstract view of what any caller may do to a row | `WorkerIds` |
| `WorkerPool` | worker processes | `WorkerIds` |
| `Dispatch` | users, handlers, store and workers together, with the faults between them | `TaskStore`, `WorkerPool` |
| `Scheduler` | the resync loop, the engine's entries, spawn, the handlers that nudge | `TaskStore` |
| `MemoryLock` | Acquire and Release of one key | |
| `StoreTx` | the store's calls statement by statement over one connection, and the life of the server around them; implements `TaskStore` | `TaskStore` (twice, as instances) |
| `TokenBucket` | what the rate limiter promises | |
| `RateLimiter` | the limiter; implements `TokenBucket` | `TokenBucket` (as an instance) |
| `Presence` | heartbeats and the worker registry behind the limiter | `RateLimiter` |
| `Listing` | filters, List, Count, pages and page bars, as operators | |
| `Dashboard` | one browser tab over a changing table | `TaskStore`, `Listing` |
| `TaskStoreProofs`, `MemoryLockProofs`, `StoreTxProofs`, `WorkerPoolProofs` | theorems | the module named, TLAPS |
| `PresenceProofs` | theorems about `RateLimiter` and `Presence` | `Presence`, TLAPS |
| `SchedulerProofs` | theorems about `Scheduler` | `Scheduler`, `TaskStoreProofs` |
| `DispatchProofs` | theorems about `Dispatch` | `Dispatch`, `TaskStoreProofs`, `WorkerPoolProofs` |
| `DashboardProofs` | theorems about `Listing` and `Dashboard` | `Dashboard`, TLAPS |
| `MCTaskStore`, `MCStoreTx`, `MCWorkerPool`, `MCDispatch`, `MCScheduler`, `MCMemoryLock`, `MCPresence`, `MCDashboard` | small instances | the module named |

### TaskStore

`tasks` maps the ids that exist to rows; `nextId` is AUTOINCREMENT; `now` is the
server's clock. A row keeps type, status, retry limit and count, owner, parent,
enabled flag and next run time. Each store method is one action: the pool has a
single connection and a method is one statement or one transaction, so nothing
comes in between. `StopAllCron` is two statements with no transaction and
therefore two actions. `ReportResult` has one disjunct per way its transaction
commits, in the order of the code's tests: on a stopped row, success, dead,
retry, and the retry whose guarded UPDATE matches nothing. `Next` lets any caller
call anything with any argument it can have. `handlePull` turns an empty worker_id away,
`handleResult` does not, and `ReportResult` compares strings: a report that names no
worker (`NoWorker` among the `Reporters`) is the owner's of every row that has none.
`StopAllCron` has no caller in the program.

### WorkerPool

Per process: `life`, the fetcher with the pull it waits for, the `jobs`
sequence, one record per executor (`starting` before registerActive, `running`
while the command runs, `reporting` until unregisterActive), the `active` map
from id to slot, and the reports sent and not yet handled. `ctx` tells why a run's context is done: `stopped`,
`expired` or `shutdown`. `Finish` sends a report only while the context is live,
because `report` uses the run's own context (`pool.go:285`) and an HTTP call under
a finished context is not made. Registering overwrites an earlier run of the id;
ending a run deletes by id whoever registered it (`pool.go:105-117`). Nothing makes a
command end: `CommandContext` kills only the shell, and `cmd.Run` then waits for every
process that still holds the output (`pool.go:315-319`). `Killed` is the end of a run whose
context is done, and that it comes (`KillsEnd`) is a hypothesis of properties.
`ServerClaims` and `ServerAnswers` are the server's half of a pull.

A task copy carries a claim number that the code does not have. No guard reads it;
properties use it to tell runs of one task apart.

### Dispatch

Composes the two by conjunction of their actions: `PullClaims` is `ClaimPending`
with `ServerClaims`, `PullAnswers` is `GetStopList` with `ServerAnswers`, and
between them any other step may happen. `Env` selects which of the steps that are
nobody's duty may happen (stops, restarts, deletions, deadlines, losses, signals,
crashes, boots, server restarts). `claims`, `stopped` and `restarted` are history.
The clients are the program's own workers, which have an id; what a report without one can
do to the table is in `TaskStore`.
A server restart forgets requests in flight and changes no row, because opening
the database runs only `migrate`.

### Scheduler

`loop` is the goroutine of `Start`; `resync` is broken into the listing, one
removal at a time and one addition at a time. `sig` is the one-slot channel. A
handler commits (`Committed`) and nudges (`ResyncNow`) in two steps; deleting does
not nudge. `Fire` takes the lock of the definition's name or gives up;
`SpawnChild` creates the child from what the entry remembers of the definition.
Listing and creating fail at any time, and always once the context is cancelled.
The cron library is an environment: any entry may fire at any time.

### MemoryLock

Each caller acquires once and releases once. `LoadOrStore`, `Load` and `Delete`
are atomic; each read and write of an entry's field is a step, and the two expiry
tests of `Acquire` are two steps. The unsynchronised reads are a data race; tokens
have a fixed length and the compared time is one word, so an outcome is an old or
a new value.

### StoreTx

`disk` is the table as last committed, `draft` the table as the open transaction sees
it, `conn` who holds the connection, `call` who is inside which call and how far.
`Begin`, `Write`, `Commit` and the deferred `Rollback` are steps of the three methods
with a transaction; the others execute when the connection is free, and
`StopAllCron` gives it up between its statements. What a statement does is
taken from `TaskStore`, applied to `draft` or to `disk`: the module says when, not
what. The lookups and the updates of one transaction are `Write`; a lookup that
finds nothing is `GiveUp`. `Abort` is every way a call is cut short.
`Signal`, `Drained`, `CloseEarly`, `Exit`, `Crash` and `Boot` are `runServer`: Shutdown waits for
requests, for ten seconds, and for no firing of the scheduler. A request that came before the
signal may call the store while the server drains (`Accept`).

### RateLimiter, TokenBucket and Presence

`RateLimiter` keeps the code's two maps. Times are ages, which `LimiterTick` raises;
tokens are counted in units, `Minute` of them a token, so that a tick
refills a whole number.
`TokenBucket` is the promise: a level that rises by itself. `Refilled`, what
`allow` would find if it were called now, is the refinement mapping.

`Presence` puts the limiter in front of heartbeats. A handler is between two steps
from `Stamp` (Heartbeat reads the clock) to `Store` (under the lock), and List is
between `Cutoff` and `Prune`. `Return` frees the worker's goroutine whatever became
of the request, so two handlers may hold heartbeats of one worker, in either order.
`shown` is what List calls of the current tick returned. `sent` and `heard` are
history.

### Listing and Dashboard

`Listing` has no state: a table is a function from ids to rows, and each
function of the read path is an operator (`Matches` is buildWhere, `List` and `Count` the
queries, `PageOf`, `SizeOf`, `Offset`, `TotalPages` the arithmetic of listTasks and renderUI,
`BuildPageItems` the bar). `Dashboard` is one tab: the script's variables `page` and
`size` (which an error answer makes undefined), `filter` for the form and the active tab,
`shown` and `bar` for what is drawn, and refreshes `inflight`, each with the query it was
sent with. `ServeList` and `ServeCount` are the two statements behind an answer; `Handle`
is renderRows and renderPagination. `body` and `barEl` tell which
elements the loaded page has: the template leaves out what there was nothing to show in.

## 3. What is checked

All runs finish in a few minutes with two TLC workers.

| Run | Instance | Shows |
|---|---|---|
| `TaskStore` | 2 workers and reports that name none, 2 ids, max_retry 0 or 1, clock to 3 | `TypeOK`; `Ownership` (waiting rows are nobody's, running ones somebody's), `CronNeverRuns` (a definition is never claimed, owned or queued as a retry), `RetryBudget`; the step properties `ClaimIsExclusive`, `StopIsSticky`, `DeletedStaysDeleted`, `RunningIsAccounted` |
| `WorkerPool` | 1 process, 2 slots, 2 ids, any server | `PoolTypeOK`; `ActiveIsLive`: an entry of the active map is a live run of that very id; `ShutdownEnds`: a signalled process ends from every state though no command would end by itself, if a killed one ends |
| `Dispatch` | 2 workers, 1 slot each, 1 id, 2 claims, every fault | `OneRunPerClaim`, `LiveRunIsOwned`, `AttemptsCounted`, `StopsReachBack` (a stop never kills a run that began after it), `OutcomeIsFinal` |
| `DispatchSettles` | 1 worker, 1 slot, 4 ids: the queue of two fills up and the fetcher blocks; one task is retried and stopped | `RunningIsLive`, `Settles`, `StopReaches` (a cancel that comes before the run is registered is made good by the next stop list, unless the fetcher is blocked for ever) |
| `Scheduler` | 2 ids, one handler at a time | `SchedTypeOK`, `EntriesFollow` (no nudge is lost), `StoreSpec` (the scheduler implements the store's abstract next-state relation), `PausedLeaves` (a definition that stays paused or deleted stays away from the engine from some moment on), `EnabledArrives`, `SchedulerStops` |
| `MemoryLock` | 4 callers, two with one token, leases run out | `LockTypeOK`; `MutualExclusion` (one holder in every behaviour whose holders keep to their own leases); `Releasable` (no entry is left behind, without that hypothesis) |
| `StoreTx` | 2 requests and 1 firing, a definition and its child, 1 worker | `IsTaskStore` (the table on disk changes by whole calls of `TaskStore` only), `SnapshotIsCurrent` (nothing is committed under an open transaction), `ConnectionIsHeld` (on every path it is given back), `CallsEnd` (no call waits for it for ever) |
| `Presence` | 1 worker, 3 handlers, its address shared with other requests | `PresenceTypeOK`; `IsTokenBucket` (refill on demand, stamps that move on refusals and eviction are all invisible); `HeardIsListed` and `ShownIsAlive` (a worker heard in time is listed, one that is shown has called) |
| `Dashboard` | 3 ids, pages of 1 or 2, 2 refreshes in flight, 3 acts | `PagesAreExact` (the pages partition the matching rows), `BarsAreRight` (for up to 9 pages), `PageIsBarPage`, `CatchesUp` (auto-refresh recovers from overtaken, torn and failed answers) |

Every property of these runs is refuted when the model is given one plausible bug
of the code (`mutants` in `PROJECT.json`; the mutated definitions stand in the
modules just above the definition they replace).

The remaining runs, named `Claim...`, each check one sentence of a comment or
document that the code does not live up to; TLC's counterexample is the evidence
and `findings` quotes both sides:

| Run | Sentence | What happens |
|---|---|---|
| `ClaimSweep` | a restart sweep recovers lost reports (`pool.go:331`) | there is none, the row stays running |
| `ClaimExpiry` | a deadline counts as a failure (`pool.go:323`) | its report uses the expired context and is never sent |
| `ClaimPause` | no stale children after a pause (`store.go:168`) | a spawn in flight commits after it |

The models also have, without a run of their own, behaviour that a sentence of the
repository speaks against or that a reader may not expect:

* `StopTask` stops a cron definition although `task.go:32` says its status never leaves
  pending (it keeps firing).
* A report with an empty worker_id passes the owner test of a waiting row or of a cron
  definition and writes its outcome on it, although `store.go:552` says "Only the worker that
  owns the task may report its result" and `README.md:313` that a cron definition does not
  enter the execution flow. It is not claimed by that, which is what `CronNeverRuns` says.
* A command such as a pipeline that outlives its killed shell keeps `Start` from returning
  after a signal, although `main.go:192` speaks of a graceful drain: `ShutdownEnds` needs its
  hypothesis `KillsEnd`.
* While commands that never end fill the slots and the queue, the fetcher waits to send
  (`pool.go:251`), pulls no more and delivers no stop: `README.md:314` fails. That is the
  exception `Blocked` of `StopReaches`, and TLC refutes the property without it.
* A worker stopped by a signal or cancelled by a stop reports nothing, as in
  `ClaimExpiry`, so `main.go:192` ("zero orphaned tasks") and `pool.go:273` (cancellation
  is reported) fail for the same reason, and the stop list never shrinks because
  `ClearWorker` has no caller.
* After a user's restart a late report of an earlier claim of the same worker is taken
  for the current one, so `store.go:534` ("permanently") holds only as `OutcomeIsFinal`
  states it.
* `unregisterActive` deletes by id: the end of an earlier run of a task removes the
  cancel function of the later run that replaced it, and a stop no longer reaches that
  run, although active "tracks in-flight tasks so the fetcher can cancel them"
  (`pool.go:52`).
* A task stopped and restarted before its worker pulls again is on no stop list and is
  not interrupted, although `README.md:314` says a stop interrupts the process.
* Two callers may take one expired lease, which `memory.go:49` calls a "CAS-style swap";
  `Release` tests the token and deletes in two steps.
* The limiter lets through up to twice `perMin` less one in a minute (the burst saved and
  the refill), as any `TokenBucket` does, where `server.go:709` speaks of a "per-minute
  request budget".
* The registry's "latest" snapshot (`server.go:31`) is the one stored last: of two
  heartbeats in progress the older may replace the newer. `HeardIsListed` allows for it.
* "No tasks match the current filter." (`ui_template.go:354`) is also what an error answer
  and a page beyond the last one show; when one page is left the bar is hidden and
  nothing but a reset leads back.
* The bar "always includes first and last pages" (`ui.go:51`) for a current page up to two
  beyond the last; further out only the first and the last are drawn, in that
  case with a gap or none between them.
* A page loaded with no task has no table body, and one loaded with a single page has no
  page bar: later refreshes cannot draw into them.

## 4. Bounds

Bounds are in guards and named: `MaxId`, `MaxNow`, `RetryCap` (TaskStore), `Claims`
(WorkerPool), `MaxHandlers` (Scheduler), `MaxTime` (MemoryLock). A passing run
has thirty thousand to three million distinct states and takes half a minute to four minutes.
`MaxActs`, `Slots` (Dashboard), `Handlers`, `Delay` (Presence) and `Offered` (StoreTx) bound the new ones.

* Store properties speak of one row, or of one row and the children of another,
  so two ids and two workers show every interaction; the proofs remove the bound.
* Two workers and two claims are the least in which a run can outlive its claim and
  a stop of the first be late for the second. With one slot and a queue of two, a
  claim can wait while another runs.
* The clock stands still in Dispatch: every pending row is due and equally old, so
  any order of claims is possible and a retry's delay is left out. The delay is
  in TaskStore.
* One slot and four ids in DispatchSettles are a run, a full queue of two and a task in the
  fetcher's hands. `Stoppable` and `RetriesOf` (Dispatch) keep that small: users stop the first
  task and give only that one a retry; ids are claimed in any order, so it may be the one that
  runs, waits or is held up.
* One handler between commit and nudge is enough for a signal to be absorbed: the
  signal stays queued while the next handler commits.
* `WorkerPool.cfg` uses a VIEW that leaves out `reports`: no step of `PoolNext` but
  the disappearance of a report reads them, and no fair step changes them alone, so
  the quotient has the same behaviours.
* Two ids in Scheduler are two definitions, or one and a child of it.
* Four callers in MemoryLock: a holder that overran, two takers of its lease, and a
  call with the token of another. Three moments and a lease of one make one lease follow another
  and run out; symmetry is not used, because `MutualExclusion` is a temporal formula.
* StoreTx: a transaction and two calls waiting for its connection is the most that
  matters for who gets it next; one of them a firing, which Shutdown does not wait for.
  `MCOffered` offers the calls that meet on one definition and its child.
* Presence: two handlers may hold heartbeats of the worker and a third one is refused or
  lost; a minute of three ticks, two requests a minute and a sweep at three idle ticks
  make every order of refill, refusal and sweep happen. `Stale` and `Delay` give an entry that
  is at the threshold while a List is late.
* Dashboard: two refreshes in flight overtake each other, three acts allow turning
  auto-refresh on and two changes or failures after it; three rows in pages of two have a
  full page, a partly filled one and one beyond the end.
* Symmetry is used on workers or slots in runs of safety properties only.

## 5. Fairness

Goroutines and handlers that can run do run (weak fairness of the fetcher, of each
executor, of both halves of a pull and of the handling of reports). No fairness is given to
commands. That a command ends by itself (`CommandsEnd`) is the hypothesis of `Settles`; that a
killed one ends (`KillsEnd`), which holds unless a process outlives the shell with the output
open, that of `ShutdownEnds`, `StopReaches` and `ExpiryCounts`. No fairness is given to anything a user,
a fault or the network may do. In Scheduler the ticker keeps firing, Go's `select`
picks among ready cases at random and so does not pass over the end of the context
for ever (strong fairness of `Stopping`), the database does not refuse every single
listing (strong fairness of `ListDefs`), and the server is not restarted for ever.
In StoreTx a call waiting for the
connection gets it if it is free again and again (strong fairness of `Take`: database/sql
picks among those waiting, none of them for ever last), and one that holds it goes on. In Dashboard the timer
fires while it is on and the server answers; that a refresh fails is left to chance and
bounded by `MaxActs`. `RestartedSpec` assumes on the contrary a server that restarts again and again, to
show that even that recovers nothing.

## 6. What is proved

`TaskStoreProofs`, for all constants that satisfy `StoreConstants` (any workers, any
integers as max_retry, any bounds):

* `TypeCorrect`, `OwnershipHolds`, `CronNeverRunsHolds`, `RetryBudgetHolds`:
  `Spec => []...` of the run's invariants;
* `ClaimIsExclusiveHolds`, `StopIsStickyHolds`, `DeletedStaysDeletedHolds`,
  `RunningIsAccountedHolds`: `Spec => ...` of its step properties.

None of the invariants is inductive alone. That a pending row has no owner keeps a
worker's report from reaching it; the report that names no worker does reach it, and
that such a row turns only into `success` or `dead`, never into a retry, needs that a retry is
written on a running row only. That a running row has an owner needs that a claim names a
worker, and that a cron definition is never running that `Due` tests the type. `StoreInv`
says that every row is `Good` (well typed, owned, template, budget together). Row
lemmas show what each operation writes to be `Good` and a permitted `RowStep`; table
lemmas (`ReplaceRow`, `ReplaceRows`) lift that to the table; `StepSafe` has one case
per operation. Action properties follow from `RowStep`.

`MemoryLockProofs`:

* `LockTypeCorrect`: the type invariant, strengthened by the fact that whoever
  reads or writes a found entry has found one;
* `MutualExclusionHolds`: in a behaviour in which every state is `Disciplined` (every holder is
  within the lease its own Acquire was given, and the callers inside a call differ in their
  tokens) there are never two holders. It is a formula about behaviours, so the proof carries
  `Shape` along `[]Disciplined`: the entry in the map is the holder's, its expiry is the
  holder's own, and an entry found earlier that has been released and stored again is
  nobody's to take over. A lease may begin at any time, the tenth as well as the first.
  `LockSpec` has no fairness, so a behaviour that is disciplined up to some state may stop
  there: what holds of whole behaviours holds of every disciplined prefix. Without discipline
  two may hold: an expired lease is tested and overwritten with no synchronisation;
* `ReleasableHolds`, without that hypothesis: an entry in the map always has a caller that
  will still release it. It is not inductive: a caller with the right token may have loaded an
  earlier entry, find a foreign token there and leave. The strengthening (`Kept`) asks for
  one that has not looked yet or has looked at the stored entry.

`PresenceProofs`, first part: the limiter, for any addresses and any limit, minute and idle time that satisfy
`LimiterConstants`:

* `LimiterTypeCorrect`: buckets stay between empty and full;
* `LimiterIsTokenBucket`: `LimiterSpec => IsTokenBucket`. Each operation maps to a step of
  `TokenBucket` through `Refilled`: `Allow` to `Admit`, `Deny` to `Refuse`, `LimiterTick` to
  `Refill` and `Cleanup` to nothing. The sweep is invisible because TTL is no shorter than a
  minute, so what it forgets is full (`IdleIsFull`); that is the only use of the assumption,
  and the code's two hours are far from it.

`PresenceProofs`, second part: the registry, for any workers, handlers, addresses, threshold and delays:

* `PresenceTypeCorrect`, and `PresenceIsTokenBucket`: every step of the composition is one of
  the limiter or leaves it alone (`LimiterPart`), so the refinement carries over;
* `HeardIsListedHolds`, `ShownIsAliveHolds`, from `PresenceInv`. Neither is inductive: that
  a worker heard in time is not pruned needs that its entry is at most `Delay` older than
  the newest stamp heard (`NearlyNewest`), and that a shown worker has called needs the
  same of a POST and its stamp, in a handler (`HandlerWasSent`) and in the registry
  (`EntryWasSent`).

`StoreTxProofs`, for any callers, bounds and offered operations that satisfy `TxConstants`:

* `TxIsTaskStore`: `TxSpec => IsTaskStore`. With `disk` for `tasks`, `Execute` and `Commit`
  are steps of `TaskStore` and every other action is a stutter: a crash or a cancelled
  context between two statements shows nothing of them;
* `ConnectionIsHeldHolds` and `SnapshotIsCurrentHolds`.

The properties do not carry themselves. `TxInv` adds that the draft of a call that has run
its statements is what one operation makes of the table as it still is on disk
(`WrittenIsWhole`; this is what makes `Commit` a step), and that a child waiting to be
created still names a definition (`Firings`), whatever is deleted meanwhile. The
second rests on `TypesKept`: ids only grow and no operation changes a row's type. The
liveness `CallsEnd` is left to TLC.

`WorkerPoolProofs`, for any workers, tasks and claims and any finite set of slots:

* `PoolTypeCorrect`, and `ActiveIsLiveHolds`: an entry of the active map is a run of its id
  that no stop list has cancelled. A run deletes by id whoever registered it, so what has to be
  invariant (`Hands`) is what a slot may be in each phase; above all, a run that is `starting`
  is not known to anyone and so was never cancelled by a stop list, otherwise `register` could put a cancelled
  run into the map.

`SchedulerProofs`, for any definitions, handlers, firings and restarts, from the safety part
`SchedSafety` of the specifications the run and the findings use:

* `SchedTypeCorrect`, `EntriesFollowHolds` and `SchedulerImplementsStore` (`SchedSafety =>
  StoreSpec`).

`EntriesFollow` speaks of a loop at rest and a step into rest comes from a resync half done.
`SchedInv` compares the definitions with `Target`, the entries the engine will have when the
resync under way is over, whenever no nudge is on its way (`Settled`). A handler that
has committed a change counts in `handlers` until it nudges, and its nudge in `sig` until the
loop lists again; a deletion does not nudge, which is why the entry of a deleted row may stay.
The refinement needs that the parent a firing names is or was a definition, although the
entry may be of a deleted row (`Known`): ids are not reissued and types do not change.

`DispatchProofs`, for any workers, slots, tasks, claims and any set of faults `Env`:

* `OneRunPerClaimHolds`, `LiveRunIsOwnedHolds`, `AttemptsCountedHolds`,
  `StopsReachBackHolds` and the step property `OutcomeIsFinalHolds`, under all faults;
* `DispatchImplementsStore` (`DispatchSpec => Spec`): what handlers, users and faults do
  to the table together is a behaviour of `TaskStore`, so all that is proved of it holds here;
* `RunningIsLiveHolds`, under the hypothesis `Calm` that `Env` has no fault that ends a run or
  loses a message. Without it the property is false: a lost answer leaves a row running for
  ever, as the finding of `ClaimSweep` shows. Users stop, restart and delete as they like.

`DispatchInv` is the invariant. It was model-checked
before it was proved. `StoreInv` and `PoolInv` come from the modules below. `Once` follows a claim
through the places it can be in: the fetcher's hands, the channel, a slot, a report; each
step of the pool moves it from one to the next or loses it. `RowInv` relates places and rows:

* `Ledger`: until a restart only the last claim of a task is out, its row names the worker,
  and every claim but the one that is out has been counted;
* `Budget`, also after a restart: the retries counted and the claims that are still out are together
  no more than the claims made. After a restart several claims can be out at once, and
  this count is what keeps `AttemptsCounted` true when their reports come in;
* `StopNoted`: a row on a stop list was stopped at its last claim.

`StopsPast` and `StopsHeld` say that each id on a stop list in a fetcher's hands was stopped at
a claim not older than any copy its process has. That is what makes a late list harmless:
the fetcher works through the list before it pulls again. `RunningIsLive` needs in addition that every run
of a running row's last claim is not cancelled, which follows from `StopsReachBack` and
`StopsPast` (`LastIsUncancelled`).

`DashboardProofs`, for any filters, page sizes, slots and bounds:

* `PagesAreExactHolds`. Its core, `PartitionHolds`, is about any finite table, any filter and
  any size: the pages that `listTasks` offers are the matching rows in order, each once;
* `BarIsRight`: the page bar is right for any page of any number of pages (`BarsAreRightHolds`
  are those the run tries);
* `PageIsBarPageHolds`, from the invariant that a page without a bar element never
  shows a bar.

Laying pages end to end is recursion (`FlattenSeq`), and the provers cannot instantiate an
induction theorem. `LeastNat` stands in for it: a set of naturals that is not empty has a
least element, so a least counterexample is shown not to exist (`FlattensOnce`,
`FlattenIs`). Two assumptions were made explicit for these proofs: `Unset` is
not a number, and the page sizes the bar offers are positive.

## 7. What is only model-checked

Every invariant and every step property of the passing runs is also proved. Model-checked
only are the temporal properties that need fairness, which are out of the prover's reach:
`ShutdownEnds`, `Settles`, `StopReaches`, `PausedLeaves`, `EnabledArrives`, `SchedulerStops`,
`CatchesUp` and `CallsEnd`; and the three findings, which are counterexamples.

## 8. What is not modelled

* Names, commands, outputs, timeouts in seconds, created and updated stamps; Get and the
  detail page.
* The process tree below a command, but for the hypothesis `KillsEnd`. A crash of a worker is
  taken to end its runs; in reality a shell may survive it.
* Floating point: the limiter's tokens are whole units. A server restart in Presence, which
  empties registry and limiter and is again what `PresenceInit` describes.
* Overflow of page numbers and of `timeout_sec`; the migration of an old database.
* Authentication, TLS, audit, logging, HTML and scripts: filters and output that decide
  nothing about a task. A request they turn away is a lost one.
* When a cron expression is due, and ticks that fall into a resync.
* Two processes with one worker id.
* A handler that commits after its client has given up and pulled again.

## 9. Plan

Order of work, the most important behaviour first; 1 to 8 are done.

1. `TaskStore`, its invariants and step properties, and their proofs.
2. `WorkerPool`, alone.
3. `Dispatch`, the two together, with faults and fairness.
4. `MemoryLock` and its mutual exclusion.
5. `Scheduler` over `TaskStore`.
6. `StoreTx`: the transactions over the single connection, with rollback, cancelled
   contexts and the life of the server, implementing `TaskStore`.
7. `RateLimiter` implementing `TokenBucket`; `Presence` over it; `Listing` and `Dashboard`.
8. Proofs of all of these (done).
9. Cron dispatch: `Scheduler` and `Dispatch` together, for pauses that race claims and runs
   of children.
