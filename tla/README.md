# A verification model of tradeck

tradeck is a self-hosted market-data and research platform: a FastAPI **backend** over
PostgreSQL/ClickHouse (`apps/backend`), a FastAPI **quant** service that back-tests and mines
strategies (`apps/quant`), a data **mock** (`apps/mock`) and a Next.js **web** application
(`apps/web`). This directory holds TLA+ models of its own core logic, TLC runs on small
instances, and machine-checked proofs for all instances. Paths below are relative to the
repository.

## 1. Inventory

| component (source) | state it keeps | operations | talks to | hard behaviour | correct means | here |
|---|---|---|---|---|---|---|
| task registry (`apps/quant/app/tasks.py`) | dict of tasks: status, result/error, timestamps, progress, cancel token | create, poll, cancel, mark\_\*, set\_progress, has\_capacity, lazy sweep | task endpoints, executor coroutines, pool threads | no lock, two kinds of thread; lazy TTL; two-step writes | statuses end once and for all, capacity, no forgotten or abandoned task, whole answers | `TaskRegistry`, `TaskLifecycle` |
| task endpoints (`apps/quant/app/api.py` 249-347, 349-498) | none of its own | run, poll, cancel, synchronous backtest, AI generate/tweak, executor coroutines | registry, worker pool, prefetch | awaits between the capacity check and create; exceptions outside the try | every task ends; cancellation reaches its worker | `TaskRegistry`, `BacktestService` |
| worker pool (`apps/quant/app/worker.py`) | semaphore of the current loop; per call a thread, a spawned process, a queue, a future | run, message loop, drain, terminate, join | event loop(s), threads, child processes | crashes, half-written messages, cancellation, future bridge, several loops | slots kept, children bounded, no orphan, every outcome delivered | `WorkerPool`, `BacktestService` |
| matching engine (`apps/quant/app/engine/matcher.py`) | cash, positions, cooldown, trades, equity | simulate | signal matrix, limits, minute bars | deferred exits, cooldown and slots over many days; costs and lots | books balance, no overdraft, slots, no early re-entry, deferred exits leave | `Matcher` |
| limits, minute prices (`engine/limits.py`, `minute_fill.py`, `minute_trigger.py`) | none | pure functions of a day's bars | matcher | rounding rules | - | inputs of `Matcher` |
| parameter search, walk-forward (`runner.py`, `engine/optimizer.py`, `walkforward.py`) | none | grid, windows, scoring | worker pool, an event loop per combination | pool shared with the API's loop | children stay bounded | only its use of the pool |
| second and third engine (`engine/candidate_exec.py`, `minute_replay.py`) | positions per candidate / per minute | sim\_mode=full, minute replay | worker | cooperative cancel | as the matcher | not modelled |
| universe resolution (`universe.py`) | list caches with a lock per market, negative entries | resolve, refresh | backend | single flight, short life of failures, stale fallback | one fetch per expiry, every caller answered | `UniverseCache` (the cache; the index tiers have no state) |
| strategy files (`api.py` 556-659, `strategy/`) | one .py per strategy, .bak while saving | save, load, registry scan | registry scan, AI generator | rename/write/try/rollback; crash; concurrent saves | a failed save loses nothing | not modelled (see 3) |
| factor mining (`mining/`) | candidates parquet per user | save, publish, list | strategy registry | read-modify-write of one file | published stays published | not modelled |
| factor store (`factors/`) | JSON file per factor, registry | create, transition, delete, DSL | API | read-modify-write | status moves only along its edges | not modelled |
| local caches (`data/store.py`, `factors.py`, `client_minute.py`) | parquet per symbol | load, merge, tmp + replace | backend | tmp named by pid, shared by threads | a reader never sees half a file | not modelled |
| market matrix, statistics, adjust, screener, builtin strategies | none | array formulas | - | numeric only | - | not modelled |
| accounts (`apps/backend/app/api/auth.py`) | users, sessions, invite check, failure table | register, login, logout, me | PostgreSQL | check, await, record | one first administrator, counted failures | not modelled |
| service tokens (`_service_auth.py`) | token cache, usage rows | identify, require, quota | PostgreSQL | fail-open, fire-and-forget count | usage is counted | not modelled |
| database mode (`database_mode.py`, copies in `apps/mock`) | marker row | bind, verify | PostgreSQL, collector, seed jobs | processes binding one empty database, deaths between statements | one mode per database, no mock over live data | `DatabaseMode` |
| mock service (`apps/mock/app/seed_mock.py`, `mock_data.py`) | generated rows, seed runs, a manifest per run | seed, clean | PostgreSQL, database mode | clean of many short transactions beside jobs and writers; dies half way | nothing live is lost; a cleaned run is gone | `MockSeed` |
| data endpoints, deployment | none | SQL reads, generators, configuration | - | none | - | not modelled |
| watchlist (`apps/web/src/lib/watchlist.ts`, the workbench page and its dialogs, the strip of the home page) | localStorage snapshot with revision and writer; a view per tab | add, save, remove, groups, migrate, merge, storage events | tabs | tabs without Web Locks, events and answers in another order than the writes | no mutation lost or doubled, pages converge | `WatchlistOps`, `WatchlistStore`, `Watchlist` |
| workbench requests (`apps/web/src/app/screener/page.tsx`) | quotes, market list, request ids, aborts | refresh, select a type | data endpoints | answers overtaking each other and the user | what is shown is what was asked for | `QuoteBoard` |
| backtest tab (`apps/web/src/components/quant/backtest-tab.tsx`) | taskRef, stopping, result | run, poll, stop, fallback | task endpoints | retries, late answers, stop | a run ends, a stop keeps the result | `BacktestTab` |
| strategy workbench (`apps/web/src/components/quant/ai-generate-tab.tsx`) | editor, loaded id, busy mark, a loop per AI task | load, import, generate, tweak, stop, save | task endpoints, strategy files | loads without a sequence check, loops that outlive their stop | a save replaces the strategy it derives from | `AiTab` |
| conversation panel (`apps/web/src/components/ai/chat-panel.tsx`) | session shown, messages, busy mark, stream | open, send, stop, delete | external agent service | callbacks that do not ask what is shown by now | busy has an end | `ChatPanel` |
| other web pages, proxy routes | last answer of a fetch | fetch, render, forward | all services | few; named in 6 | - | not modelled |

`PROJECT.json` lists the same parts with their sources, and every hazard at its line with the
property that covers it, or the reason why none does.

## 2. Plan

Built, in the order of importance: the task life (`TaskLifecycle`, `TaskRegistry`,
`TaskRegistryProofs`), the pool (`WorkerPool`, `BacktestService`, `BacktestServiceProofs`), the
matcher (`Matcher`, `MatcherProofs` over `FiniteTheorems`), the watchlist (`WatchlistOps`, `WatchlistStore`, `Watchlist`,
`WatchlistProofs`), the parts of the web application that race with the user (`QuoteBoard`,
`BacktestTab`, `AiTab`, `ChatPanel`, with `PageProofs`), the list cache
(`UniverseCache`, `UniverseCacheProofs`), the database and its generated data (`DatabaseMode`,
`MockSeed`, `MockSeedProofs`).

    TaskLifecycle!RacingSpec <= TaskRegistry   (refinement, proved for any interleaving)
    BacktestService = WorkerPool + one-step registry
    TaskLifecycle!Spec <= BacktestService      (refinement, proved)
    WatchlistStore <= Watchlist                (refinement, proved); both over WatchlistOps
    MockSeed = DatabaseMode + rows, manifests, cleans
    MCSafeParts = Matcher | Watchlist | MockSeed
    MCLiveParts = BacktestService | QuoteBoard | BacktestTab | AiTab | ChatPanel | UniverseCache

Left, in this order:

1. Strategy saving (`api.py` 600-659) and the factor store (`factors/store.py`): neither locks nor
   recovers, so what could be stated of them today are counterexamples, not promises.
2. Minute replay, should it grow rules that carry over days as the matcher's do.

## 3. The modules

**`TaskLifecycle`** is the abstract promise of the docstring of `tasks.py`: a task is registered
within the capacity, starts, ends in one of three ways for good, and is forgotten after that (`Spec`).
`RacingSpec` is what is left of it when methods overlap: a failed task may still be started
(`Restart`: `mark_running` saw it pending before a sweep failed it) and a terminal status may be
written over by another one (`EndAgain`).

**`TaskRegistry`** is the registry with its callers, one step per field access that another thread
can tell apart. The event loop runs admission, `create`, `mark_running` and `mark_*`; the
endpoints `api_backtest_task_poll` and `_cancel` are plain `def` functions, which FastAPI runs on
its thread pool: these are the `Clients`. `pc`, `op`, `arg`, `size`, `expired`, `target`, `seen`
are the local variables of a method under way. A walk over the dict remembers the size it began
with, as CPython does, and fails when it changed. Nothing keeps two methods apart: the docstring of
`tasks.py` (lines 17-19) claims that they are naturally serial, but plain `def` endpoints run on pool threads.
Where that claim fails is findings 1, 7 and 8; every other property of the module is stated without
it, and all but EveryTaskSettles are proved. Simplifications: time is one bit per task (`overdue`); since the
TTL is half an hour, a clock runs out only while no method is under way. A client can name a task
only when its POST was answered, and by then the loop has run the first step of its coroutine
(`Known`). A pending task can therefore only pass its TTL when the wall clock jumps or the host
sleeps, which `time.time` allows. The AI tasks are created without prefetch and discard the
result of a cancelled task; that is `AITasks`.

**`WorkerPool`** follows one call of `WorkerPool.run` through its coroutine, its thread, its child
and the queue between them. A message is in the child's buffer, then in the pipe; it dies with the
child while it is in the buffer, and a crash may leave a torn message, whose reader waits for
ever (the parent holds the writing end). `posted` is the callback given to `call_soon_threadsafe`:
a callback that carries an exception reads the handler's variable, which is gone when the handler
has ended, so it is `lost` then. The semaphore is named by the job whose call created it, and the
two assignments of `_semaphore` are one step. `timeout` has no caller and is left out.

**`BacktestService`** composes the pool with the registry. A registry method is one step here;
`TaskRegistry` takes it apart. A synchronous request is answered with the outcome of its run
(`BacktestWorkerError` becomes an answer with an error); when its child could not be spawned, the
exception is not one the endpoint catches, and it is answered 500 (`"raised"`). Tasks, synchronous requests and the combinations of a search are
jobs. `mark_running` comes before the slot is asked for, so a running task may be waiting.

**`Matcher`** is `simulate` for the CN market, whose rules are the strictest (whole lots, T+1,
price limits), with the corresponding switches on, as by default. A day is `Dawn`, one visit per
position (`Sell`), `Select`, one visit per candidate (`Buy`), `Dusk`; after the last day the
positions are closed on paper (`Liquidate`: cash and positions stay, as in the code). The market
data is drawn when it is read; a configuration says whether there is a `minute_loader`, without
which `signal_next_minute` leaves at the daily price. Integers stand for money, and every part of a cost is rounded down
to the unit; rates are in 1/100000. The three risk lines that are checked before a signal share
one label. The limits and the minute bars enter as facts of a bar (`limit`, `minute`, `fill`); a
day with minute bars but no usable price counts as one without. The exits of a day may be visited
in any order, a superset of the insertion order of the dict. Trade records, equity, execution
statistics, progress and cancellation callbacks are left out.

**`WatchlistOps`** says what a stored value means to a reader and what each domain operation makes
of a list. The text of an item's fields is one stamp, the three default groups are one, and custom
groups are named by the suffix of their slug. **`WatchlistStore`** is the promise: a mutation is
applied to the list as it stands, at most once, raising the revision by one, and answered as
applied only if it was. **`Watchlist`** is the code under it: tabs that share localStorage, one
state machine per call of `mutateWatchlistState` with every point at which another tab may get in
(between a read and a write of one turn only without Web Locks), the fallback's second look, its
merge and its retries, the migration of the old array, the storage events on their way, and what
the two pages do with an answer, an event, an open editor or dialog.

**`QuoteBoard`** is the quotes and the market list of the workbench page with effects, timers,
aborts and request ids; an answer may still arrive after its abort. **`BacktestTab`** is
`runBacktest` with its poll loop, the retries and the fallback, and `stopBacktest` with the cancel
requests of its effect; a task is live, ended in one of the ways, or gone. **`AiTab`** is the one
editor that loads, imports, the AI's answer and typing write to, the loops of `runTask`, and the
save with its `overwrite_id`, including what the service then makes of the user's strategies; a
text is known by the strategy it derives from. **`ChatPanel`** is the session shown, the last
message, the busy mark, the stream and the callbacks that write to them; what the agent service
answers is external.

**`UniverseCache`** is the list of a whole market: both looks at the cache, the lock and its queue,
the two lives of an entry, failures. Time is ticks. The index tiers keep nothing and are left out.

**`DatabaseMode`** is `ensure_database_mode` for any number of processes, statement by statement
under its advisory lock; a process may die between any two and PostgreSQL rolls back.
**`MockSeed`** adds what is at stake: the rows a seed job writes over, the manifest it keeps, and a
clean that traces manifests back and restores or deletes row by row while jobs, cleans and other
writers go on. Simplifications: a row is known by its key; the marked rows and the manifests are
read in one step, and all rows are compared in one step, where the code goes table by table (each
row is then looked at again under its lock, which is where the code's safety lies); the skip of
manifests and tables a version of the program does not know (`mock_data.py` 905-913) is left out,
as one version writes and reads them here; each row is a batch of its own;
`ensure_metadata_table` does not fail. Jobs exclude each other from the alteration of
`movers_cache` to the commit. The generated values, the audit, the clean of data from before there
were manifests and of duplicated movers are left out.

The save of a strategy file and the write-back of the candidate, cache and factor files are not
modelled: nothing in that code prevents or repairs the races the hazards name (no lock, no recovery
at start), so a model would only restate the order of the file operations. The accounts and the
quota are decided by the isolation level of PostgreSQL and by a count that is late on purpose. Most
of the web application is tables, charts, forms and pages that fetch once and render; it has no
state that steps of two actors could bring out of step.

The `*Proofs` modules hold the theorems; the **`MC*`** modules the constants of the runs. **`MCSafeParts`** and
**`MCLiveParts`** put parts that share no state into one run each, those of which liveness is
claimed into the second: the first state chooses a part, and only that part moves. `FiniteTheorems` knows nothing of this system: it has what the proofs need of smallest
sets, least numbers and sums over finite sets.
Definitions marked "Mutant" restate an action with a plausible mistake; no behaviour uses them.
They are what shows that a property notices: with the mutated action in place TLC violates it.

## 4. The runs

| run | instance | question and result |
|---|---|---|
| `registry_threads` | a backtest task with its prefetch and an AI task, capacity 1, one pool thread and the loop, steps interleave (0.55 million states) | What survives the missing lock: ActiveBound, ForgottenHaveEnded, NoZombie, CancelReachesWorker, RacingLifecycle, and, with fairness, EveryTaskSettles. All hold. |
| `registry_final` | the same | TerminalIsFinal is violated: finding 1. |
| `registry_answer` | the same | AnswerIsWhole is violated: finding 7. |
| `registry_raises` | the same | NoServerError is violated: finding 8. |
| `live_parts` | seven parts, each on its own with its fairness (60 thousand states; bounds below) | Backtest service (a task and a synchronous request, one slot, one progress message): SlotsAccounted, ChildrenBounded, NoOrphans, CancelStopsChild, ResultFreesSlot, SettlesUnlessLost. Workbench page: QuotesMatchSymbols, LoadingBacked, ListMatchesType. Backtest tab: StopWhileWaiting, RunEnds. Strategy workbench: LoadedTogether, LoopsEnd. Conversation: BusyBacked, ChatBusyEnds. Market lists: FetchesSpaced, CallsAnswered. All hold. |
| `service_hang` | one task, every strategy ends | FailureIsMarked is violated: finding 2. |
| `pool_unread` | one task, two progress messages | NothingLeftUnread is violated: finding 3. |
| `service_search` | a task and a combination on loops of their own | ChildrenBounded is violated: finding 4. |
| `service_torn` | one task, every strategy ends | DeathIsNoticed is violated: finding 5. |
| `safe_parts` | three parts, each on its own (2.2 million states; bounds below) | Matcher (two symbols, four days, six kinds of bar, four configurations): Books, Solvent, WithinSlots, DeferredLeaves, NoEarlyReentry. Watchlist (two tabs, one symbol, one name, two calls of any operation; the second tab may show the strip, the first may close; nothing stored yet, the old array, or a list with a group of its own; locks or none): StorePromise, PagesConverge, SymbolsKept, ItemsHaveGroups. Database: OneMode, OthersKept, CleanedIsGone. All hold. |
| `matcher_foresight` | one symbol, three days, daily bars | NoForesight is violated: finding 6. |
| `watchlist_overwrite` | the watchlist of `safe_parts` | AdditionsKept is violated: finding 9. |

Bounds. Two tasks at capacity 1 make the registry full, let one task be forgotten while another
is created, and let a sweep run into a finish; a pool thread and the loop are the two kinds of
thread, and every race found needs just one of each. One of the tasks is a backtest task, so its
request asks `has_capacity`, prefetches, and creates several steps later, when the AI task may have
taken the room: the stale check is in the run. `MaxAdmitted` bounds the requests in their
prefetch; an admitted request touches nothing until it creates, so one of them is enough. In the pool two jobs for one slot give a waiter; `MaxProgress` is 1 where
the drain must suffice and 2 where it must not. In the matcher, four days are what it takes to
buy, defer or stop, wait a day, and act; the two symbols compete for one slot or for the cash of
two; the six bars hold a rise, a fall, either limit, a suspension and days with missing, quiet and
confirming minute bars, and one of the four configurations has no minute loader.

In the watchlist two calls make every pair of operations meet, in one tab or in two; `Attempts` = 2
(`FALLBACK_MUTATION_ATTEMPTS` is 4 in the code) lets a call fail once and succeed, or fail for good. What more calls could add is
what the proofs are for: all four properties are theorems for any number. In the other
parts the bounds are: four calls for quotes and two changes of symbols or type (a request is overtaken twice); two
runs, two stops, giving up after two failed polls with the warning after one; two loops, three uses
of the editor and two strategies (a load overtakes a load, a stopped loop outlives the start of the
next); three sessions, one of them new, and three clicks; three callers (one fetches, one waits, one
comes late), four ticks with lives of three and one, five calls; and a live service with two seed
jobs and one clean over two rows, one stamped and one marked, with two texts. MockSeed was also
explored on its own with two cleans (1.6 million states) and with three jobs (1.0 million).

Deadlock is not checked: a registry whose ids are used up, a service whose
jobs are over and a simulation past its last day rightly stop, and so do tabs and pages whose user does nothing more.

Fairness. Threads and processes are scheduled, and a ready callback of asyncio runs (weak
fairness on the steps of a thread, of the loop, and on flushing what a child has put; strong
fairness on the start and finish of coroutines in `TaskRegistry`, as the loop serves its ready
queue in order and is taken up by other requests only in between). Nothing obliges a client to
call, a child to report, or a strategy to end: SettlesUnlessLost assumes the last explicitly, and
`EndingSpec` (used only to show that findings 2 and 5 hang although every strategy ends) adds it.
In `TaskRegistry`, ExecFinish stands for the worker's outcome, which is fair only because
`BacktestService` shows when it comes; EveryTaskSettles is relative to that. On the web side a
request settles (weak fairness on the steps that await one, as the browser and the proxies give up
in the end), timers fire, and the service ends its tasks, which is EveryTaskSettles. A loop of the
strategy workbench needs strong fairness on the poll that brings the task's end, because polls that
find it still at work would otherwise go on for ever; that the task does end is EveryTaskSettles again. The agent service is assumed
to answer and to end its streams; `get_json` times out after 30 seconds. Nothing fair is assumed
of users, of the quotes, of the watchlist or of the database: their properties are safety.

## 5. What is proved

`TaskRegistryProofs`, for any finite set of tasks, any clients and any limit, from
`RegistryAssumption` alone: TypeOK, ActiveBound, ForgottenHaveEnded, NoZombie, CancelReachesWorker.
The inductive invariant is `IInv == Typed /\ Safe`. ActiveBound is not inductive: `mark_running`
checks and writes in two steps, so a task that a sweep fails in between becomes running again and
the count grows without a `create`. `CountOK` therefore counts such a task as `Reserved` from the
check on; this works because only the event loop starts and creates tasks. `TaskOK` relates the
status, the coroutine and the token of a task, `ThreadOK` what a method in progress still knows of
its task, `SweepOK` what a sweep knows of the tasks it is going to delete: that they ended and are
not about to be revived. No theorem assumes that methods exclude each other.

The sixth is ImplementsRacingLifecycle: whatever the threads do, the phase of a task moves as
`RacingSpec` says. `RaceOK` adds to the invariant what a method that checked a status may find when
it writes: `mark_running` finds its task pending or failed by a sweep, and a sweep that is about to
fail a task has picked just that one. Each write of a status then is a move of the lifecycle, a
`Restart` or an `EndAgain`; every other step leaves the phase of every task as it is. So a race can add
a late start and a second end, and nothing else: no task is registered beyond the capacity or twice,
completed before it started, forgotten alive, or brought back. Where the docstring's promise needs
more (one terminal status for good, whole answers, no exception), the code does not give it:
findings 1, 7 and 8.

`MatcherProofs`, for any symbols, bars, configurations, days, capital and rates, from
`MatcherAssumption`: TypeOK (positions are whole lots at a real price), WithinSlots,
DeferredLeaves, NoEarlyReentry, Books; and Solvent under the further assumption that a sale of at least
`LotSize` units of money costs no more than it brings (`v >= LotSize => SellCost(v) <= v`). Prices
give that in practice, not the code: a position sold for less than the minimum commission of 5 yuan
would lower the cash. The invariant is `IInv == Typed /\ Frame /\ SlotsLeft /\ CooledDown /\
Deferrals`. `SlotsLeft` counts the slots still to be used with the positions held, `CooledDown`
says that a stopped symbol is in the cooldown until a quiet day, `Deferrals` that what the exit
pass has visited is settled and that a deferral is later than its entry (so T+1 cannot hold it).
Books is inductive with it: a step changes one position, so its sum over the positions changes by
one term. That this is so is the work of `FiniteTheorems` (SumRemove, SumSame): MapThenSumSet adds
in an order it chooses, and that the order does not matter is shown on a smallest set for which it
would.

`BacktestServiceProofs`, for any jobs, pool size, messages and assignment of loops, from
`PoolAssumption` and `ServiceAssumption`: TypeOK, SlotsAccounted, NoOrphans; and ChildrenBounded
under `OneLoop` (every job calls the pool from the same loop), which finding 4 shows to be needed.
`IInv == Typed /\ Stages /\ Slots /\ Counts`: `InStep` ties the coroutine, the thread, the future
and the child of a job together, `SemOK` says of each semaphore that its free and held slots add
up and that its queue holds waiters of its own, each once (a slot may be granted to a coroutine that
has not resumed, so it counts as held from then on), `CountOK` bounds the progress still unread by
what was sent. Three theorems go beyond the runs. QueuedWaitForOthers: while a call queues, `PoolSize` others
hold a slot of its semaphore, so no wakeup is lost, though a holder may never return (findings 2
and 5); `QueueOK` says that a call that queues is in the queue it asked. OutcomesAreTold: a task is shown as cancelled when it
was cancelled and only then, any other as done or failed according to its run and only when that is
over, and a synchronous request is told what its run came to, or a server error when its child was
not spawned. ServiceImplementsLifecycle: the tasks
of the service follow `TaskLifecycle`. Their invariants (`QueueOK`, `TokensOK`, `ToldOK`) were
checked by TLC with two tasks and a request for one slot (0.38 million states) before the proof.

`WatchlistProofs`, for any tabs, calls, symbols, names and first lists, from `NobodyAssumption`,
`AttemptsAssumption`, `FirstAssumption`: StorePromise, the refinement of `WatchlistStore`, with its
mapping of a call's stage to open, applied or refused; SymbolsKept, ItemsHaveGroups, PagesConverge
and the types. `LockInv` says that whoever is between its read and its write under a lock holds it
and has read the list as it still stands. `KeptInv` says that what any call is about to write, or a
merge has saved, contains every symbol of the first list that nobody asked to remove (`kept`), which
needs no locks; and with locks also every symbol whose addition was answered as applied and that
nobody has asked to remove since (`added`), because whoever writes has read the list as it stands.
Without locks the second part is false: finding 9. `ListInv` does the
same for groups. `ConvInv` says that nothing shown, on its way or about to be shown is ahead of the
store, that what has the store's revision is what is stored, and that a page which is behind still
has the stored list in its queue.

`PageProofs`: QuotesMatchSymbols, LoadingBacked and ListMatchesType for any symbol sets, types
and bounds. The invariant says that a request whose number is the current one asks for the symbols on
the page and is not aborted. Of the three tabs: StopWhileWaiting (a run stopped asleep stays asleep and
marked until it ends), LoadedTogether and BusyBacked. `UniverseCacheProofs`: FetchesSpaced, from `LifeAssumption`,
for any callers and lives: whoever fetches holds the lock, alone, and the cache holds what the last
request brought.

`MockSeedProofs`, for any processes, jobs, cleans and rows, from `ModeAssumption` and
`SeedAssumption`: OneMode, OthersKept, CleanedIsGone, and that a row which ever held live data is
never gone. `IInv` has two halves: in a mock database no row has ever held live data (`owned = {}`), because nothing
but a mock process was ever bound to it; elsewhere no job is at work (`Quiet`), at most one early
seed is left, whatever of it still stands can be taken back as it was, and every clean that has
selected will do so (`Undone`, `Backed`).

CleanedIsGone says that a clean which has skipped nothing leaves nothing of the runs it takes as
cleaned, in any stamped row, whatever other jobs and cleans do meanwhile. Locally it is not true
that a row looked at once stays clean: a clean puts back what a manifest remembers, and a manifest
remembers generated content too. The invariant, `OrderInv`, says that there is an order `t` of the
commits with these parts. `Ordered`: a manifest remembers only what committed before its run.
`Prefixes`: runs that are complete, and the choices of all cleans, are taken in the order of their
commits. `Climbs`: over the content of a complete run only runs with a higher number have committed
(a job that finds a newer stamp leaves the row alone). `Unrestored`: once a run has committed after
the newest one a clean chose, that newest run's content does not come back. `Gone`: where the clean
has been, nothing of a chosen run is left, and the newest alone may be on its way into a manifest.
`Followed` ties each candidate to the chain of manifests it was found along. That a chain leads from
the newest chosen run to the oldest without leaving the choice is shown by looking at the first link
that would not (LeastNumber). Before the proof, TLC found `OrderInv` to hold with three jobs and
three cleans (0.15 million states), two stamped rows (0.31 million) and four jobs (0.50 million).

Only model-checked are the liveness properties (EveryTaskSettles, CancelStopsChild, ResultFreesSlot,
SettlesUnlessLost, RunEnds, LoopsEnd, ChatBusyEnds, CallsAnswered): liveness under fairness and
ENABLED are beyond the prover (tlapm 1.4.5 with Z3, Zenon and LS4). Every invariant and every other
action property that a passing run checks is a theorem. The prover has no induction over data with
an operator as its parameter either; where one was needed (sums, chains of manifests) it is an
argument on a smallest counterexample, which is first-order. No module with a theorem uses a
RECURSIVE operator.

## 6. Findings

1. `tasks.py:130`, TerminalIsFinal: a terminal status is overwritten when a cancellation on a pool
   thread and a finish on the loop both pass the check.
2. `worker.py:304`, FailureIsMarked: the callback of a failure reads `e` after the handler unbound
   it; the future is never resolved, the slot never returned.
3. `worker.py:358`, NothingLeftUnread: the drain reads two messages, the result may be the third.
4. `worker.py:253`, ChildrenBounded: another event loop gets a fresh semaphore with all its slots.
5. `worker.py:342`, DeathIsNoticed: a child that dies inside a message blocks its reader for ever.
6. `matcher.py:517`, NoForesight: under `open_t+1`, risk exits are decided on the close of a day
   and filled at its open. The tests fix this behaviour; the docs call the opposite an iron rule.
7. `tasks.py:133`, AnswerIsWhole: `_finish` writes the status before the result and the error, and a poll
   on a pool thread answers done without a result, or failed without an error. When a
   cancellation passes the check beside the end, the loop's result may be written over for good:
   `done` with result `None` for as long as the task is remembered.
8. `tasks.py:226`, NoServerError: an insertion or deletion during a sweep's walk over the dict raises
   RuntimeError, a second deletion of one expired task (`:241`) KeyError; no endpoint catches either, so the
   request is answered 500. The run shows the walk of an admission broken by the deletion of a poll.
9. `watchlist.ts:461`, AdditionsKept: without Web Locks an addition that was answered as applied is
   overwritten by a tab that read the list before and saves after the first one looked again. The
   comment at `:459` says that the replay keeps whole stale lists from overwriting.

Seen while modelling, without a run of their own. In the matcher: `signal_next_minute` without minute data fills at
the close, where the comment says the open (`matcher.py:369`); the slippage of every market is ten times the figure the
documentation gives (`matcher.py:51`, `docs/QUANT-BACKTEST.md:160`); the comment on equal weights (`matcher.py:541`) names the
slots where the code divides by the candidates it visits (`matcher.py:586`); the final value does
not contain the cost of the final liquidation that the trades report.

In the web application (the first four are behaviours of the models):

- Loading a strategy, generating a new one and saving replaces the loaded one: `loadedId` is not
  reset (`ai-generate-tab.tsx:304`, `api.py` 589-654). SaveReplacesItsOwn of `AiTab` states the
  opposite and does not hold.
- A stop while a poll is in flight, or after the fallback began, does not keep the last result
  (`backtest-tab.tsx:365`, `:405`); the configuration is remembered after a failure or a stop as
  well (the comment at `:367` speaks of success).
- A conversation begun while another is being opened can leave the panel busy with no session shown
  (`chat-panel.tsx:97`).
- Without Web Locks not only additions (finding 9) are overwritten: a rename, a new group, a removal or an
  edit of one tab can be lost to another tab's stale write in the same way.
- Every delta subscribes again with replay (`chat-panel.tsx:211`).
- A factor's diagnosis may be that of an earlier text (`factor-editor-tab.tsx:251`, `:268`, against
  `:204`), and edits typed while it is saved are lost; the list of reports opens whichever answer
  comes last; Enter in the stock search may pick from an older query's answer.

In the services:

- A clean between a job's read of a row and its lock (`mock_data.py:552`) leaves a manifest that the
  next clean restores generated content from: NothingGeneratedLeft of `MockSeed` does not hold. With
  three jobs and two cleans a row without a time stamp may so keep the text of a run that was taken
  as cleaned, which is why CleanedIsGone speaks of stamped rows.
- `apps/backend/app/main.py:7` and `:47` say that the data API does not bind the database; it calls
  `ensure_database_mode`, which binds an empty one.
- In the factor store (`factors/store.py` 237-272) two updates at a time leave file and registry
  apart; after a restart an update may keep its version with another formula; saving over a retired
  factor makes it a draft again; a diamond of composite factors is refused as a cycle (`:186`).

## 7. Running it

    tlc -workers 2 -config registry_threads.cfg MCTaskRegistry     # two to three minutes
    tlc -workers 2 -config safe_parts.cfg MCSafeParts              # two minutes
    tlc -workers 2 -config live_parts.cfg MCLiveParts              # a minute and a half
    for p in TaskRegistry BacktestService Matcher Watchlist Page UniverseCache MockSeed
    do tlapm ${p}Proofs.tla; done                                  # about two minutes each at most
    tlapm FiniteTheorems.tla
