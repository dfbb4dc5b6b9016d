# Formal models of quant_trading

TLA+ models of the quant_trading runtime (`src/src/quant_trading`), the TLC
configurations that check them on small instances, and theorems about them
that TLAPS checks. File names below are relative to `src/src/quant_trading`.

The program is a FastAPI service over one SQL database. Requests and a
scheduler submit *jobs*; an RQ worker (or the request itself, when
`job_executor` is `inline`) executes them; clients follow a job over a
server-sent event stream; and jobs synchronise market data, run backtests, ask
agents and move paper-trading accounts. Nothing but the database is shared:
everything hard about the program is what several transactions do to the same
rows.

## Inventory

| Component | State | Operations | What is hard, and what makes it correct |
|---|---|---|---|
| Scheduler (`jobs/schedules.py`, `JobScheduleRepository`) | `job_schedules`: `enabled`, `interval_seconds`, `next_run_at`, `locked_until` | create, PATCH, `run_due_schedules` | Several runners list the same due rows; a lease with no owner check; a crash between submission and bookkeeping. One runner per lease; one job per occurrence. |
| Jobs (`jobs/service.py`, `runtime.py`, `cancellation.py`) | `job_runs`, `job_events`, the RQ queue | submit, execute, report progress, cancel | Submitter, worker and cancellers write one row from what they read earlier. A verdict is true of the data; requests are not lost; events are recorded in order. |
| Event stream (`api/job_streaming.py`) | per client: last event id | poll, emit, end, reconnect | Reads status and events separately while both change. Nothing skipped; the end comes after the verdict. |
| Market data and its synchronisation (`storage/repositories.py`, `data/sync.py`, `storage/migrate_legacy.py`) | `instruments`, `market_bars`, `data_sync_runs` | `upsert_symbol`, `upsert_daily_bar`, `sync_daily_market_data`, `import_legacy_sqlite` | SELECT and write are apart; unique keys; three transactions per sync; progress reports inside one of them; SQLite's single writer. A closed row is true of the stored bars; nobody waits in a circle; every sync is closed. |
| Paper trading (`paper/`) | accounts, runs, orders, fills, positions, cash ledger, snapshots | `create_account`, `start_run`, `run_one_tick` | Running sums computed from values read earlier; runs that share an account; late and corrected bars. The ledger is a chain, the books balance, a date is processed once. |
| Strategy (`strategy/builtin/ma_cross.py`) | none | `on_bar` | Holdings decide between buying and selling. |
| Accounting, risk, execution (`portfolio/`, `risk/`, `execution/`) | the `Portfolio` value | `apply_fill`, `check_order`, `execute_market_order`; dry-run broker adapter | Limits of cash, holdings and order value. |
| Backtest (`backtest/engine.py`) | `backtest_runs`, orders, fills, equity points | `run` | Agreement with paper trading. |
| Workflow audit and operations (`workflows/runner.py`, `workflows/operations.py`, `api/routes/workflows.py`, `api/auth.py`) | `workflow_runs` | the commands of the API and of jobs inside `run_with_audit`, `record_failed_workflow_command` | The audit row is closed in a transaction of its own, after the data; several commands insert rows of one kind at once. Audit and answer are true of the data. |
| Agents (`agents/`) | `agent_runs` | market analysis, strategy ideas, `validate_strategy_candidate` | Two records of one piece of work; a candidate that passed must be one that runs. |
| Configuration, dashboard, read API | - | read-only | - |
| `legacy/` | the former Django application | - | not called by the runtime |

`PROJECT.json` lists each component with its status, and under `hazards`
everything found in the code that is hard to test, at its line, with the
properties that cover it or the reason none does.

## Transactions

Every `session_scope` block (`storage/db.py`) is a transaction at PostgreSQL's
READ COMMITTED, the database of `docker-compose.yml`. All modules model it in
the same way:

* a plain SELECT locks nothing, so that reading a row and writing it are
  separate steps wherever another transaction can come in between;
* the ORM's UPDATE names the columns whose new value differs from the value
  *read*, not from the value in the row (`WriteColumn`, `Written`, and in
  `DataSync` the bar whose SELECT showed the same close);
* an UPDATE takes the row lock and holds it until the commit (`Locked`), and
  `SELECT ... FOR UPDATE` takes it at once (`RunLocked`, `AccountLocked`); an
  INSERT waits for an uncommitted row of the same unique key and fails if that
  row is committed (`WaitsFor`, `SymbolTaken`, the conflict in `FlushBar`);
* an exception or a crash rolls the open transaction back.

`DataSync` runs on SQLite as well, the default of `config.py`. There the first
write of a transaction takes the one write lock of the database and holds it to
the end (`WriteLocked`); whoever waits for it gives up after the driver's
timeout (`LockTimeout`), also a transaction that waits for another one of its
own thread (`BlockedByItself`).

## Modules

| Module | Models | Notes |
|---|---|---|
| `SchedulerLease` | `jobs/schedules.py`, `JobScheduleRepository` | one action per transaction step of `run_due_schedules`; `clock` is real time, the caller's `now` is within `Skew` of it |
| `JobRuntime` | `jobs/service.py`, `jobs/runtime.py`, `jobs/cancellation.py`, `workflows/runner.py`, the cancellation checks of `data/sync.py` | a job's payload is a sequence of checks, progress reports and the commit of its data |
| `JobOutcome` | what a job promises | abstract: six actions on three variables, no rows and no events |
| `JobRefinement` | `JobRuntime` implements `JobOutcome` | the refinement mapping |
| `JobStream` | `api/job_streaming.py` | EXTENDS `JobRuntime`; composes streams with jobs |
| `DataSync` | `data/sync.py`, `storage/migrate_legacy.py`, the upserts of `MarketDataRepository` | one symbol; bars are written one at a time, inside transactions that others wait for |
| `MACross` | `strategy/builtin/ma_cross.py` | operators |
| `Sums` | the total of a column, as the code takes it with `sum(...)` | one operator |
| `Accounting` | `portfolio/accounting.py`, `risk/`, `execution/simulator.py`, the `Numeric(18,6)` columns of `storage/models.py` | operators; amounts in memory and as a column keeps them |
| `PaperTrading` | `paper/engine.py`, `paper/repositories.py` | composes `MACross` and `Accounting` with storing of bars; rows hold what their columns rounded |
| `Backtest` | `backtest/engine.py` | operators; a backtest is one transaction that reads the bars once and never rounds its portfolio |
| `PaperBacktest` | both engines | states their agreement |
| `Candidates` | `agents/candidates.py` | operators: from a model's parsed answer to the request a candidate proposes |
| `Commands` | `workflows/runner.py`, `workflows/operations.py`, `agents/service.py`, the routes and the token check | handlers of the API and workers execute commands at the same time; EXTENDS `Candidates` |
| `...Proofs` | theorems about the module named before | `JobRuntimeProofs` also has those about `JobRefinement` |
| `InductionTheorems` | induction, recursive functions and sums | no code: lemmas that `DataSyncProofs`, `PaperTradingProofs` and `PaperBacktestProofs` cite |
| `MC...` | instances of each for TLC | |

Actions carry the names of the functions they translate: `AcquireDueLease` is
`acquire_due_lease`, `CommitProgress` the commit of `_record_progress`, `RunTick`
the part of `run_one_tick` that decides and writes. `map` in `PROJECT.json` gives
the lines of each. Operators marked "Faulty variant" are plausible mistakes in the
operator that follows them; no specification uses them. They document what each
property notices: with the variant in place of the original the property fails.

How the modules meet: a job's payload in `JobRuntime` is the sequence of checks,
reports and the commit that `DataSync` and `Commands` have in full; `Commands`
leaves the rows of jobs and cancellation to `JobRuntime` and what a tick trades to
`PaperTrading`, and the storing of bars to `DataSync` (its `stocked` is the set of symbols
with enough bars, which only grows).

What the state abstracts:

* *SchedulerLease.* `locked_by`, `lock_acquired_at`, `last_run_at`,
  `last_job_run_id` and names are written and never read by the scheduler.
  `submitted`, `resubmitted` and `excused` are history variables. A PATCH that
  moves `next_run_at` asks for new occurrences, so it clears the history.
* *JobRuntime.* What a payload commits is the data it was asked for: `SyncPayload` begins after the first
  transaction of a sync (`sync.py:53-76`: the instrument and the `data_sync_runs` row), which `DataSync` has
  and which a cancelled sync leaves behind; `CancelledLeavesNothing` speaks of the bars. Result payloads and messages are left out. `nextId` is the event
  id sequence as one job sees it. Not being able to write a row is
  `WorkerCrashes`: the exception leaves the closing transaction and nothing
  is written, the same as for a dead process.
* *JobStream.* Time is left out: a heartbeat changes nothing, and the idle limit
  is `Close`, which a client may do at any poll.
* *DataSync.* A bar is its close: what is compared and written is told apart by
  value, not by column. A provider's answer is a series, the empty one included
  (`validation.py:4-11` accepts it), or an exception, which a duplicate date or a price out of range are too.
  `met`, the syncs whose storing overlapped, is a history variable.
* *PaperTrading.* Amounts in memory are integers of a unit in which prices with slippage and commissions
  come out exact, as `Decimal`'s 28 digits make them. A `Numeric(18,6)` column keeps whole digits of
  `ColumnUnit` such units: whatever is written to `price`, `commission`, `amount`, `cash_after`, `avg_cost` or
  `realized_pnl` is rounded to the nearest digit, each column on its own (`ToColumn`, ties away from zero like
  PostgreSQL's `numeric`), and a tick works with what it reads back (`InMemory`). A position in memory is its
  quantity and its cost; its row is the quantity and the rounded `avg_cost`, from which `load_portfolio`
  gets the cost again (`HeldCost`). Windows, order size and `max_order_value` are those of the run
  (`Config`, `MaxOrderValue`). Market values only enter the snapshots' equity, which no decision reads.
  Bars of the same date (another source or adjustment) are in an arbitrary order, also after a correction.
* *Candidates, Commands.* Of a text only what `strip()`, the 32 characters of a
  symbol and a name's length tell apart is kept, of a number whether it is absent,
  usable or not, and its value. What the language model says is any answer of `Ideas`. Metrics and
  prompts decide nothing and are left out.

## Runs

| Run | Instance | What it shows |
|---|---|---|
| `scheduler` | two runners, two schedules, crashes, failing submissions (1.1 million states) | exclusive leases, one job per occurrence |
| `scheduler_patch` | one schedule, a PATCH at any point, callers whose `now` differs from the time by one (1.9 million) | the same |
| `scheduler_overrun` | a call outlives its lease | violated, see below |
| `scheduler_failfast` | a submission raises | violated, see below |
| `jobs` | one job of each kind, two cancellations, every failure (780 thousand) | verdicts true, requests and order of events kept, `JobOutcome` implemented |
| `job_cancel` | is a job cancelled "before execution" never run? | violated |
| `stream` | one stream beside submitter, worker and canceller | nothing skipped, ends after the verdict, verdict delivered |
| `stream_end` | does the stream of a finished job end? | violated |
| `data_sync` | two syncs and an import of two dates, on either database (184 thousand) | rows true, no circular wait, a lone sync leaves what it fetched, every sync ends |
| `sync_sqlite` | one sync alone on SQLite: does it fail only for a cause? | violated |
| `paper` | two runs of one account with sizes and limits of their own, two tickers, two instruments, late and corrected bars, rounding columns, and a backtest of the same bars (1.7 million) | ledger, cash, positions, dates, what rounding may do to the books, and agreement of both engines |
| `commands` | two handlers, every command and both agents, up to four workflow runs (1.1 million) | audit, answer, agent runs and parameters agree |

Bounds. Two runners are enough for a race and, because a runner calls
`run_due_schedules` again and again, for a third call to come in; `MaxTime` lets a
lease run out and the next occurrence come due. The jobs of `jobs` do not share rows,
so one is submitted per behaviour and TLC chooses its kind; two cancellations are
the least that can be stale to each other. A bar in the sync payload is one check;
one bar gives both a check before and inside the storing transaction. In `paper` the
bars, sizes, limits and cash are such that orders are filled, skipped for want of cash and rejected by
the risk rules, and shares are bought and sold; three bars are stored beyond the
two of the history, which makes a crossing up, one down and one up again. A digit of a column is a hundred units of memory
(`ColumnUnit`) and both rates are one tenth, so that every price, average cost and balance has something to
round; with six decimals and the program's rates the same happens at the seventh digit. No purchase there is
so close that `NoCloseCall` decides; with `InitialCash = 115690` one is, and TLC refutes `AgreesWithBacktest`
without that premise and confirms it with the premise. In `data_sync` two
dates are the least for locks to be taken in two orders, two closes the least for a bar to change,
and an answer has all dates, restates one or is empty. In `commands` the run begins with
an account and a paper run (`MCInit`), a state to which `Init` leads by two requests,
so that every command has something to work on and two more rows are enough for two
insertions of one kind to race; `MCIdeas` has an answer for every branch of the
validation. `MaxStores`, `MaxPatches`, `MaxTime`, `MaxRows` and
`MaxSubmitted` are the only bounds and appear in the guards that name them. Symmetry is used for
runners, cancellers, tickers, instruments and handlers, in runs without liveness properties only.

`CHECK_DEADLOCK FALSE` is set where an instance may stop: `paper` when the bars
of the bound are stored and nobody ticks, `data_sync` and `sync_sqlite` when every sync and
import is closed, `commands` when the rows of the bound are used up. `JobRuntime` says what it is
to have nothing left to do (`AtRest`), so its deadlock check finds a job that is stuck.

Fairness. Only steps that the program takes by itself are fair: a worker goes on
with a job (the RQ process runs to the end), a submission or a request that has begun
proceeds, an open stream polls, and a sync or an import that has begun takes its next step, which on
SQLite includes that the driver's busy timeout ends a wait. No fairness is assumed of clients, of
failures or of crashes, and the liveness properties except a worker that dies.

## Disagreements between code and documents

1. `scheduler_overrun`: leases carry an owner, but `mark_submitted` and
   `clear_lease` do not look at it. A runner that overstays drops its successor's
   lease, and a third call takes the schedule while that lease is alive.
2. `scheduler_failfast`: `run_due_schedules` re-raises the first submission error, so
   later due schedules wait; the scheduled-operations design says they are processed. The later lease
   design (`2026-06-23-quant-trading-scheduler-leases-design.md:72`) asks for the re-raise, so here two
   documents disagree and the code follows one of them.
3. `job_cancel`: the worker checks "cancelled" on the value it read and then writes
   "running". A cancellation committed in between is undone, although the job's timeline says
   "job cancelled before execution".
4. `stream_end`: a cancellation that read "running" overwrites the verdict with
   "cancel_requested". Nothing changes that status again and the stream never ends.
5. `sync_sqlite`: the last progress report of a sync is a transaction of its own,
   made while the one that stores the bars is open. On SQLite it waits for its own thread's write lock until the
   driver gives up, and a sync executed by a job that has a bar to write fails and stores nothing.

Two more were met and have no run, because no behaviour of the modelled code depends on them.
`src/README.md:431` documents `QUANT_BROKER_MODE`, which `config.py:76` validates, but every
workflow builds the simulated broker whatever its value. And
`tests/integration/test_paper_engine.py:353` says that a tick takes a row lock for its idempotency,
which SQLite, the default of `src/README.md:182`, does not render; `PaperTrading` has PostgreSQL's
locks, and its faulty variants `LoadRunUnlocked` and `LoadAccountUnlocked` show what is lost
without them.

## What is proved

TLAPS proves the following for every value of the constants that satisfies the modules' named assumptions.

`SchedulerLeaseProofs`
* `TypeCorrect`: `TypeOK`, with `TargetCreated` (a runner in its window works on
  an existing schedule), which PATCH and the closing transactions need.
* `LeaseIsExclusive` and `LeaseIsKept`, assuming `Prompt`: the inductive invariant `LeaseInv` adds to
  `LeaseExclusive` that the lease of the runner in its window is still in the row (`LeaseHeld`)
  and that its call is young enough (`CallInTime`). Exclusiveness is not
  inductive alone: what keeps a second runner out is the value in the row, which
  stays only because nobody else is in the window to clear it. `Prompt` cannot be
  dropped (`scheduler_overrun`).
* `OccurrenceSubmittedOnce`, assuming `Prompt`: adds that settled occurrences are behind
  `next_run_at` or about to be (`SettledIsPast`), and that the runner in the window works on a newer one
  and has not read a `next_run_at` patched since (`WindowIsNewest`).
* `NextRunIsMonotone`, assuming `Prompt`: `NextRunNeverGoesBack`. Without patches the row
  shows the occurrence of the runner in its window (`AtOccurrence`), and `advanceTo` lies behind that.

`JobRuntimeProofs`
* `TypeCorrect` and `RuntimeIsTyped`: `TypeOK`, from it with `CreatedFirst` and `WorkConsistent`.
* `OutcomeIsTrue` and `CancelledJobsLeaveNothing`, assuming that every payload commits its data once and after its checks
  (both payloads of the code do): `SucceededIsAudited` and `CancelledLeavesNothing`, from an invariant that ties
  each place of the worker to what is committed by then.
* `RequestsStick` and `ShelvedJobsStayShelved`: the action properties, from an invariant
  on what a worker and a canceller may have read.
* `EventsComeInOrder`: ids drawn by open transactions are below `nextId` and above all committed
  ones, because the row lock admits one of them at a time.
* `TimelineTellsStatus`, where no two requests cancel one job (`OneCancellation`): `StatusIsNewestEvent`. Every
  commit that tells a status has the newest id (from the order of the ids), but the UPDATE leaves the status out when it equals the one
  read. `OnceInv` says why the row then has it already: a canceller read "queued" or "running", because "cancel_requested"
  is what only itself writes, and a worker that read "cancelled" before its verdict still finds it there. The
  assumption cannot be dropped: a second request that read "cancel_requested" leaves the status
  out, and tells it although the worker has given its verdict since.
* `RuntimeKeepsPromise` (that of `JobRefinement`), under the two assumptions on payloads: initial states map to
  initial states and every step of a submitter, worker, canceller or failure maps to one step of
  its job or to none. The audit invariant supplies that data is stored before
  "succeeded" and not before "cancelled".

`JobStreamProofs`
* `StreamsAreTyped`, `StreamsSkipNothing` and `StreamsEndWithVerdict`, about `StreamSpec`. Every step of
  the runtime only appends to the timeline of a job (`EventsAppend`, from the order of the ids) and never
  changes a status without its event (`Timeline`). A stream (`Follows`) has received the timeline up to its last
  id, its batch follows without a gap, and the event of a terminal status it read is in the one or the other.
* `StreamsOnlyRead`: `StreamSpec` implies `Spec`, so that the theorems about the jobs hold beside streams.
  `FollowedTimelineTellsStatus` draws this conclusion for `StatusIsNewestEvent`.

`DataSyncProofs`
* `TypeCorrect`: with the answers, dates and closes any sets of the assumed kinds.
* `SyncRowsAreTrue`: `VerdictIsTrue`. The inductive invariant says that what is pending is
  part of what was fetched, that a place of the loop fixes which dates are pending, stored or still to do, and
  that a stored bar is vouched for; a bar found to be as fetched at its SELECT is still stored at the commit because bars
  are never deleted.
* `SyncsNeverDeadlock`: `NoWaitCycle`. Whoever waits for a bar has pending only earlier
  dates, and whoever waits for the instrument holds nothing, so in any set of waiters the one that waits for
  the latest date waits for nobody in it; the maximum exists because `Dates` is finite.
* `LoneSyncsAreFresh`: `FreshAfterSync`. While a sync that meets no other one stores (`Alone`), each
  bar of its answer is still to do, pending, or stored as fetched; a bar skipped because it did not differ stays
  as it is, since imports write another source.

`PaperTradingProofs`
* `LedgersChain`, `AccountsNeverOverdrawn`, `DatesProcessedOnce` and `PositionsNeverPyramid`. The inductive
  invariant has three parts: `LockInv` (a tick is alone on its run, and on its account once it locked
  that, so what it read is what the rows still say), `DateInv` (dates of bars ascend, and a run's history lies before its
  `last`, which is not after the latest bar), and the types of what they are about. None of the four is inductive
  without `LockInv`: the running sums, the check of the cash and the check of the date are all made on values
  read earlier. Rounding enters by lemmas about `Nearest`: it errs by at most half a digit (`NearestBounds`),
  what was read from a column is written back unchanged (`ColumnFacts`), and three roundings of one sum miss it
  by at most one digit (`ThreeRoundings`), which is why a ledger row may.
* `PaperTradingIsTyped`, `BooksAlwaysBalance` and `HoldingsAlwaysMatchFills`, assuming that there are finitely many
  instruments and runs (a sum has no value otherwise). The invariant `BookInv` holds
  beside the former one. It adds that the portfolio of a tick is still what the rows say
  (`FreshBook`, which needs `LockInv`), that nothing is in the rows of an account without a ledger, and that a run that has
  not started has no orders. The books are kept instrument by instrument: a filled order changes the cash of
  its account and the realized profit less the cost of its own instrument by the flow of its fill, up to
  half a digit for each amount and each share of a rounded price or average cost (`CashMoves`, `BuyMoves`, `SellMoves`), and leaves the rows
  of every other instrument as they were, because an average cost that was read is written
  back (`AverageKept`). What one order adds to the flow and the slack of its run it adds to the sums over all
  runs (`TotalGrows`), so the errors add up to no more than the slack.

`InductionTheorems`
* Lemmas for the two before and the next. The library states induction with a predicate as parameter, which no
  installed prover can instantiate. Here the predicate is a *set* of numbers:
  every set of numbers has a least one (`LeastExists`), so a set with 0 that is closed under the successor has all of them
  (`InductionOnNat`, `InductionUpTo`), two recursive functions with the same step agree
  (`RecursionsAgree`), and one exists (`RecursionExists`). The value of a sum over a finite set
  (`SumOver`, a fold that chooses its elements in an unknown order) then follows by induction over subsets.

`PaperBacktestProofs`
* `PaperAgreesWithBacktest`: `AgreesWithBacktest`, for any history, windows, sizes, rates, closes and other accounts that trade
  meanwhile. The backtest's amounts are never rounded and those of a tick are at every commit, so the two are not equal and
  a naive induction fails: a balance that differs by a digit may decide differently. `Tracks` says how far
  apart they may be after a number of fills: the cash by half a digit for the deposit and each fill, the cost by half a digit for
  each share held, the realized profit by half a digit for each sale and each share sold. Writing and loading a
  book moves it by the half digits of its columns (`Stored`), a fill adds those of its own (`TracksOn`), and on
  cash so near the two engines buy or skip alike unless the decision is closer than that (`SameCall`), which is what the premise `NoCloseCall`
  excludes. Quantities and recorded fills are equal throughout, because a price depends on the close alone.
  `Follows(r, k, m)` says that a run processed the bars `k + 1 .. m` one at a time, `Agrees(r, k, m)` that
  its fills and its account track those of the loop of `BacktestEngine.run` after `m` bars. That this
  stays true is not inductive alone: the bars may change under a tick that has read them. `BacktestInv` adds
  that `stores` counts at least the bars added, so that as long as nothing was corrected every store
  added one (`Growth`), the first bars are still there and the dates of snapshots and of bars read
  by a tick are dates of stored bars (`Dated`, `ReadBars`), and that an account no run uses holds its deposit only (`Unused`).
  A tick then either processes bar `m + 1`, which is one step of the backtest's loop on a near book, or a
  later one, after which the run does not follow every bar any more. The first `k` bars make no
  intent, because the slow average of the run needs `Config[r].long` of them.
  The premise that those `k` bars are the first of the history is needed: a bar stored before
  them makes a backtest that begins earlier, and TLC shows that it may trade where the paper run could not.

`CommandsProofs`
* `CommandsAreTyped`, `AuditTellsTheTruth`, `AnswersTellTheTruth`, `AgentsAgree`,
  `RunsAreAsRequested` and `PassedCandidatesRun`, from one inductive invariant: a handler inside
  `run_with_audit` owns a "running" row that records its request, two handlers never own the same one, and what the handler has
  inserted follows from its place (`Owns`); closed rows keep saying what they said (`RowInv`). Every action is
  shown to stay within the frame of the one row it is about (`Frame`, `OneHandler`). `CandidateFacts` proves
  of `validate_strategy_candidate` that what it passes is a request nothing refuses. The theorems are about
  `Spec`; the run's `MCInit` is one of its reachable states.

Only model-checked: liveness (`VerdictDelivered`, `RequestHonoured`, `SyncEnds`), which is out of
the prover's reach under fairness. The five disagreements above are counterexamples of TLC.

## Not modelled

* The dashboard, the health route and the read-only routes: they render rows.
* `config.py` reads the environment once; its values are constants of the modules.
* Equity, peak equity and drawdown: they are written for readers, and no step of the runtime decides on them.
* The rounding of `Decimal` itself at 28 significant digits, and numbers that do not fit `Numeric(18,6)`: the
  write fails, which is `AbortTick`.
* A `now` of a scheduler call that is further than `Skew` from the time: the API takes any, and what a lease means
  to a caller with such a clock nobody promises.
* `DryRunBrokerAdapter` and `MaxGrossExposureRule`: no workflow constructs them.
* Heartbeats and idle time of streams, the widths of text columns, the sanitising of messages.
* The Alembic migrations are one-way scripts without run-time behaviour; the legacy application is not
  called by the runtime.
