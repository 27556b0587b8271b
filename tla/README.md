# PlanWise Navigator / PlanAlign: verification project

TLA+ models of the parts of this repository whose correctness depends on the
order in which things happen: the life of a simulation run in the API process
and what its readers are served, the dashboard that shows it live, the
background jobs of the API, the lock file between simulation processes, the
pool of worker processes, and the multi-year pipeline on a database that other
runs have written. TLC checks the models on small instances, TLAPS proves most
of the safety properties for all instances.

Contents: [inventory](#inventory) · [modules](#modules) · [runs](#runs) ·
[proofs](#proofs) · [what the models found](#what-the-models-found) ·
[what is only checked, and what is not modelled](#what-is-only-checked-and-what-is-not-modelled) ·
[plan](#plan)

## Inventory

The repository simulates a workforce over several years. A simulation is a
sequence of dbt models over one DuckDB file; around it there are an
orchestrator, a command line, an API with a web front end, and packages that
run many simulations.

| part (source) | state it keeps | operations | what is hard |
|---|---|---|---|
| **run lifecycle** (`planalign_api`: `routers/simulations.py`, `routers/batch.py`, `routers/scenarios.py`, `services/simulation/`, `services/current_result.py`, `storage/workspace_storage.py`) | files: `scenario.json` (status, last_run_id), `current_result.json` (the pointer to the served run), `runs/<id>/run_metadata.json`, `runs/<id>/simulation.duckdb`; memory: `_active_runs`, `ActiveProcessRegistry`, `_batch_jobs` | start, execute, cancel, reset, run-all, delete database, delete scenario | coroutines that interleave at every await, a subprocess, endpoints that act on a run another coroutine executes, partial failure of a publication, restart of the API |
| **dashboard** (`services/telemetry_service.py`, `websocket/`; `planalign_studio`: `services/websocket.ts`, `components/Layout.tsx`) | server: per-run state, one bounded queue per subscriber; page: the run watched, a snapshot, the socket, timers, polls in flight | start_run, updates, milestones, set_terminal, subscribe; connect, reconnect, poll, follow and release a run | full queues, broken sockets, polls answered late, replacement of a run's state by the next run, restart of the API |
| **background jobs** (`routers/calibration.py`, `routers/optimizer.py`, `calibration_runner.py`) | `_jobs`, `_db_locks`, `_reserved_dirs`; timestamped copies of the database; the directories of searches | post, run in a thread, poll, prune | jobs pruned while others run, a failing build that holds a lock, two searches for one directory, a request that raises half-way |
| **execution mutex** (`planalign_orchestrator/utils.py`) | a lock file | acquire, release, release at exit | stale locks, kills, check-then-unlink |
| **run pool** (`planalign_orchestrator/run_pool.py`) | two multiprocessing queues, worker processes | run, collect, terminate | killed workers, results in flight, Ctrl+C |
| **multi-year pipeline** (`pipeline_orchestrator.py`, `pipeline/`) | tables of the DuckDB file, per year | reset, clear years, stages of a year, hooks, validation; calibration builds on the same tables | re-runs over existing years, failure in the middle of a year |
| **state accumulation** (`state_accumulator/`, `workforce_state_projection.py`) | year N-1 tables that year N reads | validate dependencies, rebuild projections | a year that was cleared or never built |
| **self-healing initialization** (`self_healing/`) | which tables exist | check, initialise under a lock | two processes at once, failure half-way |
| **provenance** (`run_metadata.py`, `run_trust.py`) | a table of run stamps | record a run, compare with the configuration | drift between years of one database |
| batch runner, dbt runner, parallel engine, resources, hazard cache, registries, generators, configuration | mostly local to one call | | see `PROJECT.json` |
| import, upload and sync services | files, a Git checkout | | |
| read-only services, `planalign_core`, `planalign_fit`, `planalign_evidence`, `planalign_backtest`, `planalign_ensemble`, `planalign_optimizer`, `planalign_cli`, `planalign_studio`, `dbt` | none, or results of a single call | queries, statistics, SQL, user interface | arithmetic rather than order |

How the parts interact: the front end calls the API; the API keeps files per
scenario and starts `planalign simulate` as a subprocess for every run; that
process enters the execution mutex and runs the pipeline, which runs dbt on the
run's database; the API turns the output of the process into telemetry and,
when it exits with code 0, publishes the run through `current_result.json`.
The command line, the ensembles and the optimizer run many simulations through
the run pool, each under an execution mutex of its own.

What makes each part correct:

* *lifecycle*: readers are only ever served a complete result; a scenario has
  one reserved run at a time; whatever fails, the scenario, the registry, the
  history and the dashboard all learn how a run ended; nothing stays "running"
  for ever.
* *dashboard*: a subscriber gets the present state first, then what changes; a
  page whose connections fail still hears of its run, and lets go of it once it
  is over.
* *background jobs*: builds on one database or directory exclude each other; a
  job that is not over is known; locks, reservations and copies are neither
  lost nor leaked.
* *mutex*: one process at a time works on a database; a killed process blocks
  the others for a bounded time only.
* *pool*: every job gets exactly one true outcome; an outcome is missing only for
  a reason; nothing is left running.
* *pipeline*: year N is built on a year N-1; nothing of an earlier run is left
  in what a run rebuilds; a mixture of configurations is reported; a dry run
  writes nothing.

The hazards behind these sentences are listed with their lines in
`PROJECT.json`.

## Modules

| module | what it is |
|---|---|
| `RunLifecycle` | the run lifecycle of the API, with the faulty variants used as mutants next to the definitions they corrupt |
| `ServedResult` | abstract specification: what readers of a scenario may be served. `RunLifecycle` implements it |
| `RunLifecycleProofs`, `ServedResultProofs` | theorems about the two |
| `ExecutionMutex`, `ExecutionMutexProofs` | the lock file |
| `RunPool`, `RunPoolProofs` | the worker pool |
| `PoolPromise` | abstract specification: what the pool promises whoever hands it jobs. `RunPool` implements it |
| `MultiYearPipeline`, `MultiYearPipelineProofs` | runs, one after the other, on one database: what each clears, builds and inherits; state accumulation and provenance included |
| `RunDashboard`, `RunDashboardProofs` | the live dashboard, from the telemetry service to the page |
| `BackgroundJobs`, `BackgroundJobsProofs` | calibration and optimizer jobs |
| `MC...` | one instance of each for TLC |

### RunLifecycle

The API runs on one asyncio event loop, so one action is what a coroutine does
between two awaits, all calls included. Where a coroutine waits, it is split:

* `execute_simulation`: `ExecuteReserved` / `ExecuteBatch` (start of telemetry,
  statuses, run directory, validation; or `HandleFailure`), then the wait for
  `create_subprocess` and for a listener, `Spawn` / `SpawnFails`, then the
  output stream and `process.wait`, `FinishRun` (which either finalizes or
  handles the failure, both without an await), then the Excel export in a
  thread, `ExportDone`. Reading the output may also raise while the process runs
  (`StreamFails`): the run fails, and its process lives on without a reader.
* `cancel_simulation`: `CancelBegin` sends the signal and waits; `CancelFinish`
  is the rest once the process is gone; `CancelExited` is the case in which it
  was gone already. The execution of the same run waits for the same process,
  and the two may wake in either order.
* the other endpoints have no await inside: `StartSimulation`, `BatchQueue`,
  `ResetStatus`, `DeleteDatabase`, `DeleteScenario`.

Variables are the files per scenario and run (`status`, `last`, `current`,
`meta`, `db`), the memory of the API process (`registry` = `_active_runs`,
`telem`, `procs`, `cancelledRuns`, `task`, `cancelling`, `outcome`) and the
operating system (`proc`). `owner` says to which scenario a run id belongs.
`Restart` loses the memory and keeps files and subprocesses; the four actions
`RestartIn...` are deaths of the API between two writes of one stretch, where
the order of the writes matters (`_save_metadata` before the pointer, the
pointer before the run databases). Every single file write counts as atomic,
which the pointer and the metadata ensure (temporary file and `os.replace`) and
`scenario.json` does not (see the hazards).

`Environment` selects the outside events: "prepare" (validation or spawn
fails), "stream" (reading the output raises), "archive" (run database missing or
publication fails), "fsync" (the directory fsync fails after the pointer was
replaced), "record" (the metadata of a failed run stay unwritten, which is only
logged), "cancel", "batch", "delete", "restart". Fresh run ids are uuid4 values: no
id is taken twice.
The run id of a batch run is taken when it is queued, not when its turn comes,
and batch scenarios of a sequential batch may start in any order: both only add
behaviours.

`AttemptState` and `current` are the refinement mapping to `ServedResult`: an
attempt is live while its coroutine executes, good once its metadata say
completed and its database exists, over otherwise. "Over" means that the attempt
ended without being published; its result need not be incomplete.

### ExecutionMutex

One mutex object per process, entered once. `TryCreate` is
`open(lock_file, "x")`; `Look` is the exists/stat test and the sleep; `Reap` is
the unlink of a lock that was seen to be older than an hour, a step of its own
because another process may act between the two; `Leave` and `Release` are the
two halves of `release()`, at the end of the `with` block and again at exit;
`CreateFails`, `PollFails` and `ReleaseFails` are the file operations that
raise: the error is logged, `acquire` returns False or `release` clears its flag,
and a file that was there stays (`logged` remembers who had such an error).
`Die` is a kill that runs neither `finally` nor `atexit`; `Age` makes an existing
lock file older than an hour. Time is counted in polls (`Timeout`). `Namings`
are the lock names the processes may compute for one database.

### RunPool

`run()` of the pool. With one worker or one job the parent runs the jobs itself
(`RunInline`, `InlineJob`, `InlineInterrupt`); otherwise it starts workers
(`RunParallel`, `StartWorker`). How many, `resolve_worker_count` says: here it is
the constant `Workers`. A put on a multiprocessing queue goes to a
buffer of the process (`buffer`) and then through a thread to the pipe (`Flush`):
a killed process loses its buffer, an exiting one flushes it. The parent's loop
is split between the poll that times out (`CollectEmpty`) and the test that some
worker is alive (`CheckAlive`). `Interrupt`, `Signal`, `KillAfterGrace`, `Raise`
are the KeyboardInterrupt path, `Unwind` what SIGTERM does to a worker,
`InterruptAgain` a second Ctrl+C while the workers are being terminated, which
leaves them, and `StartFails` an exception in the loop that starts the workers,
which is outside the `try`. `takenBy` is history: the worker that took a job.
Job names are distinct, as all callers make them. The display events are left
out; so are the locks inside the library's queues: no kill falls into them.

`results`, `ran` and `Over` are the refinement mapping to `PoolPromise`, whose
caller sees neither queues nor workers: a job starts, ends, and is told of, each
once; when the pool is over, one step gives every job without an outcome one that
says why.

### MultiYearPipeline

One database and up to `MaxRuns` runs over it, one at a time: that they exclude
each other is what `ExecutionMutex` is for. A run is a simulation of some years
of the configured range, a dry run, or a calibration (whose builds write the
same tables, from the first year on).

What matters of a table is who its rows come from. `rows[t][y]` is the set of
the runs whose work is in the rows of table t for year y: the run that wrote a
row, and the runs whose rows it was computed from. A stage therefore writes the
union of its own number and the origins of everything it reads; what an
incremental build with a key per employee leaves of older rows is any subset of
them (`Leftovers`). Some builds and projections read events back to the first
year (`EarlierEvents`), the others only the year before (`Prior`). `projection` does the
same for the two projections that expose the year before to the decision year.

`phase` follows `execute_multi_year_simulation` and `_execute_year_workflow`:
"resetting" (`FullReset`), "stamping" (`Stamp`, the provenance record),
"purging" (`Purge`: the year-wise clear and the facts), "projecting"
(`Project`, with the check of the year before), "foundation", "generating",
"publishing" (`OpenAccumulation`), "accumulating" (the models of
STATE_ACCUMULATION, each a step of its own, in the order their dependencies
leave open), `EndYear`. `Fail` may come between any two steps: a model or a
check that fails, or a kill. `Retune` is `rerun_with_params` of a calibration.
`Setups` are the values of `config.setup` that the code distinguishes.

### RunDashboard

One page and the runs of one scenario, one after the other. On the server:
the run whose telemetry is held, its milestones, of which the newest are kept
(`Kept`, `MilestoneCap`), and the bounded queue of the page's subscription; what
does not fit is dropped (`Send`). A run that is cancelled may be ended twice, by
the cancel request and by its failure handler (`SetTerminalAgain`). On the page: the
state of the hook `useRunTelemetry` (`watched` is `activeRunId`), with its
socket, reconnects, timers and polls, and the safety timer of the layout, which
asks for the list of active runs when nothing has changed for a minute
(`Elapse`, `Check`, `CheckArrives`).

A poll carries the answer it will bring from the moment the server forms it
(`Poll`), and it may be delivered at any later time, also after the page has
turned to another run. `schedulePoll` overwrites the handle of a timer that is
still pending, so two chains of polls may run, of which `enterTerminal` clears
one: that is the timer "orphan". Of the states of a run, only whether it is over
and its milestones matter.

### BackgroundJobs

The two routers keep the same kind of registry; a job is known by its number,
in the order of `created_at`. A calibration of an explicit database waits for
the lock of that database (`Begin`, `Resolve`). One without a database takes
four steps that nothing orders with those of other jobs: it names a copy for the
present second (`Name`), lists the copies in excess (`FindExcess`), removes those
of the list that it can remove (`Prune`) and copies the shared database (`Seed`).
A search reserves its two directories, which must be empty, before it
is registered (`Reserve`, then `Accept`, `Reject` or `Raise`), writes into both
(`Evaluate`, `Export`), and releases them when its thread ends (`Finish`).
`Register` is `_register_job` with the pruning of finished jobs. `removed`,
`spared` and `overlap` are history: the copies removed, those that a pruning
should have removed and did not, and the jobs that were between their pruning and
their copy when the copies were last listed.

## Runs

| run | shows | bounds |
|---|---|---|
| `lifecycle_safety` | the eight invariants of `RunLifecycle` | 1 scenario, 3 runs, 1 restart, everything but "fsync" and "record", constraint `StraysAmongFew`; 1.7 million states |
| `lifecycle_liveness` | `RunLifecycle` implements `ServedResult`; every run, dashboard entry and batch entry ends | 1 scenario, 2 runs, 1 restart, everything but "fsync"; 245 thousand states |
| `mutex` | exclusion while no lock is old, no lock leaked in silence, no endless wait | 3 processes, 2 polls, any lock may get old, any process may be killed, any file operation may fail; 79 thousand states |
| `pool` | `RunPool` implements `PoolPromise`; every missing outcome has a cause, nobody left, `run()` ends | 3 jobs, run inline or by 2 workers; 690 thousand states |
| `pipeline` | rebuilt years are clean, completed years are chained, mixtures are reported, earlier years are kept | 3 runs over 3 years, 2 configurations, 2 setups; 4.6 million states |
| `dashboard` | nothing is missed, no run is forgotten, an ended run is released | 2 runs, the first with a milestone between its start and its end; 2 milestones kept, 1 reconnect, 1 poll in flight, a queue of 2, 1 restart; 418 thousand states |
| `jobs` | builds and searches stay apart, jobs, locks, reservations and copies are neither lost nor leaked | 3 jobs, 1 database, 2 directories, 1 finished job and 2 copies kept, 3 seconds, 1 restart, constraint `MCCopiesApart`; 1.3 million states |
| `newest_attempt`, `deleted_ready`, `mutex_hashed_name`, `dry_run`, `default_runs` | counterexamples, see below | smallest instance |

Why the bounds are enough.

* *Lifecycle*: scenarios share no variable but the run ids, so one scenario
  meets everything the lifecycle does; two runs already race (a cancelled one
  with its successor, a batch run with a reserved one), the third lets a race
  meet a further attempt. One restart separates "before" and "after"; a second
  one adds nothing a fresh start of the first does not. `StraysAmongFew` leaves one
  combination out: a process left by a failed stream, a batch run and two further
  attempts, all three at once.
* *Mutex*: two waiters and one process that died are what a stale lock needs.
* *Pool*: more jobs than workers means that a worker that dies leaves queued
  work behind, and may die with an outcome in its buffer and a further job.
* *Pipeline*: a mixture needs two runs, and a third that reads what the two
  left; three years give a first one, one that has both neighbours, and a last
  one, so a run can lie before, within, or beyond the years of another. Two
  configurations suffice because they are only compared.
* *Dashboard*: the page confuses at most the run it watches with the one that
  replaced it. With a queue of two, the two messages of an end fit or do not;
  with one reconnect, both the retry and the change to polling occur. The first
  run has one milestone more than the service keeps.
* *Jobs*: with a single finished job kept, the third job makes the registry
  forget; two directories allow searches that overlap in one, in both, or not
  at all. With three jobs and two copies kept, two prunings overlap while a third
  job builds. The clock goes on once its second is the name of a copy
  (`Tick`), for only equality and order of names matter; three seconds let copies
  share a name, and be pruned. `MCCopiesApart` lets searches and calibrations
  without a database meet among two jobs only: they have separate registries and
  share no file.

Symmetry is used where nothing distinguishes the values: scenarios and run ids
in `lifecycle_safety`, configurations in `pipeline`, directories in `jobs`. No
run with a liveness property uses it.

Deadlock is not checked: in all six systems everything may come to its end
(run ids, jobs or runs used up, processes gone, `run()` over).

### Fairness

* *Lifecycle*: the event loop runs every coroutine that is ready, `create_subprocess`
  and the export thread return, and the CLI ends; a cancelled CLI is killed
  after a grace period. Nothing is assumed of users: no request is fair.
* *Mutex*: a process that is alive goes on, and its `with` block ends.
* *Pool*: parent and workers run, jobs end, joins return. A kill, a raise, an
  interrupt are never fair.
* *Dashboard*: weak fairness of the handler that sends what is queued
  (`Deliver`), of the timers (`PollFires`, `ReconnectFires`, `Release`) and of
  the check of the safety timer (`Check`); strong fairness of `PollArrives`,
  `CheckArrives` and `Elapse`, that is, requests are answered unless they fail
  for ever, and the minute of the safety timer is not interrupted for ever by
  sockets that break. Nobody has to start, follow or end a run.
* *Pipeline*: `FairSpec` (a run that has begun goes on) is only there so that the
  counterexample of `dry_run` is one of a program that runs.
* *Jobs*: none. What liveness would say of the locks is said by
  `LocksAreHeldByLiveJobs`: whoever holds one has a thread that is going to
  release it.

### Properties, by hazard

* Two requests for one scenario, a cancel, a reset, a batch in between:
  `OneReservation`, `OneLiveProcess`, `ReservationIsBacked`.
* A publication that fails or is cut off half-way, a deletion under a running
  run: `ServedRunIsComplete`, and as a statement about all steps
  `ServesCompleteResults`.
* A failure that reaches only some of the places that show a run's status:
  `SettledRunIsInHistory`, `DashboardAgreesWithHistory`, `StuckIsResettable`,
  `EveryRunSettles`, `DashboardSettles`, `BatchSettles`.
* Locks left behind, removed too early, or removed by the wrong process:
  `ExclusiveWhileFresh`, `LockIsNotLeaked`, `AcquireReturns`,
  `StaleLockIsRemoved`; the former two also when file operations fail.
* Workers that die with a job or with a result: `KeepsItsPromise`,
  `MissingJobsAccountedFor`, `NoWorkerOutlivesPool`, `PoolReturns`.
* What earlier runs, complete, failed or killed, left in a database:
  `RebuiltYearsAreClean`, `CompletedYearsAreChained`, `EarlierYearsAreKept`;
  years of several configurations in one database: `NoSilentMixture`.
* Messages dropped, sockets broken, polls answered late: `NothingIsMissed`,
  `NeverForgotten`, `TerminalIsQuiet`, `EndedRunIsReleased`.
* Jobs that share databases, directories and a registry that forgets:
  `BuildsDoNotOverlap`, `OneSearchPerDirectory`, `LiveJobsAreKnown`,
  `FinishedAreKept`, `CopiesAreKept`; jobs that fail while they hold something:
  `LocksAreHeldByLiveJobs`, `ReservationsAreInFlight`.

Some of them are weaker than one would like, because the code is:
`EndedRunIsReleased` lets a page that polls show a later run in the place of the
one it watches, as long as that run executes. `NothingIsMissed` speaks of the
milestones that the service still keeps, and exempts a subscription that lost a
message or was taken back by a late answer (`lossy`), so it does not catch that
late answers do that. `NoSilentMixture` exempts calibrations that re-tune or were
not recorded (`offRecord`), and its instance has no reset that is limited to some
tables, with which it is false. `ReservationsAreInFlight` exempts the directories
of a request that raised (`leaked`), which nobody releases before the next
restart. `OneLiveProcess` counts processes whose output is read: one whose reader
failed, or that outlived the API, runs on beside the next. `LockIsNotLeaked`
exempts processes that have logged a failed file operation.
`MissingJobsAccountedFor` does not bound how many outcomes a kill costs: those in
the buffer of the worker go with it, besides its job. `CopiesAreKept` allows the
copies to exceed the retention by what was not removed and by the copies being
made at once, which is more than `calibration_runner.py:266-267` says.

For each property `PROJECT.json` names a faulty variant of one definition
(a guard dropped, an order swapped, a handler that forgets one write) under
which TLC finds the property violated.

## Proofs

For the lifecycle, TLAPS proves, for every finite or infinite set of scenarios and run ids, every
choice of outside events and every bound on restarts:

* `TypeCorrect`; `BookkeepingCorrect`, the inductive invariant; and from it
  `ReservationsAreBacked`, `ReservationsAreExclusive`, `ProcessesAreExclusive`,
  `HistoryIsKept`, `DashboardIsTruthful`, `StuckCanBeReset`;
* `StatusIsTruthful`, the same as `DashboardIsTruthful` for the entry of
  `_active_runs`, and the action property `RunsEndOnlyOnce`. `HistoryIsKept`,
  `DashboardIsTruthful` and `StatusIsTruthful` assume that "record" is not among
  the outside events: a run whose metadata could not be written is not in the
  history;
* `ServesCompleteRuns` and the refinement `KeepsThePromise`, both under the
  assumption that "fsync" is not among the outside events, and `ServesWholeRuns`,
  which says what is left of the former with it: the served run may be one that
  the history calls failed, but its database is as good;
* `NewestAttemptStaysDescribed`, which delimits a finding (below): without
  "cancel", "batch" and "delete" the documented statement holds, and each of the
  three alone breaks it;
* `ResetSparesLiveRuns`, which delimits a hazard in the same way: only a batch run
  can be executing when the reset endpoint accepts its scenario.

None of the invariants is inductive by itself. `Bookkeeping` says run by run
how the pieces fit: an unused id has left no trace; a batch run is never in
`_active_runs`; a coroutine that is queued or spawning has no process, and one
that streams has one; until a coroutine finishes, its run has no metadata, and
metadata say "completed" only of a process that exited with code 0; an entry of
`_active_runs` that is pending belongs to a queued coroutine, one that is running
to a coroutine that executes, and the converses hold for reserved runs (for a
streaming one as long as its process runs); a cancel request that waits is for a run that has
begun to execute. With it, each of the other invariants needs one more fact of its
own, stated next to its proof: for `NewestAttemptStaysDescribed`, for instance, that
every coroutine that executes holds the reservation of its scenario, so that
`OneReservation` leaves no other run that could write `scenario.json`; for
`ResetSparesLiveRuns`, that every coroutine that executes is of a run in
`_active_runs`, and therefore every `last_run_id` that one of them writes. Each preservation proof has one step per action.
The refinement proof maps each action to a step of `ServedResult` or to a
stutter; the invariants supply, for instance, that a run database that is
deleted belongs to a scenario whose pointer goes in the same step.

For the mutex, for any processes, names and timeout: `MutexTypeCorrect`,
`LocksAreNotLeaked` (from: whoever is inside knows it, a lock file bears
the name its creator computed, and whoever is outside with a lock file of its own
on disk has logged an error) and `NamesExclude`: as long as no lock file has
been old, processes that computed the same name exclude each other, whatever the
others computed (from: the file of a name belongs to the process of that name
that is inside or releasing, and no other living process of that name believes it
has acquired anything). With one name this is `FreshLocksExclude`, and, where no
lock ever gets old, plain mutual exclusion (`MutexExcludes`).
`TwoProcessesExclude` goes further for two processes: if only lock files get old
whose creators were killed or could not remove them, the removal of such a file
cannot hurt, because the creator is the only other process and is no longer
inside. TLC refutes it for three processes: two of them see the same old file, and
the second removes the new one of the first.

For the pool, for any finite sets of jobs and workers: `PoolTypeCorrect`,
`ReportsAreTrue` (from: a job is in one place at a time, and without workers
the queues are empty), the refinement `PoolKeepsItsPromise`, `NoWorkerIsLeft` and
`MissingAreAccountedFor`. The refinement needs to know, in addition, that nothing is told
twice (`Once`): a result on its way, in a worker's buffer or in the pipe, is of a job
without an outcome and in one place only; nothing is in the buffer of a worker that
has not started or is gone; and a parent that runs the jobs itself has told of those
that have run. With it every action is one step of `PoolPromise` or a stutter.
`MissingAreAccountedFor` needs to know where each outcome is (`Held`): as long as
the parent does not terminate its workers, a job that nobody has taken is in the
queue; one that has not ended is with the worker that took it, and one that has
ended is in its buffer, in the event queue or told, unless that worker was killed;
and a worker leaves only an empty queue.

For the pipeline, for any range of years, number of runs, configurations and
setups: `PipelineTypeCorrect`, `EarlierYearsStay`, `RebuiltYearsStayClean`,
`CompletedYearsStayChained`, and `MixturesAreReported`. The latter assumes
`ResetsAreWhole`: a setup that resets everything does so for all tables. With a
reset that is limited to some of them the theorem is false, because the drift
message is downgraded all the same. The invariant behind them consists of: where
a run can be in its years (`Position`); that rows and projections only name runs
that have begun (`NumbersInv`); which runs the record accounts for
(`AccountInv`); what a clearing run has cleared so far (`ClearedInv`); that what
it has built so far, the projections included, descends from itself and from the
years before its first one (`CleanInv`); and that each year so far is there and
has its year before (`ChainInv`). `BuildKeeps` is the one argument all the
builds share. `DryRunsOnlyDelete` delimits the finding about dry runs: each step of
one leaves the rows of a table and year as they are or empties them, and writes
nothing else; it follows from a dry run never being at the step that records it.

For the dashboard: `NewsInvariant`, and from it `TerminalStaysQuiet` and
`RunIsNeverForgotten`. It says in addition which timer stands in for a missing
socket: a reconnect, or, while the page polls, the upgrade.
`DashboardTypeCorrect` covers the bounds of the queue and of the polls in
flight, and `NewsIsComplete` the property `NothingIsMissed`. Its invariant
(`FeedInv`) says that what the page shows, or will show once it has received the
snapshot at the head of its queue, is a run of successive milestones that begins
with the first or with one that the service keeps or has dropped since
(`ReachesBack`, `Behind`), that the rest waits in the queue, in ascending order
(`QueueInOrder`), and that an answer about that run, however old, tells of such a
stretch too (`PollsTell`). A delivery then extends the stretch or leaves it, and an
answer that is taken without loss ends no earlier.

For the jobs, for any databases, directories and bounds: `JobsTypeCorrect`,
`JobsInvariant`, and from it `BuildsStayApart`, `LocksComeFree`,
`ReservationsComeFree`, `SearchesStayApart` and `LiveJobsStayKnown`. Its four
parts say that a build of a database holds its lock and a lock is held by a job
that is at work (`LockInv`); that what is posted or searching is reserved, and no
directory twice (`ClaimInv`); that a claimed directory holds nothing of another
search (`FreshInv`); and, `LiveJobsAreKnown` aside, that a job whose thread has
recorded its result has one (`KnownInv`). `FinishedStayKept` and `CopiesStayKept`
count. What a registry or the directory of copies keeps is defined as its newest
members, those with fewer than the limit after them. In a finite set of naturals
the number of members after one tells them apart (`RankInjects`), so there are no
more newest members than the limit (`NewestAreFew`), and at least the limit after
one that is not among them (`NewestAreEnough`): whatever is forgotten makes
place for enough, and a job that finishes later only adds to them. For the copies
the two halves are invariants. `RoomInv`: also what a job has listed for removal has
enough newer copies, since a removal takes only copies older than these.
`OriginInv`: every copy that is neither spared nor about to be removed is one of the
newest at the last pruning, or that of a job that was between its pruning and its
copy then.

Assumptions on constants are the named ASSUMEs of the modules, which TLC
evaluates in the runs: the "none" values are outside their sets, the
environment is made of the known events, bounds are naturals, the range of years
is not empty, the pool is finite and has a worker. `ResetsAreWhole` is the
hypothesis of a theorem and not assumed of the model.

## What the models found

* `deleted_ready`: DELETE database writes the status "pending", which the
  scenario model does not admit; the read-back in the same call raises, and so
  does every later read. The scenario cannot be started again.
* `newest_attempt`: a cancel frees the scenario before the coroutine of the
  cancelled run has woken; a run started in between gets its scenario.json
  overwritten by the old one's failure handler.
* `mutex_hashed_name`: the pipeline derives its lock name from `hash(str)`,
  which differs from process to process, so that two processes on one database
  do not exclude each other.
* `dry_run`: the reset and the clearing of years do not look at `dry_run`: a dry
  run over existing years deletes their rows and rebuilds none of them.
* `default_runs`: two calibrations without a database that start within one
  second get the same copy and build in it together.

Seen in the models, without a run of its own:

* If the fsync of the directory fails after the pointer was replaced, the run is
  recorded as failed while it is served. Adding "fsync" to `Environment` breaks
  `ServedRunIsComplete`; the theorems about it exclude that event.
* In the pool, a result that arrives between the empty poll and the test for
  live workers is drained, and the job reported as that of a dead worker.
* When reading the output of a run raises, the run fails and its process goes on;
  the next run of the scenario starts beside it. Each run has its own database, so
  what is served stays complete.
* A second Ctrl+C while the pool terminates its workers leaves the live ones.
* A killed worker loses the outcomes in its buffer besides its job.
* A lock file whose removal fails blocks everybody for an hour, although its
  process is gone.
* Two calibrations without a database that both prune before either copies, or one
  copy that cannot be removed, leave more copies than the retention
  (`calibration_runner.py:266-267` promises that they do not); and a pruning may
  remove the copy of a build that still runs.
* A full reset that `setup.patterns` limits to some tables downgrades the drift
  message, although older generations stay in the others.
* A poll answered late may put an older state of the run, or the state of
  another run, back on the page.
* A search request that raises after its reservation leaks its directories until
  the API restarts.

## What is only checked, and what is not modelled

Only model-checked: everything with fairness (`EveryRunSettles`,
`DashboardSettles`, `BatchSettles`, `AcquireReturns`, `StaleLockIsRemoved`,
`PoolReturns`, `EndedRunIsReleased`), which is out of the reach of the prover.
Every invariant, action property and refinement of a passing run is a theorem.

Not modelled at all, with the reasons in `PROJECT.json`: the contents of
configurations, databases, logs and exports; the SQL of the dbt project beyond
which table reads which; the statistics of the fitting, evidence, backtest,
ensemble and optimizer packages; the read-only services; the user interface
except the live dashboard.

Known simplifications, module by module:

* *Lifecycle*: `scenario.json` is written atomically and its write does not fail:
  an error of `update_scenario_status` in `start_simulation`, which would leave an
  entry in `_active_runs` (`simulations.py:157-158`), is not modelled. That of
  archiving a failed run is ("record"), and it is off in `lifecycle_safety`, whose
  `SettledRunIsInHistory` and `DashboardAgreesWithHistory` it breaks, and on in
  `lifecycle_liveness`. A process killed by the API dies; `terminate()` does not fail
  with an operating system error other than "no such process".
  `cleanup_old_runs` (retention) and `delete_run` of the storage are left out
  because nothing in the repository but tests calls them;
  `storage.max_runs_per_scenario` of the configuration has no effect.
* *Pipeline*: left out are the hooks, the registries, seeds and staging models,
  hazard caches, the warning about stale years beyond the range, the sharded
  event engine, and the error that `clear_year_fact_rows` swallows. A failed
  validation is a `Fail` like another. The start year of the configuration does
  not move between runs, and a database has one scenario id. The instance has
  the default setup and the full reset.
* *Dashboard*: left out are the badge for stale data, the cutoff after 30 minutes,
  the batch socket with its legacy updates, the caps of samples and warnings, the throttle as a
  clock (an update may or may not be sent), and every other page. There is one
  page.
* *Mutex*: the write into a new lock file either succeeds or leaves the file; an
  `exists()` that raises counts as a `stat()` that does.
* *Pool*: a third Ctrl+C, or one while `_record_interrupted` and the `finally` run,
  is not modelled; it could only skip what they do.
* *Jobs*: the removals of one pruning are one step, which may stop anywhere, and a
  copy is there once copying has begun. Left out are temporary configuration files, directories nested in one
  another, and the search itself. Numbers stand for `created_at`, so the order
  of two concurrent registrations is that of their times. The threads of a
  process that dies stop with it; worker processes of a search that outlive it
  are not modelled.

## Plan

Done: the run lifecycle with the promise it implements, the mutex, the pool, the
pipeline with its state accumulation and provenance, the dashboard, and the
background jobs, each with its proofs.

Left, in this order:

1. `RunLifecycle` with truncated `scenario.json` files and their repair, and
   with the import of a workspace, whose test for running simulations looks at
   the status alone.
2. Self-healing initialization over `ExecutionMutex`; the synchronisation of
   workspaces over Git.
3. Pure algorithms against reference definitions: the worker budget, the deep
   merge of configurations, the Pareto filter, the grouping of models by their
   dependencies.
