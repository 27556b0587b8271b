---------------------------- MODULE RunLifecycle ----------------------------
(***************************************************************************)
(* The life of a managed simulation run in the API process                 *)
(* (planalign_api): reservation by POST run, execution of the simulation   *)
(* subprocess, cancellation, failure, publication of the result, batch     *)
(* runs that bypass the reservation, deletion of results, and a restart of *)
(* the API process.                                                        *)
(*                                                                         *)
(* Everything the API does runs on one asyncio event loop, so a coroutine  *)
(* is atomic from one await to the next: an action below is one such       *)
(* stretch, with every call it makes.  The waits that split a coroutine    *)
(* are create_subprocess, the output stream and process.wait (an           *)
(* execution), process.wait inside _stop_process (a cancellation), and the *)
(* worker thread of the Excel export.                                      *)
(***************************************************************************)
EXTENDS Naturals, FiniteSets

CONSTANTS
  Scenarios,     \* scenario ids
  Runs,          \* run ids: uuid4, so every attempt takes one never used
  NoScenario,    \* owner of an id that is not yet an attempt
  NoRun,         \* absent last_run_id, absent current_result.json
  Environment,   \* which outside events this instance includes
  MaxRestarts    \* bound on the restarts of the API process

\* "prepare"  validation of census/config or the spawn of the CLI may fail
\* "stream"   reading the output of the CLI may raise (a line over the limit of
\*            the StreamReader, telemetry, the log file), while it still runs
\* "archive"  the run database may be unreadable, or the publication may
\*            fail before current_result.json is replaced
\* "fsync"    os.replace of current_result.json succeeds and the fsync of its
\*            directory then raises
\* "record"   the metadata of a failed run may be left unwritten: its directory
\*            was not allocated, or archive_failed_run raises, which is logged
\* "cancel", "batch", "delete", "restart": the endpoint or event may happen
EnvironmentEvents == {"prepare", "stream", "archive", "fsync", "record",
                      "cancel", "batch", "delete", "restart"}

ASSUME ConstantsAssumption ==
  /\ NoScenario \notin Scenarios
  /\ NoRun \notin Runs
  /\ Environment \subseteq EnvironmentEvents
  /\ MaxRestarts \in Nat

VARIABLES
  \* files under workspaces/<w>/scenarios/<s>/
  status,        \* scenario.json "status"; "deleted": the directory is gone
  last,          \* scenario.json "last_run_id"
  current,       \* current_result.json: the run that readers are served
  meta,          \* runs/<r>/run_metadata.json "status"
  db,            \* the runs whose runs/<r>/simulation.duckdb exists
  \* memory of the API process
  registry,      \* _active_runs: status of each run in it
  telem,         \* TelemetryService._runs: status of each run in it
  procs,         \* ActiveProcessRegistry.processes
  cancelledRuns, \* ActiveProcessRegistry.cancelled_runs
  task,          \* where the execute_simulation coroutine of a run stands
  cancelling,    \* runs with a cancel request waiting in _stop_process
  outcome,       \* BatchScenario.status of a batch run
  \* the operating system, and history
  proc,          \* the simulation subprocess
  owner,         \* the scenario of every run id taken so far
  restarts

files  == <<status, last, current, meta, db>>
memory == <<registry, telem, procs, cancelledRuns, task, cancelling, outcome>>
vars   == <<files, memory, proc, owner, restarts>>

----------------------------------------------------------------------------
NonTerminal == {"pending", "queued", "running"}
Terminal    == {"completed", "failed", "cancelled"}

\* Scenario.status is a Literal: any other value makes every read raise.
ModelStatuses == {"not_run", "queued", "running"} \cup Terminal

Exists(s)   == status[s] # "deleted"
Readable(s) == status[s] \in ModelStatuses

Unused(r)   == owner[r] = NoScenario
RunsOf(s)   == {r \in Runs : owner[r] = s}
Waiting     == {"queued", "spawning", "streaming"}
Executing   == {r \in Runs : task[r] \in Waiting}
Exited(r)   == proc[r] \in {"ok", "error"}
IsBatch(r)  == outcome[r] # "none"

\* storage.update_scenario_status: no effect once scenario.json is gone.
SetStatus(s, st) == IF Exists(s) THEN [status EXCEPT ![s] = st] ELSE status
SetLast(s, r)    == IF Exists(s) THEN [last EXCEPT ![s] = r] ELSE last

\* update_run_status: only a run of the registry has a status to update.
SetRegistry(r, st) ==
  IF registry[r] = "absent" THEN registry ELSE [registry EXCEPT ![r] = st]

\* TelemetryService.set_terminal: only a run with telemetry state.
SetTelemetry(r, st) ==
  IF telem[r] = "absent" THEN telem ELSE [telem EXCEPT ![r] = st]

\* TelemetryService.start_run drops the state of the scenario's other runs.
StartTelemetry(s, r) ==
  [q \in Runs |-> IF q = r THEN "running"
                  ELSE IF owner[q] = s THEN "absent" ELSE telem[q]]

Init ==
  /\ status = [s \in Scenarios |-> "not_run"]
  /\ last = [s \in Scenarios |-> NoRun]
  /\ current = [s \in Scenarios |-> NoRun]
  /\ meta = [r \in Runs |-> "none"]
  /\ db = {}
  /\ registry = [r \in Runs |-> "absent"]
  /\ telem = [r \in Runs |-> "absent"]
  /\ procs = {}
  /\ cancelledRuns = {}
  /\ task = [r \in Runs |-> "none"]
  /\ cancelling = {}
  /\ outcome = [r \in Runs |-> "none"]
  /\ proc = [r \in Runs |-> "none"]
  /\ owner = [r \in Runs |-> NoScenario]
  /\ restarts = 0

----------------------------------------------------------------------------
(* Starting a run *)

\* Faulty variant: trusts scenario.json alone.
MayReserveByStatus(s) == Readable(s) /\ status[s] \notin NonTerminal

\* The test that start_simulation makes under _active_runs_lock.
MayReserve(s) ==
  /\ Readable(s)
  /\ status[s] \notin NonTerminal
  /\ \A q \in RunsOf(s) : registry[q] \notin NonTerminal

\* Faulty variant: the registry takes a status that SimulationRun lacks.
StartSimulationQueued(s, r) ==
  /\ Unused(r)
  /\ MayReserve(s)
  /\ owner' = [owner EXCEPT ![r] = s]
  /\ registry' = [registry EXCEPT ![r] = "queued"]
  /\ status' = [status EXCEPT ![s] = "queued"]
  /\ last' = [last EXCEPT ![s] = r]
  /\ task' = [task EXCEPT ![r] = "queued"]
  /\ UNCHANGED <<current, meta, db, telem, procs, cancelledRuns, cancelling,
                 outcome, proc, restarts>>

\* POST /{scenario}/run: check and reserve; the background task runs later.
StartSimulation(s, r) ==
  /\ Unused(r)
  /\ MayReserve(s)
  /\ owner' = [owner EXCEPT ![r] = s]
  /\ registry' = [registry EXCEPT ![r] = "pending"]
  /\ status' = [status EXCEPT ![s] = "queued"]
  /\ last' = [last EXCEPT ![s] = r]
  /\ task' = [task EXCEPT ![r] = "queued"]
  /\ UNCHANGED <<current, meta, db, telem, procs, cancelledRuns, cancelling,
                 outcome, proc, restarts>>

\* Faulty variant: a failed run leaves no metadata.
HandleFailureUnrecorded(s, r, cur, met, tel) ==
  LET st == IF r \in cancelledRuns THEN "cancelled" ELSE "failed" IN
  /\ registry' = SetRegistry(r, st)
  /\ status' = SetStatus(s, st)
  /\ last' = SetLast(s, r)
  /\ telem' = IF tel[r] = "absent" THEN tel ELSE [tel EXCEPT ![r] = st]
  /\ current' = cur
  /\ meta' = met
  /\ task' = [task EXCEPT ![r] = "done"]
  /\ UNCHANGED outcome

\* _handle_simulation_failure of run r of scenario s, from a state where the
\* pointers are cur, the metadata met and the telemetry tel.  The outcome of a
\* batch run is what run_scenario reads back from scenario.json, "failed" if it
\* is gone.
HandleFailure(s, r, cur, met, tel) ==
  LET st == IF r \in cancelledRuns THEN "cancelled" ELSE "failed" IN
  /\ registry' = SetRegistry(r, st)
  /\ status' = SetStatus(s, st)
  /\ last' = SetLast(s, r)
  /\ telem' = IF tel[r] = "absent" THEN tel ELSE [tel EXCEPT ![r] = st]
  /\ \/ meta' = [met EXCEPT ![r] = st]
     \/ "record" \in Environment /\ meta' = met
  /\ current' = cur
  /\ task' = [task EXCEPT ![r] = "done"]
  /\ outcome' = IF IsBatch(r)
                THEN [outcome EXCEPT ![r] = IF Exists(s) THEN st ELSE "failed"]
                ELSE outcome

\* execute_simulation up to the spawn: start_run, both statuses "running", run
\* directory, census/config/seed validation.
Prepared(s, r) ==
  /\ registry' = SetRegistry(r, "running")
  /\ status' = SetStatus(s, "running")
  /\ last' = SetLast(s, r)
  /\ telem' = StartTelemetry(s, r)
  /\ task' = [task EXCEPT ![r] = "spawning"]
  /\ outcome' = IF IsBatch(r) THEN [outcome EXCEPT ![r] = "running"] ELSE outcome
  /\ UNCHANGED <<meta, current>>

\* Faulty variants: the failure reaches only the telemetry, or all but it.
PrepareFailsUnreserved(s, r) ==
  /\ "prepare" \in Environment
  /\ telem' = [StartTelemetry(s, r) EXCEPT ![r] = "failed"]
  /\ task' = [task EXCEPT ![r] = "done"]
  /\ UNCHANGED <<status, last, current, meta, registry, outcome>>

PrepareFailsDark(s, r) ==
  /\ "prepare" \in Environment
  /\ registry' = SetRegistry(r, "failed")
  /\ status' = SetStatus(s, "failed")
  /\ telem' = StartTelemetry(s, r)
  /\ task' = [task EXCEPT ![r] = "done"]
  /\ UNCHANGED <<last, current, meta, outcome>>

PrepareFails(s, r) ==
  /\ "prepare" \in Environment
  /\ HandleFailure(s, r, current, meta, StartTelemetry(s, r))

\* The background task of a reserved run starts.
ExecuteReserved(r) ==
  /\ task[r] = "queued"
  /\ ~IsBatch(r)
  /\ Prepared(owner[r], r) \/ PrepareFails(owner[r], r)
  /\ UNCHANGED <<db, procs, cancelledRuns, cancelling, proc, owner, restarts>>

\* run-all puts scenario s in a batch job, with no reservation and no entry in
\* _active_runs.  (The run id is drawn only when the scenario's turn comes.)
BatchQueue(s, r) ==
  /\ "batch" \in Environment
  /\ Unused(r)
  /\ Readable(s)
  /\ owner' = [owner EXCEPT ![r] = s]
  /\ task' = [task EXCEPT ![r] = "queued"]
  /\ outcome' = [outcome EXCEPT ![r] = "pending"]
  /\ UNCHANGED <<files, registry, telem, procs, cancelledRuns, cancelling,
                 proc, restarts>>

\* Faulty variant: the error of a missing config is not caught.
ExecuteBatchUncaught(r) ==
  /\ task[r] = "queued"
  /\ IsBatch(r)
  /\ Readable(owner[r])
  /\ Prepared(owner[r], r) \/ PrepareFails(owner[r], r)
  /\ UNCHANGED <<db, procs, cancelledRuns, cancelling, proc, owner, restarts>>

\* run_scenario: without a merged config the scenario of the batch fails and
\* nothing runs, otherwise execute_simulation is awaited.
ExecuteBatch(r) ==
  /\ task[r] = "queued"
  /\ IsBatch(r)
  /\ IF Readable(owner[r])
     THEN Prepared(owner[r], r) \/ PrepareFails(owner[r], r)
     ELSE /\ task' = [task EXCEPT ![r] = "done"]
          /\ outcome' = [outcome EXCEPT ![r] = "failed"]
          /\ UNCHANGED <<status, last, current, meta, registry, telem>>
  /\ UNCHANGED <<db, procs, cancelledRuns, cancelling, proc, owner, restarts>>

----------------------------------------------------------------------------
(* The subprocess and the end of a run *)

\* create_subprocess returns and the process is registered for cancellation.
Spawn(r) ==
  /\ task[r] = "spawning"
  /\ proc' = [proc EXCEPT ![r] = "running"]
  /\ procs' = procs \cup {r}
  /\ task' = [task EXCEPT ![r] = "streaming"]
  /\ UNCHANGED <<files, registry, telem, cancelledRuns, cancelling, outcome,
                 owner, restarts>>

SpawnFails(r) ==
  /\ "prepare" \in Environment
  /\ task[r] = "spawning"
  /\ HandleFailure(owner[r], r, current, meta, telem)
  /\ UNCHANGED <<db, procs, cancelledRuns, cancelling, proc, owner, restarts>>

\* The CLI creates its database on the first write.
ProcessWrites(r) ==
  /\ proc[r] = "running"
  /\ db' = db \cup {r}
  /\ UNCHANGED <<status, last, current, meta, memory, proc, owner, restarts>>

\* The CLI exits: "ok" with code 0, "error" otherwise, a signal included.
ProcessExits(r) ==
  /\ proc[r] = "running"
  /\ \E code \in {"ok", "error"} : proc' = [proc EXCEPT ![r] = code]
  /\ UNCHANGED <<files, memory, owner, restarts>>

\* Faulty variant: the run database is not looked at.
CanFinalizeUnchecked(s, r) == Exists(s) => Readable(s)

\* What _finalize_successful_simulation finds when it can complete:
\* get_scenario does not raise, and archive_run finds the database.
CanFinalize(s, r) == (Exists(s) => Readable(s)) /\ r \in db

\* Faulty variant: no terminal telemetry.
FinalizeSilently(s, r) ==
  /\ CanFinalize(s, r)
  /\ meta' = [meta EXCEPT ![r] = "completed"]
  /\ current' = [current EXCEPT ![s] = r]
  /\ registry' = SetRegistry(r, "completed")
  /\ status' = SetStatus(s, "completed")
  /\ last' = SetLast(s, r)
  /\ task' = [task EXCEPT ![r] = "exporting"]
  /\ UNCHANGED <<telem, outcome>>

Finalize(s, r) ==
  /\ CanFinalize(s, r)
  /\ meta' = [meta EXCEPT ![r] = "completed"]
  /\ current' = [current EXCEPT ![s] = r]
  /\ registry' = SetRegistry(r, "completed")
  /\ status' = SetStatus(s, "completed")
  /\ last' = SetLast(s, r)
  /\ telem' = SetTelemetry(r, "completed")
  /\ task' = [task EXCEPT ![r] = "exporting"]
  /\ UNCHANGED outcome

\* The pointer files that a finalization which raises may leave behind.
PointersAfterRaise(s, r) ==
  {cur \in {current, [current EXCEPT ![s] = r]} :
     \/ cur = current /\ (CanFinalize(s, r) => "archive" \in Environment)
     \/ cur # current /\ CanFinalize(s, r) /\ "fsync" \in Environment}

\* The metadata it leaves with such a pointer: archive_run writes "completed"
\* before it looks at the database.
RecordsAfterRaise(s, r, cur) ==
  {met \in {meta, [meta EXCEPT ![r] = "completed"]} :
     IF met = meta
     THEN cur = current /\ ((Exists(s) => Readable(s)) => "archive" \in Environment)
     ELSE Exists(s) => Readable(s)}

\* Faulty variant: a non-zero exit code is not noticed.
FinishRunOk(r) ==
  /\ task[r] = "streaming"
  /\ proc[r] = "ok"
  /\ procs' = procs \ {r}
  /\ Finalize(owner[r], r) \/ HandleFailure(owner[r], r, current, meta, telem)
  /\ UNCHANGED <<db, cancelledRuns, cancelling, proc, owner, restarts>>

\* execute_run sees the end of the output and the exit code, and the rest of
\* execute_simulation follows without an await, up to the Excel export.
FinishRun(r) ==
  /\ task[r] = "streaming"
  /\ Exited(r)
  /\ procs' = procs \ {r}
  /\ IF r \in cancelledRuns \/ proc[r] = "error"
     THEN HandleFailure(owner[r], r, current, meta, telem)
     ELSE \/ Finalize(owner[r], r)
          \/ \E cur \in PointersAfterRaise(owner[r], r) :
             \E met \in RecordsAfterRaise(owner[r], r, cur) :
               HandleFailure(owner[r], r, cur, met, telem)
  /\ UNCHANGED <<db, cancelledRuns, cancelling, proc, owner, restarts>>

\* stream_output raises before the exit of the process is waited for: the run
\* fails, and the process is neither stopped nor forgotten by the registry.
StreamFails(r) ==
  /\ "stream" \in Environment
  /\ task[r] = "streaming"
  /\ HandleFailure(owner[r], r, current, meta, telem)
  /\ UNCHANGED <<db, procs, cancelledRuns, cancelling, proc, owner, restarts>>

\* The export thread returns; a batch run now reads its outcome back.
ExportDone(r) ==
  /\ task[r] = "exporting"
  /\ task' = [task EXCEPT ![r] = "done"]
  /\ outcome' = IF ~IsBatch(r) THEN outcome
                ELSE [outcome EXCEPT ![r] = IF status[owner[r]] \in Terminal
                                            THEN status[owner[r]] ELSE "failed"]
  /\ UNCHANGED <<files, registry, telem, procs, cancelledRuns, cancelling,
                 proc, owner, restarts>>

----------------------------------------------------------------------------
(* Cancellation, reset, deletion *)

\* A cancel request finds its run: status "running", subprocess registered.
MayCancel(r) ==
  /\ "cancel" \in Environment
  /\ registry[r] = "running"
  /\ r \in procs

\* ActiveProcessRegistry.cancel after _stop_process, and the rest of the
\* cancel_simulation endpoint.  An unreadable scenario.json makes it raise
\* between the registry's status and the scenario's.
CancelEffects(s, r) ==
  /\ cancelledRuns' = cancelledRuns \cup {r}
  /\ procs' = procs \ {r}
  /\ registry' = [registry EXCEPT ![r] = "cancelled"]
  /\ IF Exists(s) /\ ~Readable(s)
     THEN UNCHANGED <<status, telem>>
     ELSE /\ status' = SetStatus(s, "cancelled")
          /\ telem' = SetTelemetry(r, "cancelled")
  /\ UNCHANGED <<last, current, meta, db, task, outcome, proc, owner, restarts>>

\* terminate() is sent and the request waits for the process to exit.
CancelBegin(r) ==
  /\ MayCancel(r)
  /\ proc[r] = "running"
  /\ r \notin cancelling
  /\ cancelling' = cancelling \cup {r}
  /\ UNCHANGED <<files, registry, telem, procs, cancelledRuns, task, outcome,
                 proc, owner, restarts>>

\* The process is gone already: terminate() raises ProcessLookupError.
CancelExited(r) ==
  /\ MayCancel(r)
  /\ Exited(r)
  /\ CancelEffects(owner[r], r)
  /\ UNCHANGED cancelling

\* Faulty variant: does not wait for the process to be gone.
CancelFinishEarly(r) ==
  /\ r \in cancelling
  /\ CancelEffects(owner[r], r)
  /\ cancelling' = cancelling \ {r}

\* The wait of _stop_process ends.
CancelFinish(r) ==
  /\ r \in cancelling
  /\ Exited(r)
  /\ CancelEffects(owner[r], r)
  /\ cancelling' = cancelling \ {r}

\* Faulty variant: a queued scenario is not considered stuck.
ResettableRunning(s) ==
  /\ status[s] = "running"
  /\ last[s] = NoRun \/ registry[last[s]] = "absent"

\* POST /{scenario}/run/reset
Resettable(s) ==
  /\ status[s] \in {"running", "queued"}
  /\ last[s] = NoRun \/ registry[last[s]] = "absent"

ResetStatus(s) ==
  /\ Resettable(s)
  /\ status' = [status EXCEPT ![s] = "failed"]
  /\ UNCHANGED <<last, current, meta, db, memory, proc, owner, restarts>>

\* DELETE /{workspace}/scenarios/{scenario}/database.  "pending" is the status
\* the endpoint writes once something was deleted.
DeleteDatabase(s) ==
  /\ "delete" \in Environment
  /\ Readable(s)
  /\ current[s] # NoRun \/ RunsOf(s) \cap db # {}
  /\ current' = [current EXCEPT ![s] = NoRun]
  /\ db' = db \ RunsOf(s)
  /\ status' = [status EXCEPT ![s] = "pending"]
  /\ UNCHANGED <<last, meta, memory, proc, owner, restarts>>

\* DELETE /{workspace}/scenarios/{scenario}: rmtree, whatever is running.
DeleteScenario(s) ==
  /\ "delete" \in Environment
  /\ Exists(s)
  /\ status' = [status EXCEPT ![s] = "deleted"]
  /\ last' = [last EXCEPT ![s] = NoRun]
  /\ current' = [current EXCEPT ![s] = NoRun]
  /\ meta' = [r \in Runs |-> IF owner[r] = s THEN "none" ELSE meta[r]]
  /\ db' = db \ RunsOf(s)
  /\ UNCHANGED <<memory, proc, owner, restarts>>

----------------------------------------------------------------------------
(* The API process dies and a new one starts: its memory is lost, files and
   running subprocesses are not *)

LoseMemory ==
  /\ "restart" \in Environment
  /\ restarts < MaxRestarts
  /\ restarts' = restarts + 1
  /\ registry' = [r \in Runs |-> "absent"]
  /\ telem' = [r \in Runs |-> "absent"]
  /\ procs' = {}
  /\ cancelledRuns' = {}
  /\ task' = [r \in Runs |-> "none"]
  /\ cancelling' = {}
  /\ outcome' = [r \in Runs |-> "none"]
  /\ UNCHANGED <<proc, owner>>

Restart == LoseMemory /\ UNCHANGED files

\* It dies inside Finalize, after the metadata, which is written before the
\* database is looked at, or after the pointer.
RestartInFinalize(r) ==
  LET s == owner[r] IN
  /\ LoseMemory
  /\ task[r] = "streaming"
  /\ proc[r] = "ok"
  /\ r \notin cancelledRuns
  /\ Exists(s) => Readable(s)
  /\ meta' = [meta EXCEPT ![r] = "completed"]
  /\ \/ current' = current
     \/ CanFinalize(s, r) /\ current' = [current EXCEPT ![s] = r]
  /\ UNCHANGED <<status, last, db>>

\* It dies inside HandleFailure, with scenario.json written and no metadata.
RestartInFailure(r) ==
  LET s == owner[r] IN
  /\ LoseMemory
  /\ task[r] = "streaming"
  /\ proc[r] = "error" \/ r \in cancelledRuns \/ "stream" \in Environment
  /\ status' = SetStatus(s, IF r \in cancelledRuns THEN "cancelled" ELSE "failed")
  /\ last' = SetLast(s, r)
  /\ UNCHANGED <<current, meta, db>>

\* Faulty variant: the run databases are removed before the pointer.
RestartInDeleteRunsFirst(s) ==
  /\ LoseMemory
  /\ "delete" \in Environment
  /\ Readable(s)
  /\ \E D \in SUBSET RunsOf(s) : db' = db \ D
  /\ UNCHANGED <<status, last, current, meta>>

\* It dies inside delete_scenario_database, which removes the pointer before
\* the run databases.
RestartInDelete(s) ==
  /\ LoseMemory
  /\ "delete" \in Environment
  /\ Readable(s)
  /\ current' = [current EXCEPT ![s] = NoRun]
  /\ \E D \in SUBSET RunsOf(s) : db' = db \ D
  /\ UNCHANGED <<status, last, meta>>

----------------------------------------------------------------------------
RunStep(r) ==
  \/ ExecuteReserved(r)
  \/ ExecuteBatch(r)
  \/ Spawn(r)
  \/ SpawnFails(r)
  \/ ProcessWrites(r)
  \/ ProcessExits(r)
  \/ FinishRun(r)
  \/ StreamFails(r)
  \/ ExportDone(r)
  \/ CancelBegin(r)
  \/ CancelExited(r)
  \/ CancelFinish(r)
  \/ RestartInFinalize(r)
  \/ RestartInFailure(r)

ScenarioStep(s) ==
  \/ \E r \in Runs : StartSimulation(s, r) \/ BatchQueue(s, r)
  \/ ResetStatus(s)
  \/ DeleteDatabase(s)
  \/ DeleteScenario(s)
  \/ RestartInDelete(s)

Next ==
  \/ \E r \in Runs : RunStep(r)
  \/ \E s \in Scenarios : ScenarioStep(s)
  \/ Restart

Spec == Init /\ [][Next]_vars

\* The event loop runs every coroutine that is ready, create_subprocess and
\* the export thread return, and a CLI terminates whose output is read, or that
\* is being cancelled (SIGKILL after CANCEL_GRACE_SECONDS makes it).
Fairness ==
  \A r \in Runs :
    /\ WF_vars(ExecuteReserved(r) \/ ExecuteBatch(r))
    /\ WF_vars(Spawn(r) \/ SpawnFails(r))
    /\ WF_vars((task[r] = "streaming" \/ r \in cancelling) /\ ProcessExits(r))
    /\ WF_vars(FinishRun(r))
    /\ WF_vars(ExportDone(r))
    /\ WF_vars(CancelFinish(r))

FairSpec == Spec /\ Fairness

----------------------------------------------------------------------------
(* Properties *)

TypeOK ==
  /\ status \in [Scenarios -> ModelStatuses \cup {"pending", "deleted"}]
  /\ last \in [Scenarios -> Runs \cup {NoRun}]
  /\ current \in [Scenarios -> Runs \cup {NoRun}]
  /\ meta \in [Runs -> Terminal \cup {"none"}]
  /\ db \subseteq Runs
  /\ registry \in [Runs -> {"absent", "pending", "running"} \cup Terminal]
  /\ telem \in [Runs -> {"absent", "running"} \cup Terminal]
  /\ procs \subseteq Runs
  /\ cancelledRuns \subseteq Runs
  /\ task \in [Runs -> Waiting \cup {"none", "exporting", "done"}]
  /\ cancelling \subseteq Runs
  /\ outcome \in [Runs -> {"none", "pending", "running"} \cup Terminal]
  /\ proc \in [Runs -> {"none", "running", "ok", "error"}]
  /\ owner \in [Runs -> Scenarios \cup {NoScenario}]
  /\ restarts \in Nat

\* The run that readers of a scenario are served is an attempt of that
\* scenario, recorded as completed, whose database exists, whose subprocess
\* exited with code 0 (so nothing writes the database any more), and whose
\* coroutine can no longer record it as failed.  Broken by "fsync".
ServedRunIsComplete ==
  \A s \in Scenarios : current[s] # NoRun =>
    LET r == current[s] IN
    /\ owner[r] = s
    /\ meta[r] = "completed"
    /\ r \in db
    /\ proc[r] = "ok"
    /\ r \notin Executing

\* The check-and-reserve of start_simulation: of the runs of a scenario, at
\* most one in _active_runs is pending or running, however executions and
\* cancellations of earlier runs interleave with the new one.
OneReservation ==
  \A q, r \in Runs :
    /\ owner[q] = owner[r]
    /\ registry[q] \in NonTerminal
    /\ registry[r] \in NonTerminal
    => q = r

\* A reservation never outlives the coroutine that will settle it, so that
\* start_simulation cannot answer 409 for ever.
ReservationIsBacked ==
  \A r \in Runs : registry[r] \in NonTerminal => r \in Executing

\* A scenario shown as queued or running is never stuck: a coroutine is still
\* going to settle it, or the reset endpoint accepts it.
StuckIsResettable ==
  \A s \in Scenarios : status[s] \in {"queued", "running"} =>
    \/ \E r \in RunsOf(s) : r \in Executing
    \/ Resettable(s)

\* The runs of a scenario that went through the reservation never have two
\* live subprocesses whose output is being read: a cancelled run frees its
\* scenario only when its process is known to be dead.  (A process that lives
\* on without a reader is not counted: "stream" and "restart" leave one, and
\* the next run of the scenario then starts beside it.)
OneLiveProcess ==
  \A q, r \in Runs :
    /\ owner[q] = owner[r]
    /\ ~IsBatch(q) /\ ~IsBatch(r)
    /\ task[q] = "streaming" /\ task[r] = "streaming"
    /\ proc[q] = "running" /\ proc[r] = "running"
    => q = r

\* Every attempt that is over appears in the run history of its scenario, with
\* a terminal status: "completed" only if the CLI exited with code 0,
\* "cancelled" only if a cancel request succeeded.  Broken by "record".
SettledRunIsInHistory ==
  \A r \in Runs :
    /\ task[r] \in {"exporting", "done"}
    /\ proc[r] # "none"
    /\ Exists(owner[r])
    => /\ meta[r] \in Terminal
       /\ meta[r] = "completed" => proc[r] = "ok"
       /\ meta[r] = "cancelled" => r \in cancelledRuns

\* The dashboard and the run history tell the same end of a run: the telemetry
\* that is left once the coroutine is over shows what run_metadata.json records,
\* unless a cancel request succeeded as well.  Broken by "record".
DashboardAgreesWithHistory ==
  \A r \in Runs :
    /\ task[r] \in {"exporting", "done"}
    /\ telem[r] # "absent"
    /\ Exists(owner[r])
    => \/ telem[r] = meta[r]
       \/ telem[r] = "cancelled" /\ r \in cancelledRuns

\* Every attempt comes to an end: its coroutine settles it, or a restart of
\* the API process ends it.
EveryRunSettles == \A r \in Runs : (r \in Executing) ~> (task[r] \in {"done", "none"})

\* The dashboard never stays on "running" (FR-015 of spec 094): the telemetry
\* of a run reaches a terminal status or gives way to a newer run's.
DashboardSettles ==
  \A r \in Runs : (telem[r] = "running") ~> (telem[r] # "running")

\* Every scenario of a batch gets its outcome, unless the API restarts.
BatchSettles ==
  \A r \in Runs : (outcome[r] = "pending") ~> (outcome[r] \in Terminal \cup {"none"})

\* The promise of ServedResult: the coroutine of a live attempt is executing, a
\* good result is recorded as completed and has its database.
AttemptState(r) ==
  IF Unused(r) THEN <<"new">>
  ELSE IF r \in Executing THEN <<"live", owner[r]>>
  ELSE IF meta[r] = "completed" /\ r \in db THEN <<"good", owner[r]>>
  ELSE <<"over", owner[r]>>

Promise == INSTANCE ServedResult WITH
  Attempts <- Runs, Nothing <- NoRun, served <- current,
  state <- [r \in Runs |-> AttemptState(r)]

\* Readers of a scenario only ever get what ServedResult allows: a complete
\* result, put there by the success of a live attempt and by nothing else,
\* through cancellations, failures, deletions and restarts.  Broken by "fsync".
ServesCompleteResults == Promise!Spec

----------------------------------------------------------------------------
(* Statements of the documentation that the code does not keep *)

\* specs/122 contract, "Attempt versus result state": status and last_run_id
\* of scenario.json describe the newest attempt.
NewestAttemptIsDescribed ==
  \A r \in Runs : registry[r] \in NonTerminal /\ Exists(owner[r]) =>
    /\ status[owner[r]] \in {"queued", "running"}
    /\ last[owner[r]] = r

\* routers/scenarios.py, answer of DELETE database: "Scenario is ready for a
\* fresh simulation."  With nothing running, it can then be started.
DeletedIsReady ==
  \A s \in Scenarios :
    /\ status[s] = "pending"
    /\ RunsOf(s) \cap Executing = {}
    => MayReserve(s)
=============================================================================
