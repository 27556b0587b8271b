------------------------------ MODULE RunPool ------------------------------
(***************************************************************************)
(* ScenarioRunPool.run (planalign_orchestrator.run_pool).  With one worker *)
(* or one job the parent runs the jobs itself, one after the other.        *)
(* Otherwise worker processes take jobs from one queue and report their    *)
(* outcomes on another, and the parent collects them until every job has   *)
(* reported or every worker is gone.                                       *)
(*                                                                         *)
(* A put on a multiprocessing queue only fills a buffer of the putting     *)
(* process, which a thread of it flushes to a pipe: a killed process loses *)
(* what is in its buffer, one that exits flushes it first.  Job names are  *)
(* distinct, so results are keyed by job.  The JOB_STARTED events only     *)
(* drive the display and are left out.                                     *)
(***************************************************************************)
EXTENDS Naturals, FiniteSets

CONSTANTS
  Jobs,
  NoJob,        \* what an idle worker works on
  Workers,      \* min(max_workers, number of jobs) of them, when started
  NoWorker,     \* who took a job that nobody has taken
  Environment   \* "raise": a job may raise; "kill": a worker may be killed;
                \* "interrupt": Ctrl+C; "spawn": Process.start fails or is
                \* interrupted

ASSUME PoolAssumption ==
  /\ IsFiniteSet(Jobs) /\ IsFiniteSet(Workers)
  /\ Workers # {}
  /\ NoJob \notin Jobs /\ NoWorker \notin Workers
  /\ Environment \subseteq {"raise", "kill", "interrupt", "spawn"}

VARIABLES
  \* the worker processes
  worker,      \* where each worker stands
  job,         \* the job it is working on
  buffer,      \* the jobs whose outcome is in its buffer
  signalled,   \* the workers that have received SIGTERM
  takenBy,     \* the worker that took each job: worker_pid
  \* the queues
  queued,      \* jobs in the job queue
  sentinels,   \* Nones behind them
  pipe,        \* the jobs whose outcome is in the event queue
  \* the parent, and what really became of each job
  parent,      \* where the parent stands in run()
  results,     \* results[job.name].status
  ran          \* how far the job went

vars == <<worker, job, buffer, signalled, takenBy, queued, sentinels, pipe,
          parent, results, ran>>

Alive(w)    == worker[w] \in {"booting", "idle", "working", "leaving"}
Reported    == {j \in Jobs : results[j] # "none"}
Finished(j) == ran[j] \in {"ok", "raised"}

Init ==
  /\ worker = [w \in Workers |-> "new"]
  /\ job = [w \in Workers |-> NoJob]
  /\ buffer = [w \in Workers |-> {}]
  /\ signalled = {}
  /\ takenBy = [j \in Jobs |-> NoWorker]
  /\ queued = {}
  /\ sentinels = 0
  /\ pipe = {}
  /\ parent = "called"
  /\ results = [j \in Jobs |-> "none"]
  /\ ran = [j \in Jobs |-> "no"]

\* w goes on to where; the parent does.
WorkerTo(w, where) == worker' = [worker EXCEPT ![w] = where]
ParentTo(where)    == parent' = where
KeepQueues         == UNCHANGED <<queued, sentinels, pipe>>
KeepWorkers        == UNCHANGED <<worker, job, buffer, signalled, takenBy>>

----------------------------------------------------------------------------
(* A worker process *)

\* setsid and the signal handlers.
Boot(w) ==
  /\ worker[w] = "booting"
  /\ WorkerTo(w, "idle")
  /\ UNCHANGED <<job, buffer, signalled, takenBy, parent, results, ran>>
  /\ KeepQueues

TakeJob(w) ==
  /\ worker[w] = "idle"
  /\ \E j \in queued :
       /\ queued' = queued \ {j}
       /\ job' = [job EXCEPT ![w] = j]
       /\ takenBy' = [takenBy EXCEPT ![j] = w]
       /\ ran' = [ran EXCEPT ![j] = "started"]
  /\ WorkerTo(w, "working")
  /\ UNCHANGED <<buffer, signalled, sentinels, pipe, parent, results>>

TakeSentinel(w) ==
  /\ worker[w] = "idle"
  /\ queued = {}
  /\ sentinels > 0
  /\ sentinels' = sentinels - 1
  /\ WorkerTo(w, "leaving")
  /\ UNCHANGED <<job, buffer, signalled, takenBy, queued, pipe, parent, results, ran>>

\* Faulty variant: the exception is reported and ends the worker.
FinishJobUncontained(w) ==
  /\ worker[w] = "working"
  /\ \E end \in {"ok", "raised"} :
       /\ end = "raised" => "raise" \in Environment
       /\ ran' = [ran EXCEPT ![job[w]] = end]
       /\ WorkerTo(w, IF end = "ok" THEN "idle" ELSE "leaving")
  /\ buffer' = [buffer EXCEPT ![w] = @ \cup {job[w]}]
  /\ job' = [job EXCEPT ![w] = NoJob]
  /\ UNCHANGED <<signalled, takenBy, parent, results>>
  /\ KeepQueues

\* worker(job) returns or raises; either way the outcome is put.
FinishJob(w) ==
  /\ worker[w] = "working"
  /\ \E end \in {"ok", "raised"} :
       /\ end = "raised" => "raise" \in Environment
       /\ ran' = [ran EXCEPT ![job[w]] = end]
  /\ buffer' = [buffer EXCEPT ![w] = @ \cup {job[w]}]
  /\ job' = [job EXCEPT ![w] = NoJob]
  /\ WorkerTo(w, "idle")
  /\ UNCHANGED <<signalled, takenBy, parent, results>>
  /\ KeepQueues

\* The feeder thread of the event queue.
Flush(w) ==
  /\ Alive(w)
  /\ \E j \in buffer[w] :
       /\ buffer' = [buffer EXCEPT ![w] = @ \ {j}]
       /\ pipe' = pipe \cup {j}
  /\ UNCHANGED <<worker, job, signalled, takenBy, queued, sentinels, parent, results,
                 ran>>

\* Faulty variant: the worker leaves and keeps its job.
UnwindHolding(w) ==
  /\ w \in signalled
  /\ worker[w] \in {"booting", "idle", "working"}
  /\ WorkerTo(w, "leaving")
  /\ UNCHANGED <<job, buffer, signalled, takenBy, parent, results, ran>>
  /\ KeepQueues

\* SIGTERM raises SystemExit wherever the worker is; before it has installed
\* the handler, SIGTERM kills.
Unwind(w) ==
  /\ w \in signalled
  /\ worker[w] \in {"booting", "idle", "working"}
  /\ WorkerTo(w, IF worker[w] = "booting" THEN "dead" ELSE "leaving")
  /\ job' = [job EXCEPT ![w] = NoJob]
  /\ UNCHANGED <<buffer, signalled, takenBy, parent, results, ran>>
  /\ KeepQueues

\* The process exits once its feeder thread is joined.
Leave(w) ==
  /\ worker[w] = "leaving"
  /\ buffer[w] = {}
  /\ WorkerTo(w, "dead")
  /\ UNCHANGED <<job, buffer, signalled, takenBy, parent, results, ran>>
  /\ KeepQueues

\* What is left when a process is killed.
Killed(w) ==
  /\ Alive(w)
  /\ WorkerTo(w, "killed")
  /\ buffer' = [buffer EXCEPT ![w] = {}]
  /\ job' = [job EXCEPT ![w] = NoJob]
  /\ UNCHANGED <<signalled, takenBy, parent, results, ran>>
  /\ KeepQueues

\* Out of memory, a segmentation fault.
Kill(w) == "kill" \in Environment /\ Killed(w)

----------------------------------------------------------------------------
(* The parent without workers *)

\* run() of a pool with max_workers = 1, or with a single job.
RunInline ==
  /\ parent = "called"
  /\ ParentTo("inline")
  /\ KeepWorkers
  /\ UNCHANGED <<results, ran>>
  /\ KeepQueues

\* The next job is run and its outcome recorded.
InlineJob ==
  /\ parent = "inline"
  /\ \E j \in Jobs \ Reported :
       \/ /\ ran' = [ran EXCEPT ![j] = "ok"]
          /\ results' = [results EXCEPT ![j] = "completed"]
       \/ /\ "raise" \in Environment
          /\ ran' = [ran EXCEPT ![j] = "raised"]
          /\ results' = [results EXCEPT ![j] = "failed"]
  /\ UNCHANGED parent
  /\ KeepWorkers
  /\ KeepQueues

InlineDone ==
  /\ parent = "inline"
  /\ Reported = Jobs
  /\ ParentTo("returned")
  /\ KeepWorkers
  /\ UNCHANGED <<results, ran>>
  /\ KeepQueues

\* Ctrl+C is no Exception: it leaves run() with the job it hits.
InlineInterrupt ==
  /\ "interrupt" \in Environment
  /\ parent = "inline"
  /\ ParentTo("escaped")
  /\ \/ UNCHANGED ran
     \/ \E j \in Jobs \ Reported : ran' = [ran EXCEPT ![j] = "started"]
  /\ UNCHANGED results
  /\ KeepWorkers
  /\ KeepQueues

----------------------------------------------------------------------------
(* The parent of worker processes *)

\* The jobs, and a sentinel for each worker, are put in the queue.
RunParallel ==
  /\ parent = "called"
  /\ Cardinality(Workers) > 1 /\ Cardinality(Jobs) > 1
  /\ queued' = Jobs
  /\ sentinels' = Cardinality(Workers)
  /\ ParentTo("starting")
  /\ KeepWorkers
  /\ UNCHANGED <<pipe, results, ran>>

StartWorker(w) ==
  /\ parent = "starting"
  /\ worker[w] = "new"
  /\ WorkerTo(w, "booting")
  /\ ParentTo(IF \A v \in Workers \ {w} : worker[v] # "new"
              THEN "collecting" ELSE "starting")
  /\ UNCHANGED <<job, buffer, signalled, takenBy, results, ran>>
  /\ KeepQueues

\* Process.start raises, or Ctrl+C arrives: the loop that starts the workers
\* is outside the try, so the exception leaves run() at once.
StartFails ==
  /\ "spawn" \in Environment
  /\ parent = "starting"
  /\ ParentTo("escaped")
  /\ KeepWorkers
  /\ UNCHANGED <<results, ran>>
  /\ KeepQueues

\* Faulty variant: every outcome counts as completed.
CollectBlind ==
  /\ parent = "collecting"
  /\ Reported # Jobs
  /\ \E j \in pipe :
       /\ pipe' = pipe \ {j}
       /\ results' = [results EXCEPT ![j] = "completed"]
  /\ KeepWorkers
  /\ UNCHANGED <<queued, sentinels, parent, ran>>

\* An item is got from the event queue.
Collect ==
  /\ parent = "collecting"
  /\ Reported # Jobs
  /\ \E j \in pipe :
       /\ pipe' = pipe \ {j}
       /\ results' = [results EXCEPT ![j] = IF ran[j] = "ok" THEN "completed"
                                            ELSE "failed"]
  /\ KeepWorkers
  /\ UNCHANGED <<queued, sentinels, parent, ran>>

\* The loop ends: every job has reported.
CollectDone ==
  /\ parent = "collecting"
  /\ Reported = Jobs
  /\ ParentTo("joining")
  /\ KeepWorkers
  /\ UNCHANGED <<results, ran>>
  /\ KeepQueues

\* get() times out with queue.Empty.
CollectEmpty ==
  /\ parent = "collecting"
  /\ Reported # Jobs
  /\ pipe = {}
  /\ ParentTo("checking")
  /\ KeepWorkers
  /\ UNCHANGED <<results, ran>>
  /\ KeepQueues

\* Faulty variant: waits for results even when no worker is left.
CheckAliveNever ==
  /\ parent = "checking"
  /\ ParentTo("collecting")
  /\ KeepWorkers
  /\ UNCHANGED <<results, ran>>
  /\ KeepQueues

\* any(p.is_alive() for p in self._workers), after the Empty.
CheckAlive ==
  /\ parent = "checking"
  /\ ParentTo(IF \E w \in Workers : Alive(w) THEN "collecting" ELSE "joining")
  /\ KeepWorkers
  /\ UNCHANGED <<results, ran>>
  /\ KeepQueues

\* Faulty variant: the workers are not joined.
FinishUnjoined ==
  /\ parent = "joining"
  /\ ParentTo("returned")
  /\ pipe' = {} /\ queued' = {} /\ sentinels' = 0
  /\ results' = [j \in Jobs |-> IF results[j] = "none" THEN "missing" ELSE results[j]]
  /\ KeepWorkers
  /\ UNCHANGED ran

\* All workers are joined; the queues are drained and closed, and what was in
\* them is lost; _record_missing fills the gaps.
Finish ==
  /\ parent = "joining"
  /\ \A w \in Workers : ~Alive(w)
  /\ ParentTo("returned")
  /\ pipe' = {} /\ queued' = {} /\ sentinels' = 0
  /\ results' = [j \in Jobs |-> IF results[j] = "none" THEN "missing" ELSE results[j]]
  /\ KeepWorkers
  /\ UNCHANGED ran

\* KeyboardInterrupt inside the try.
Interrupt ==
  /\ "interrupt" \in Environment
  /\ parent \in {"collecting", "checking", "joining"}
  /\ ParentTo("terminating")
  /\ KeepWorkers
  /\ UNCHANGED <<results, ran>>
  /\ KeepQueues

\* _terminate_workers: SIGTERM to every worker that is alive.
Signal(w) ==
  /\ parent = "terminating"
  /\ Alive(w) /\ w \notin signalled
  /\ signalled' = signalled \cup {w}
  /\ UNCHANGED <<worker, job, buffer, takenBy, parent, results, ran>>
  /\ KeepQueues

\* The grace period ends: SIGKILL to a worker that has not exited.
KillAfterGrace(w) ==
  /\ parent = "terminating"
  /\ \A v \in Workers : Alive(v) => v \in signalled
  /\ Killed(w)

\* A second Ctrl+C, inside _terminate_workers: the finally empties the queues and
\* run() is left with whatever workers are still there.
InterruptAgain ==
  /\ "interrupt" \in Environment
  /\ parent = "terminating"
  /\ ParentTo("escaped")
  /\ pipe' = {} /\ queued' = {} /\ sentinels' = 0
  /\ KeepWorkers
  /\ UNCHANGED <<results, ran>>

\* _record_interrupted, the queues are drained, the interrupt is raised again.
Raise ==
  /\ parent = "terminating"
  /\ \A w \in Workers : ~Alive(w)
  /\ ParentTo("raised")
  /\ pipe' = {} /\ queued' = {} /\ sentinels' = 0
  /\ results' = [j \in Jobs |-> IF results[j] = "none" THEN "interrupted" ELSE results[j]]
  /\ KeepWorkers
  /\ UNCHANGED ran

----------------------------------------------------------------------------
WorkerStep(w) ==
  \/ Boot(w)
  \/ TakeJob(w)
  \/ TakeSentinel(w)
  \/ FinishJob(w)
  \/ Unwind(w)
  \/ Leave(w)

ParentStep ==
  \/ RunInline
  \/ InlineJob
  \/ InlineDone
  \/ RunParallel
  \/ \E w \in Workers : StartWorker(w)
  \/ Collect
  \/ CollectDone
  \/ CollectEmpty
  \/ CheckAlive
  \/ Finish
  \/ \E w \in Workers : Signal(w) \/ KillAfterGrace(w)
  \/ Raise

Next ==
  \/ \E w \in Workers : WorkerStep(w) \/ Flush(w) \/ Kill(w)
  \/ ParentStep
  \/ InlineInterrupt
  \/ StartFails
  \/ Interrupt
  \/ InterruptAgain

Spec == Init /\ [][Next]_vars

\* Every process runs; a job ends; joins and grace periods end.
Fairness ==
  /\ WF_vars(ParentStep)
  /\ \A w \in Workers : WF_vars(WorkerStep(w)) /\ WF_vars(Flush(w))

FairSpec == Spec /\ Fairness

----------------------------------------------------------------------------
TypeOK ==
  /\ worker \in [Workers -> {"new", "booting", "idle", "working", "leaving",
                             "dead", "killed"}]
  /\ job \in [Workers -> Jobs \cup {NoJob}]
  /\ \A w \in Workers : worker[w] = "working" <=> job[w] # NoJob
  /\ buffer \in [Workers -> SUBSET Jobs]
  /\ signalled \subseteq Workers
  /\ takenBy \in [Jobs -> Workers \cup {NoWorker}]
  /\ queued \subseteq Jobs
  /\ sentinels \in Nat
  /\ pipe \subseteq Jobs
  /\ parent \in {"called", "inline", "starting", "escaped", "collecting",
                 "checking", "joining", "terminating", "returned", "raised"}
  /\ results \in [Jobs -> {"none", "completed", "failed", "missing", "interrupted"}]
  /\ ran \in [Jobs -> {"no", "started", "ok", "raised"}]

\* A job counts as completed only if its worker function returned, as failed
\* only if it raised, and a job that has not ended is in no queue: what the
\* pool reports of a job stays true whoever is killed when.
ResultsAreTrue ==
  \A j \in Jobs :
    /\ results[j] = "completed" => ran[j] = "ok"
    /\ results[j] = "failed" => ran[j] = "raised"
    /\ j \in pipe => Finished(j)

Over == parent \in {"returned", "raised"}

Promise == INSTANCE PoolPromise WITH outcome <- results, over <- Over

\* The caller of run() gets what PoolPromise allows, whichever way the jobs are
\* run and whoever is killed or interrupted when: no job is run twice, no outcome
\* is changed once it is recorded, and when run() is over every job has one and
\* none of them runs on.
KeepsItsPromise == Promise!Spec

\* Every job whose outcome is missing when run() returns is accounted for: a worker
\* that was killed had taken it, and held the job or its outcome then; or the outcome
\* reached the event queue after the last poll had found it empty; or nobody took
\* the job, because all workers were killed.  Of the jobs that a killed worker took, all
\* but one have ended.  A job that raises costs nothing.
MissingJobsAccountedFor ==
  [][~Over /\ parent' = "returned" =>
       /\ \A j \in Jobs : results'[j] = "missing" =>
            \/ \E w \in Workers : takenBy[j] = w /\ worker[w] = "killed"
            \/ j \in pipe
            \/ takenBy[j] = NoWorker /\ \A w \in Workers : worker[w] = "killed"
       /\ \A i, j \in Jobs :
            takenBy[i] = takenBy[j] /\ ran[i] = "started" /\ ran[j] = "started"
              => i = j]_vars

\* When run() is over, by its result or by the interrupt, no worker process is
\* left behind.  (An exception in the loop that starts the workers, and a second
\* Ctrl+C, leave it in another way.)
NoWorkerOutlivesPool ==
  parent \in {"returned", "raised"} => \A w \in Workers : ~Alive(w)

\* run() comes to an end, whichever workers are killed when.
PoolReturns == <>(parent \in {"returned", "raised", "escaped"})
=============================================================================
