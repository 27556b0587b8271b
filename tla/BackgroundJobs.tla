--------------------------- MODULE BackgroundJobs ---------------------------
(***************************************************************************)
(* The background jobs of the API: calibrations (routers/calibration.py)   *)
(* and plan-design searches (routers/optimizer.py).  A POST registers a     *)
(* job and starts a thread; clients poll the registry, which forgets old    *)
(* finished jobs.                                                           *)
(*                                                                         *)
(* Calibrations of one explicit database wait for one another on a lock;    *)
(* those without one copy the shared database to a file named for the       *)
(* second, after removing old copies, and nothing orders them.  A search    *)
(* claims two directories, which must be empty, and is refused if another   *)
(* search holds one of them.                                                *)
(*                                                                         *)
(* A job is known by its number, in the order of created_at.                *)
(***************************************************************************)
EXTENDS Naturals, FiniteSets

CONSTANTS
  Databases,    \* the databases that calibrations name
  Default,      \* a calibration that names none
  Directories,  \* the directories of searches
  MaxFinished,  \* _MAX_FINISHED_JOBS
  Retention,    \* CALIBRATION_DB_RETENTION
  MaxJobs,      \* bound on the jobs
  MaxSecond,    \* bound on the clock
  MaxRestarts   \* bound on the restarts of the API

ASSUME JobsAssumption ==
  /\ Default \notin Databases
  /\ MaxFinished \in Nat /\ Retention \in Nat \ {0}
  /\ MaxJobs \in Nat /\ MaxSecond \in Nat \ {0} /\ MaxRestarts \in Nat

Ids == 1..MaxJobs

Calibrations == [database : Databases \cup {Default}]
Searches     == [database_dir : Directories, output_dir : Directories]

VARIABLES
  count,     \* the number of jobs so far
  request,   \* what each job is to do
  thread,    \* where its thread is
  jobs,      \* _jobs of both routers
  status,
  result,    \* whether results, outcome or result is there
  holder,    \* _db_locks: the job that holds the lock, or 0
  posting,   \* the searches that are reserved but not registered yet
  reserved,  \* _reserved_dirs
  leaked,    \* reserved by a request that raised
  contents,  \* the jobs that wrote into a directory
  copy,      \* the second in the name of a job's copy, or 0
  copies,    \* those in dbt/calibration/
  excess,    \* the copies that a job found to be in excess, and is to remove
  removed,   \* history: the copies that were removed
  spared,    \* history: those whose removal failed or was cut short
  overlap,   \* history: the jobs between pruning and copying at the last pruning
  clock,
  restarts

registry == <<count, request, jobs>>
claims   == <<posting, reserved, leaked>>
seeds    == <<copy, copies, excess, removed, spared, overlap>>
files    == <<contents, seeds>>
vars     == <<registry, thread, status, result, holder, claims, files, clock,
              restarts>>

Known == 1..count

Init ==
  /\ count = 0 /\ request = <<>> /\ thread = <<>> /\ jobs = {}
  /\ status = <<>> /\ result = <<>>
  /\ holder = [d \in Databases |-> 0]
  /\ posting = {} /\ reserved = {} /\ leaked = {}
  /\ contents = [p \in Directories |-> {}]
  /\ copy = <<>> /\ copies = {} /\ excess = <<>>
  /\ removed = {} /\ spared = {} /\ overlap = {}
  /\ clock = 1 /\ restarts = 0

IsSearch(j)    == request[j] \in Searches
Explicit(j)    == ~IsSearch(j) /\ request[j].database # Default
Defaulted(j)   == ~IsSearch(j) /\ request[j].database = Default
Targets(r)     == {r.database_dir, r.output_dir}
Dirs(j)        == IF IsSearch(j) THEN Targets(request[j]) ELSE {}
Finished(j)    == status[j] \in {"completed", "failed"}

----------------------------------------------------------------------------
(* The registry *)

\* Faulty: the oldest jobs go, finished or not.
PrunedByAge(all) ==
  {j \in all : Cardinality({k \in all : k > j}) >= MaxFinished}

\* Faulty: one too many goes.
PrunedEarly(all) ==
  {j \in all : /\ Finished(j)
               /\ Cardinality({k \in all : k > j /\ Finished(k)})
                    + 1 >= MaxFinished}

\* _prune_finished_jobs_locked: the finished jobs of a registry beyond the cap,
\* oldest first by created_at.
Pruned(all) ==
  {j \in all : /\ Finished(j)
               /\ Cardinality({k \in all : k > j /\ Finished(k)})
                    >= MaxFinished}

\* _register_job and the start of the thread.
Register(r) ==
  /\ count < MaxJobs
  /\ LET mine == {j \in jobs : IsSearch(j) <=> r \in Searches}
     IN  jobs' = (jobs \ Pruned(mine)) \cup {count + 1}
  /\ count' = count + 1
  /\ request' = [j \in Known \cup {count + 1} |->
                   IF j \in Known THEN request[j] ELSE r]
  /\ thread' = [j \in Known \cup {count + 1} |->
                  IF j \in Known THEN thread[j] ELSE "queued"]
  /\ status' = [j \in Known \cup {count + 1} |->
                  IF j \in Known THEN status[j] ELSE "queued"]
  /\ result' = [j \in Known \cup {count + 1} |->
                  IF j \in Known THEN result[j] ELSE FALSE]
  /\ copy' = [j \in Known \cup {count + 1} |->
                IF j \in Known THEN copy[j] ELSE 0]
  /\ excess' = [j \in Known \cup {count + 1} |->
                  IF j \in Known THEN excess[j] ELSE {}]
  /\ UNCHANGED <<holder, contents, copies, removed, spared, overlap, clock,
                 restarts>>

\* _update_job: nothing is recorded for a pruned job.
Update(j, s, r) ==
  IF j \in jobs
  THEN status' = [status EXCEPT ![j] = s] /\ result' = [result EXCEPT ![j] = r]
  ELSE UNCHANGED <<status, result>>

Step(j, from, to) == thread[j] = from /\ thread' = [thread EXCEPT ![j] = to]

----------------------------------------------------------------------------
(* The requests *)

\* run_calibration and optimize_calibration.
PostCalibration ==
  \E r \in Calibrations : Register(r) /\ UNCHANGED claims

\* Faulty: what the directories hold is not looked at.
ReserveUnlooked ==
  \E r \in Searches :
    /\ count + Cardinality(posting) < MaxJobs
    /\ Targets(r) \cap reserved = {}
    /\ reserved' = reserved \cup Targets(r)
    /\ posting' = posting \cup {r}
    /\ UNCHANGED <<registry, thread, status, result, holder, leaked, files, clock,
                   restarts>>

\* start_optimizer_run up to _reserve_fresh_directories.
Reserve ==
  \E r \in Searches :
    /\ count + Cardinality(posting) < MaxJobs
    /\ Targets(r) \cap reserved = {}
    /\ \A p \in Targets(r) : contents[p] = {}
    /\ reserved' = reserved \cup Targets(r)
    /\ posting' = posting \cup {r}
    /\ UNCHANGED <<registry, thread, status, result, holder, leaked, files, clock,
                   restarts>>

\* The baseline is loaded and valid: the job is registered.
Accept ==
  \E r \in posting :
    /\ Register(r)
    /\ posting' = posting \ {r}
    /\ UNCHANGED <<reserved, leaked>>

\* The baseline cannot be read, or the levers do not fit: 422.
Reject ==
  \E r \in posting :
    /\ posting' = posting \ {r}
    /\ reserved' = reserved \ Targets(r)
    /\ UNCHANGED <<registry, thread, status, result, holder, leaked, files, clock,
                   restarts>>

\* Loading it raises something else, or the comparison with an earlier result
\* does: nothing is released.
Raise ==
  \E r \in posting :
    /\ posting' = posting \ {r}
    /\ leaked' = leaked \cup Targets(r)
    /\ UNCHANGED <<registry, thread, status, result, holder, reserved, files,
                   clock, restarts>>

----------------------------------------------------------------------------
(* The threads *)

\* Faulty: the job does not wait for the lock of its database.
BeginUnlocked(j) ==
  /\ Step(j, "queued", "running")
  /\ Update(j, "running", FALSE)
  /\ UNCHANGED <<registry, holder, claims, files, clock, restarts>>

\* The job starts, with the lock of its database.
Begin(j) ==
  /\ Step(j, "queued", "running")
  /\ IF Explicit(j)
     THEN /\ holder[request[j].database] = 0
          /\ holder' = [holder EXCEPT ![request[j].database] = j]
     ELSE UNCHANGED holder
  /\ Update(j, "running", FALSE)
  /\ UNCHANGED <<registry, claims, files, clock, restarts>>

\* Faulty: no room is made for the copy to come.
KeptFull(all) == {c \in all : Cardinality({d \in all : d > c}) < Retention}

\* What _prune_old_calibration_dbs keeps of the copies it finds.
Kept(all) == {c \in all : Cardinality({d \in all : d > c}) < Retention - 1}

\* resolve_calibration_database returns a path that is given.
Resolve(j) ==
  /\ Explicit(j)
  /\ Step(j, "running", "building")
  /\ UNCHANGED <<registry, status, result, holder, claims, files, clock, restarts>>

\* Without one, it names a copy for the present second,
Name(j) ==
  /\ Defaulted(j)
  /\ Step(j, "running", "named")
  /\ copy' = [copy EXCEPT ![j] = clock]
  /\ UNCHANGED <<registry, status, result, holder, claims, contents, copies, excess,
                 removed, spared, overlap, clock, restarts>>

\* looks which copies are in excess,
FindExcess(j) ==
  /\ Step(j, "named", "pruning")
  /\ excess' = [excess EXCEPT ![j] = copies \ Kept(copies)]
  /\ overlap' = {i \in Known : thread'[i] \in {"pruning", "pruned"}}
  /\ UNCHANGED <<registry, status, result, holder, claims, contents, copy, copies,
                 removed, spared, clock, restarts>>

\* removes those of them that can be removed (a failure is only logged),
Prune(j) ==
  /\ Step(j, "pruning", "pruned")
  /\ \E gone \in SUBSET (excess[j] \cap copies) :
       /\ copies' = copies \ gone
       /\ removed' = removed \cup gone
       /\ spared' = (spared \cup (excess[j] \cap copies)) \ gone
  /\ excess' = [excess EXCEPT ![j] = {}]
  /\ UNCHANGED <<registry, status, result, holder, claims, contents, copy, overlap,
                 clock, restarts>>

\* and copies the shared database.
Seed(j) ==
  /\ Step(j, "pruned", "building")
  /\ copies' = copies \cup {copy[j]}
  /\ UNCHANGED <<registry, status, result, holder, claims, contents, copy, excess,
                 removed, spared, overlap, clock, restarts>>

\* run_optimizer writes the databases of the candidates.
Evaluate(j) ==
  /\ IsSearch(j)
  /\ Step(j, "running", "building")
  /\ contents' = [contents EXCEPT ![request[j].database_dir] = @ \cup {j}]
  /\ UNCHANGED <<registry, status, result, holder, claims, seeds, clock, restarts>>

\* write_exports and write_report.
Export(j) ==
  /\ IsSearch(j)
  /\ Step(j, "building", "exported")
  /\ contents' = [contents EXCEPT ![request[j].output_dir] = @ \cup {j}]
  /\ UNCHANGED <<registry, status, result, holder, claims, seeds, clock, restarts>>

\* The last act of the build is to record its result.
Record(j) ==
  /\ Step(j, IF IsSearch(j) THEN "exported" ELSE "building", "recorded")
  /\ Update(j, status[j], TRUE)
  /\ UNCHANGED <<registry, holder, claims, files, clock, restarts>>

Complete(j) ==
  /\ Step(j, "recorded", "ended")
  /\ Update(j, "completed", result[j])
  /\ UNCHANGED <<registry, holder, claims, files, clock, restarts>>

\* Faulty: a status that clients do not know.
FailUnknown(j) ==
  /\ \E from \in {"running", "named", "pruned", "building", "exported"} :
       Step(j, from, "ended")
  /\ Update(j, "cancelled", result[j])
  /\ UNCHANGED <<registry, holder, claims, files, clock, restarts>>

\* The build raises, wherever it is; a copy that fails may leave a part behind.
Fail(j) ==
  /\ \E from \in {"running", "named", "pruned", "building", "exported"} :
       Step(j, from, "ended")
  /\ Update(j, "failed", result[j])
  /\ copies' \in {copies} \cup
                  (IF thread[j] = "pruned" THEN {copies \cup {copy[j]}} ELSE {})
  /\ UNCHANGED <<registry, holder, claims, contents, copy, excess, removed, spared,
                 overlap, clock, restarts>>

Unlocked(j) == [d \in Databases |-> IF holder[d] = j THEN 0 ELSE holder[d]]

\* Faulty: the lock is released only after a success.
FinishLocked(j) ==
  /\ Step(j, "ended", "done")
  /\ holder' = IF status[j] = "completed" THEN Unlocked(j) ELSE holder
  /\ reserved' = reserved \ Dirs(j)
  /\ UNCHANGED <<registry, status, result, posting, leaked, files, clock, restarts>>

\* Faulty: the directories are released only after a success.
FinishReserved(j) ==
  /\ Step(j, "ended", "done")
  /\ holder' = Unlocked(j)
  /\ reserved' = IF status[j] = "completed" THEN reserved \ Dirs(j) ELSE reserved
  /\ UNCHANGED <<registry, status, result, posting, leaked, files, clock, restarts>>

\* The finally clause.
Finish(j) ==
  /\ Step(j, "ended", "done")
  /\ holder' = Unlocked(j)
  /\ reserved' = reserved \ Dirs(j)
  /\ UNCHANGED <<registry, status, result, posting, leaked, files, clock, restarts>>

Run(j) ==
  \/ Begin(j) \/ Resolve(j) \/ Name(j) \/ FindExcess(j) \/ Prune(j) \/ Seed(j)
  \/ Evaluate(j) \/ Export(j)
  \/ Record(j) \/ Complete(j) \/ Fail(j) \/ Finish(j)

----------------------------------------------------------------------------
(* The environment *)

\* Seconds in which no copy is named make no difference and are left out.
Tick ==
  /\ clock < MaxSecond
  /\ \E j \in Known : copy[j] = clock
  /\ clock' = clock + 1
  /\ UNCHANGED <<registry, thread, status, result, holder, claims, files, restarts>>

Pending == UNION {excess[j] : j \in Known}

\* The API restarts: its threads are daemons, its registries are in memory.
Restart ==
  /\ restarts < MaxRestarts
  /\ restarts' = restarts + 1
  /\ jobs' = {}
  /\ thread' = [j \in Known |-> "done"]
  /\ status' = [j \in Known |-> "lost"]
  /\ holder' = [d \in Databases |-> 0]
  /\ posting' = {} /\ reserved' = {} /\ leaked' = {}
  /\ excess' = [j \in Known |-> {}]
  /\ spared' = spared \cup (Pending \cap copies)
  /\ UNCHANGED <<count, request, result, contents, copy, copies, removed, overlap,
                 clock>>

Next ==
  \/ PostCalibration \/ Reserve \/ Accept \/ Reject \/ Raise
  \/ \E j \in Known : Run(j)
  \/ Tick \/ Restart

Spec == Init /\ [][Next]_vars

----------------------------------------------------------------------------
(* Properties *)

Statuses == {"queued", "running", "completed", "failed"}

\* Every variable has its type; what is in the registry has a status that
\* clients know.
TypeOK ==
  /\ count \in 0..MaxJobs
  /\ request \in [Known -> Calibrations \cup Searches]
  /\ thread \in [Known -> {"queued", "running", "named", "pruning", "pruned",
                           "building", "exported", "recorded", "ended", "done"}]
  /\ jobs \subseteq Known
  /\ status \in [Known -> Statuses \cup {"lost"}]
  /\ \A j \in jobs : status[j] \in Statuses
  /\ result \in [Known -> BOOLEAN]
  /\ holder \in [Databases -> 0..count]
  /\ posting \subseteq Searches
  /\ reserved \subseteq Directories /\ leaked \subseteq Directories
  /\ contents \in [Directories -> SUBSET Known]
  /\ copy \in [Known -> 0..clock]
  /\ copies \subseteq 0..clock
  /\ excess \in [Known -> SUBSET (0..clock)]
  /\ removed \subseteq 0..clock /\ spared \subseteq 0..clock
  /\ overlap \subseteq Known
  /\ clock \in 1..MaxSecond
  /\ restarts \in 0..MaxRestarts

Building(j) == thread[j] \notin {"queued", "ended", "done"}

\* Two builds never work on one explicit database or in one directory
\* (calibration.py:5-8, optimizer.py:10-14).
BuildsDoNotOverlap ==
  \A i, j \in Known :
    i # j /\ Building(i) /\ Building(j) =>
      /\ Explicit(i) /\ Explicit(j) => request[i].database # request[j].database
      /\ Dirs(i) \cap Dirs(j) = {}

\* A job that is not over can be polled, and one that shows as completed has its
\* result, however many jobs have come and gone meanwhile.
LiveJobsAreKnown ==
  \A j \in Known :
    /\ thread[j] \notin {"ended", "done"} => j \in jobs /\ ~Finished(j)
    /\ j \in jobs /\ status[j] = "completed" => result[j]

\* A finished job is forgotten only once enough finished jobs of its registry
\* that were created after it are there.
FinishedAreKept ==
  \A j \in Known :
    Finished(j) /\ j \notin jobs =>
      MaxFinished <= Cardinality({k \in jobs : /\ k > j /\ Finished(k)
                                               /\ IsSearch(k) <=> IsSearch(j)})

\* No two searches ever write into one directory: results and databases of one
\* are not mixed with those of another, not even after a failure or a restart.
OneSearchPerDirectory ==
  \A p \in Directories : Cardinality(contents[p]) <= 1

\* A reserved directory belongs to a request being handled or to a search that is
\* not over (optimizer.py:79, "reserved by an in-flight run"), unless a request
\* raised between its reservation and its registration.
ReservationsAreInFlight ==
  reserved \subseteq
    (UNION {Targets(r) : r \in posting})
      \cup (UNION {Dirs(j) : j \in {k \in Known : thread[k] # "done"}})
      \cup leaked

\* However prunings and copies of several jobs interleave, a copy is removed only
\* for Retention - 1 newer ones that stay; and the copies stay within the retention
\* (calibration_runner.py:262-267), but for those that could not be removed, or not
\* yet, and for as many as there were jobs between pruning and copying at once.
CopiesAreKept ==
  /\ \A c \in removed : Cardinality({d \in copies : d > c}) >= Retention - 1
  /\ Cardinality(copies \ (spared \cup Pending))
       <= Retention - 1 + Cardinality(overlap)

\* No job waits for nobody: whoever holds the lock of a database is still at work
\* and will release it, whether its build succeeds or fails.
LocksAreHeldByLiveJobs ==
  \A d \in Databases :
    holder[d] # 0 => /\ thread[holder[d]] \notin {"queued", "done"}
                    /\ request[holder[d]] = [database |-> d]

\* "default runs each get an isolated timestamped DB and never contend"
\* (calibration.py:7-8).
DefaultRunsAreIsolated ==
  \A i, j \in Known :
    i # j /\ thread[i] = "building" /\ thread[j] = "building" /\ copy[i] # 0 =>
      copy[i] # copy[j]
=============================================================================
