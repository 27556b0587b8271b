--------------------------- MODULE RunPoolProofs ---------------------------
(***************************************************************************)
(* Theorems about RunPool, for every finite set of jobs and of workers and *)
(* every choice of the outside events.                                     *)
(***************************************************************************)
EXTENDS RunPool, FiniteSetTheorems, TLAPS

LEMMA WorkersCounted == Cardinality(Workers) \in Nat
  BY PoolAssumption, FS_CardinalityType

LEMMA InitPoolType == Init => TypeOK
  BY PoolAssumption DEF Init, TypeOK

LEMMA NextPoolType == TypeOK /\ [Next]_vars => TypeOK'
  <1> SUFFICES ASSUME TypeOK, [Next]_vars PROVE TypeOK'
    OBVIOUS
  <1> USE PoolAssumption DEF TypeOK
  <1>1. ASSUME NEW w \in Workers, Boot(w) PROVE TypeOK'
    BY <1>1 DEF Boot, WorkerTo, KeepQueues
  <1>2. ASSUME NEW w \in Workers, TakeJob(w) PROVE TypeOK'
    BY <1>2 DEF TakeJob, WorkerTo
  <1>3. ASSUME NEW w \in Workers, TakeSentinel(w) PROVE TypeOK'
    BY <1>3 DEF TakeSentinel, WorkerTo
  <1>4. ASSUME NEW w \in Workers, FinishJob(w) PROVE TypeOK'
    BY <1>4 DEF FinishJob, WorkerTo, KeepQueues
  <1>5. ASSUME NEW w \in Workers, Flush(w) PROVE TypeOK'
    BY <1>5 DEF Flush, Alive
  <1>6. ASSUME NEW w \in Workers, Unwind(w) PROVE TypeOK'
    BY <1>6 DEF Unwind, WorkerTo, KeepQueues
  <1>7. ASSUME NEW w \in Workers, Leave(w) PROVE TypeOK'
    BY <1>7 DEF Leave, WorkerTo, KeepQueues
  <1>8. ASSUME NEW w \in Workers, Kill(w) PROVE TypeOK'
    BY <1>8 DEF Kill, Killed, Alive, WorkerTo, KeepQueues
  <1>9. ASSUME NEW w \in Workers, StartWorker(w) PROVE TypeOK'
    BY <1>9 DEF StartWorker, WorkerTo, ParentTo, KeepQueues
  <1>10. CASE StartFails
    BY <1>10 DEF StartFails, ParentTo, KeepWorkers, KeepQueues
  <1>11. CASE Collect
    BY <1>11 DEF Collect, KeepWorkers
  <1>12. CASE CollectDone
    BY <1>12 DEF CollectDone, ParentTo, KeepWorkers, KeepQueues
  <1>13. CASE CollectEmpty
    BY <1>13 DEF CollectEmpty, ParentTo, KeepWorkers, KeepQueues
  <1>14. CASE CheckAlive
    BY <1>14 DEF CheckAlive, ParentTo, KeepWorkers, KeepQueues
  <1>15. CASE Finish
    BY <1>15 DEF Finish, ParentTo, KeepWorkers
  <1>16. CASE Interrupt \/ InterruptAgain
    BY <1>16 DEF Interrupt, InterruptAgain, ParentTo, KeepWorkers, KeepQueues
  <1>25. ASSUME NEW w \in Workers, Signal(w) PROVE TypeOK'
    BY <1>25 DEF Signal, Alive, KeepQueues
  <1>17. ASSUME NEW w \in Workers, KillAfterGrace(w) PROVE TypeOK'
    BY <1>17 DEF KillAfterGrace, Killed, Alive, WorkerTo, KeepQueues
  <1>18. CASE Raise
    BY <1>18 DEF Raise, ParentTo, KeepWorkers
  <1>19. CASE RunInline
    BY <1>19 DEF RunInline, ParentTo, KeepWorkers, KeepQueues
  <1>20. CASE InlineJob
    BY <1>20 DEF InlineJob, KeepWorkers, KeepQueues
  <1>21. CASE InlineDone
    BY <1>21 DEF InlineDone, ParentTo, KeepWorkers, KeepQueues
  <1>22. CASE InlineInterrupt
    BY <1>22 DEF InlineInterrupt, Reported, ParentTo, KeepWorkers, KeepQueues
  <1>23. CASE RunParallel
    BY <1>23, WorkersCounted DEF RunParallel, ParentTo, KeepWorkers
  <1>24. CASE UNCHANGED vars
    BY <1>24 DEF vars
  <1> QED
    BY <1>1, <1>2, <1>3, <1>4, <1>5, <1>6, <1>7, <1>8, <1>9,
       <1>10, <1>11, <1>12, <1>13, <1>14, <1>15, <1>16, <1>17, <1>18,
       <1>19, <1>20, <1>21, <1>22, <1>23, <1>24, <1>25
    DEF Next, WorkerStep, ParentStep

(* A worker works on a job exactly while it runs its worker function, and    *)
(* never takes a sentinel that is not there.                                 *)
THEOREM PoolTypeCorrect == Spec => []TypeOK
  BY InitPoolType, NextPoolType, PTL DEF Spec

----------------------------------------------------------------------------
\* A job is in one place at a time: queued, worked on by one worker, or ended
\* and on its way to the parent.
Whereabouts ==
  /\ \A j \in queued : ran[j] = "no"
  /\ \A w \in Workers : job[w] # NoJob => ran[job[w]] = "started"
  /\ \A v, w \in Workers : job[v] = job[w] /\ job[v] # NoJob => v = w
  /\ \A w \in Workers : \A j \in buffer[w] : Finished(j)

\* Before the parent starts any worker, and when it runs the jobs itself, the
\* queues are empty and there is no process.
Unstarted ==
  /\ parent = "called" => \A j \in Jobs : ran[j] = "no" /\ results[j] = "none"
  /\ parent \in {"called", "inline"} =>
       /\ queued = {} /\ pipe = {}
       /\ \A w \in Workers : worker[w] = "new" /\ job[w] = NoJob /\ buffer[w] = {}

Inv == Whereabouts /\ Unstarted /\ ResultsAreTrue

LEMMA NextPoolInv == TypeOK /\ Inv /\ [Next]_vars => Inv'
  <1> SUFFICES ASSUME TypeOK, Inv, [Next]_vars PROVE Inv'
    OBVIOUS
  <1> USE PoolAssumption DEF TypeOK, Inv, Whereabouts, Unstarted, ResultsAreTrue,
      Finished
  <1>1. ASSUME NEW w \in Workers, Boot(w) PROVE Inv'
    BY <1>1 DEF Boot, WorkerTo, KeepQueues
  <1>2. ASSUME NEW w \in Workers, TakeJob(w) PROVE Inv'
    BY <1>2 DEF TakeJob, WorkerTo
  <1>3. ASSUME NEW w \in Workers, TakeSentinel(w) PROVE Inv'
    BY <1>3 DEF TakeSentinel, WorkerTo
  <1>4. ASSUME NEW w \in Workers, FinishJob(w) PROVE Inv'
    BY <1>4 DEF FinishJob, WorkerTo, KeepQueues
  <1>5. ASSUME NEW w \in Workers, Flush(w) PROVE Inv'
    BY <1>5 DEF Flush, Alive
  <1>6. ASSUME NEW w \in Workers, Unwind(w) PROVE Inv'
    BY <1>6 DEF Unwind, WorkerTo, KeepQueues
  <1>7. ASSUME NEW w \in Workers, Leave(w) PROVE Inv'
    BY <1>7 DEF Leave, WorkerTo, KeepQueues
  <1>8. ASSUME NEW w \in Workers, Kill(w) PROVE Inv'
    BY <1>8 DEF Kill, Killed, Alive, WorkerTo, KeepQueues
  <1>9. ASSUME NEW w \in Workers, StartWorker(w) PROVE Inv'
    BY <1>9 DEF StartWorker, WorkerTo, ParentTo, KeepQueues
  <1>10. CASE StartFails
    BY <1>10 DEF StartFails, ParentTo, KeepWorkers, KeepQueues
  <1>11. CASE Collect
    BY <1>11 DEF Collect, KeepWorkers
  <1>12. CASE CollectDone
    BY <1>12 DEF CollectDone, ParentTo, KeepWorkers, KeepQueues
  <1>13. CASE CollectEmpty
    BY <1>13 DEF CollectEmpty, ParentTo, KeepWorkers, KeepQueues
  <1>14. CASE CheckAlive
    BY <1>14 DEF CheckAlive, ParentTo, KeepWorkers, KeepQueues
  <1>15. CASE Finish
    BY <1>15 DEF Finish, ParentTo, KeepWorkers
  <1>16. CASE Interrupt \/ InterruptAgain
    BY <1>16 DEF Interrupt, InterruptAgain, ParentTo, KeepWorkers, KeepQueues
  <1>25. ASSUME NEW w \in Workers, Signal(w) PROVE Inv'
    BY <1>25 DEF Signal, Alive, KeepQueues
  <1>17. ASSUME NEW w \in Workers, KillAfterGrace(w) PROVE Inv'
    BY <1>17 DEF KillAfterGrace, Killed, Alive, WorkerTo, KeepQueues
  <1>18. CASE Raise
    BY <1>18 DEF Raise, ParentTo, KeepWorkers
  <1>19. CASE RunInline
    BY <1>19 DEF RunInline, ParentTo, KeepWorkers, KeepQueues
  <1>20. CASE InlineJob
    BY <1>20 DEF InlineJob, KeepWorkers, KeepQueues
  <1>21. CASE InlineDone
    BY <1>21 DEF InlineDone, ParentTo, KeepWorkers, KeepQueues
  <1>22. CASE InlineInterrupt
    BY <1>22 DEF InlineInterrupt, Reported, ParentTo, KeepWorkers, KeepQueues
  <1>23. CASE RunParallel
    BY <1>23, WorkersCounted DEF RunParallel, ParentTo, KeepWorkers
  <1>24. CASE UNCHANGED vars
    BY <1>24 DEF vars
  <1> QED
    BY <1>1, <1>2, <1>3, <1>4, <1>5, <1>6, <1>7, <1>8, <1>9,
       <1>10, <1>11, <1>12, <1>13, <1>14, <1>15, <1>16, <1>17, <1>18,
       <1>19, <1>20, <1>21, <1>22, <1>23, <1>24, <1>25
    DEF Next, WorkerStep, ParentStep

LEMMA PoolInv == Spec => []Inv
  <1>1. Init => Inv
    BY DEF Init, Inv, Whereabouts, Unstarted, ResultsAreTrue
  <1> QED
    BY <1>1, NextPoolInv, PoolTypeCorrect, PTL DEF Spec

(* The pool never reports of a job what did not happen to it, whoever is     *)
(* killed or interrupted when.                                               *)
THEOREM ReportsAreTrue == Spec => []ResultsAreTrue
  <1>1. Inv => ResultsAreTrue
    BY DEF Inv
  <1> QED
    BY <1>1, PoolInv, PTL

----------------------------------------------------------------------------
LEMMA NextNoOutliving ==
  TypeOK /\ Inv /\ NoWorkerOutlivesPool /\ [Next]_vars => NoWorkerOutlivesPool'
  <1> SUFFICES ASSUME TypeOK, Inv, NoWorkerOutlivesPool, [Next]_vars
               PROVE  NoWorkerOutlivesPool'
    OBVIOUS
  <1> USE DEF TypeOK, NoWorkerOutlivesPool, Alive
  <1>1. ASSUME NEW w \in Workers, Boot(w) PROVE NoWorkerOutlivesPool'
    BY <1>1 DEF Boot, WorkerTo, KeepQueues
  <1>2. ASSUME NEW w \in Workers, TakeJob(w) PROVE NoWorkerOutlivesPool'
    BY <1>2 DEF TakeJob, WorkerTo
  <1>3. ASSUME NEW w \in Workers, TakeSentinel(w) PROVE NoWorkerOutlivesPool'
    BY <1>3 DEF TakeSentinel, WorkerTo
  <1>4. ASSUME NEW w \in Workers, FinishJob(w) PROVE NoWorkerOutlivesPool'
    BY <1>4 DEF FinishJob, WorkerTo, KeepQueues
  <1>5. ASSUME NEW w \in Workers, Flush(w) PROVE NoWorkerOutlivesPool'
    BY <1>5 DEF Flush, Alive
  <1>6. ASSUME NEW w \in Workers, Unwind(w) PROVE NoWorkerOutlivesPool'
    BY <1>6 DEF Unwind, WorkerTo, KeepQueues
  <1>7. ASSUME NEW w \in Workers, Leave(w) PROVE NoWorkerOutlivesPool'
    BY <1>7 DEF Leave, WorkerTo, KeepQueues
  <1>8. ASSUME NEW w \in Workers, Kill(w) PROVE NoWorkerOutlivesPool'
    BY <1>8 DEF Kill, Killed, Alive, WorkerTo, KeepQueues
  <1>9. ASSUME NEW w \in Workers, StartWorker(w) PROVE NoWorkerOutlivesPool'
    BY <1>9 DEF StartWorker, WorkerTo, ParentTo, KeepQueues
  <1>10. CASE StartFails
    BY <1>10 DEF StartFails, ParentTo, KeepWorkers, KeepQueues
  <1>11. CASE Collect
    BY <1>11 DEF Collect, KeepWorkers
  <1>12. CASE CollectDone
    BY <1>12 DEF CollectDone, ParentTo, KeepWorkers, KeepQueues
  <1>13. CASE CollectEmpty
    BY <1>13 DEF CollectEmpty, ParentTo, KeepWorkers, KeepQueues
  <1>14. CASE CheckAlive
    BY <1>14 DEF CheckAlive, ParentTo, KeepWorkers, KeepQueues
  <1>15. CASE Finish
    BY <1>15 DEF Finish, ParentTo, KeepWorkers
  <1>16. CASE Interrupt \/ InterruptAgain
    BY <1>16 DEF Interrupt, InterruptAgain, ParentTo, KeepWorkers, KeepQueues
  <1>25. ASSUME NEW w \in Workers, Signal(w) PROVE NoWorkerOutlivesPool'
    BY <1>25 DEF Signal, Alive, KeepQueues
  <1>17. ASSUME NEW w \in Workers, KillAfterGrace(w) PROVE NoWorkerOutlivesPool'
    BY <1>17 DEF KillAfterGrace, Killed, Alive, WorkerTo, KeepQueues
  <1>18. CASE Raise
    BY <1>18 DEF Raise, ParentTo, KeepWorkers
  <1>19. CASE RunInline
    BY <1>19 DEF RunInline, ParentTo, KeepWorkers, KeepQueues
  <1>20. CASE InlineJob
    BY <1>20 DEF InlineJob, KeepWorkers, KeepQueues
  <1>21. CASE InlineDone
    BY <1>21 DEF Inv, Unstarted, InlineDone, ParentTo, KeepWorkers, KeepQueues
  <1>22. CASE InlineInterrupt
    BY <1>22 DEF InlineInterrupt, Reported, ParentTo, KeepWorkers, KeepQueues
  <1>23. CASE RunParallel
    BY <1>23, WorkersCounted DEF RunParallel, ParentTo, KeepWorkers
  <1>24. CASE UNCHANGED vars
    BY <1>24 DEF vars
  <1> QED
    BY <1>1, <1>2, <1>3, <1>4, <1>5, <1>6, <1>7, <1>8, <1>9,
       <1>10, <1>11, <1>12, <1>13, <1>14, <1>15, <1>16, <1>17, <1>18,
       <1>19, <1>20, <1>21, <1>22, <1>23, <1>24, <1>25
    DEF Next, WorkerStep, ParentStep

(* When run() returns or raises the interrupt, every worker process is gone  *)
(* and stays gone.                                                           *)
THEOREM NoWorkerIsLeft == Spec => []NoWorkerOutlivesPool
  <1>1. Init => NoWorkerOutlivesPool
    BY DEF Init, NoWorkerOutlivesPool
  <1> QED
    BY <1>1, NextNoOutliving, PoolTypeCorrect, PoolInv, PTL DEF Spec

----------------------------------------------------------------------------
(* The promise of the pool *)

\* The outcome of a job is in one place: in the buffer of one worker, in the event
\* queue, or with the parent.  A job that is run by the parent itself has its
\* outcome at once.
Once ==
  /\ ~Over => \A j \in Jobs : results[j] \in {"none", "completed", "failed"}
  /\ \A j \in pipe : results[j] = "none"
  /\ \A w \in Workers : \A j \in buffer[w] : results[j] = "none" /\ j \notin pipe
  /\ \A v, w \in Workers : v # w => buffer[v] \cap buffer[w] = {}
  /\ \A w \in Workers :
       worker[w] \in {"new", "booting", "dead", "killed"} => buffer[w] = {}
  /\ parent = "inline" => \A j \in Jobs : results[j] = "none" <=> ran[j] = "no"

\* A worker that works on a job finds it started, untold, and in nobody's buffer.
LEMMA WorkedOnUntold ==
  ASSUME TypeOK, Inv, NoWorkerOutlivesPool, Once, NEW w \in Workers,
         worker[w] = "working"
  PROVE  /\ job[w] \in Jobs /\ ran[job[w]] = "started" /\ results[job[w]] = "none"
         /\ job[w] \notin pipe /\ \A v \in Workers : job[w] \notin buffer[v]
         /\ ~Over /\ parent # "inline"
<1>1. job[w] # NoJob /\ job[w] \in Jobs /\ ran[job[w]] = "started"
  BY DEF TypeOK, Inv, Whereabouts
<1>2. job[w] \notin pipe /\ \A v \in Workers : job[w] \notin buffer[v]
  BY <1>1 DEF Inv, Whereabouts, ResultsAreTrue, Finished
<1>3. ~Over
  BY DEF NoWorkerOutlivesPool, Alive, Over
<1>4. results[job[w]] \in {"none", "completed", "failed"}
  BY <1>1, <1>3 DEF Once
<1>5. results[job[w]] = "none"
  BY <1>1, <1>4 DEF Inv, ResultsAreTrue
<1>6. parent # "inline"
  BY <1>1 DEF Inv, Unstarted
<1> QED
  BY <1>1, <1>2, <1>3, <1>5, <1>6

LEMMA NextOnce ==
  TypeOK /\ Inv /\ NoWorkerOutlivesPool /\ Once /\ [Next]_vars => Once'
<1> SUFFICES ASSUME TypeOK, Inv, NoWorkerOutlivesPool, Once, [Next]_vars
             PROVE  Once'
  OBVIOUS
<1>1. ASSUME NEW w \in Workers, Boot(w) \/ TakeSentinel(w) \/ Unwind(w) \/ Leave(w)
      PROVE  Once'
  BY <1>1 DEF Boot, TakeSentinel, Unwind, Leave, WorkerTo, KeepQueues, Once, Over,
              TypeOK
<1>2. ASSUME NEW w \in Workers, TakeJob(w)
      PROVE  Once'
  <2>1. parent # "inline"
    BY <1>2 DEF TakeJob, Inv, Unstarted
  <2> QED
    BY <1>2, <2>1 DEF TakeJob, WorkerTo, Once, Over, TypeOK
<1>3. ASSUME NEW w \in Workers, FinishJob(w)
      PROVE  Once'
  <2>1. /\ results[job[w]] = "none" /\ job[w] \notin pipe /\ parent # "inline"
        /\ \A v \in Workers : job[w] \notin buffer[v]
    BY <1>3, WorkedOnUntold DEF FinishJob
  <2>2. /\ buffer'[w] = buffer[w] \cup {job[w]} /\ worker'[w] = "idle"
        /\ \A v \in Workers : v # w => buffer'[v] = buffer[v] /\ worker'[v] = worker[v]
        /\ UNCHANGED <<pipe, parent, results>>
    BY <1>3 DEF FinishJob, WorkerTo, KeepQueues, TypeOK
  <2> QED
    BY <2>1, <2>2 DEF Once, Over
<1>4. ASSUME NEW w \in Workers, Flush(w)
      PROVE  Once'
  <2>1. PICK j \in buffer[w] : /\ buffer' = [buffer EXCEPT ![w] = @ \ {j}]
                               /\ pipe' = pipe \cup {j}
    BY <1>4 DEF Flush
  <2>2. /\ buffer'[w] = buffer[w] \ {j}
        /\ \A v \in Workers : v # w => buffer'[v] = buffer[v] /\ j \notin buffer[v]
        /\ UNCHANGED <<worker, parent, results, ran>>
    BY <1>4, <2>1 DEF Flush, TypeOK, Once
  <2> QED
    BY <2>1, <2>2 DEF Once, Over
<1>5. ASSUME NEW w \in Workers, Kill(w) \/ KillAfterGrace(w)
      PROVE  Once'
  <2>1. /\ buffer'[w] = {}
        /\ \A v \in Workers : v # w => buffer'[v] = buffer[v] /\ worker'[v] = worker[v]
        /\ UNCHANGED <<pipe, parent, results, ran>>
    BY <1>5 DEF Kill, KillAfterGrace, Killed, WorkerTo, KeepQueues, TypeOK
  <2> QED
    BY <2>1 DEF Once, Over
<1>6. ASSUME NEW w \in Workers, StartWorker(w)
      PROVE  Once'
  BY <1>6 DEF StartWorker, WorkerTo, ParentTo, KeepQueues, Once, Over, TypeOK
<1>7. CASE RunInline \/ RunParallel
  <2>1. /\ parent = "called" /\ parent' \in {"inline", "starting"}
        /\ UNCHANGED <<worker, buffer, pipe, results, ran>>
    BY <1>7 DEF RunInline, RunParallel, ParentTo, KeepWorkers, KeepQueues
  <2>2. \A j \in Jobs : results[j] = "none" /\ ran[j] = "no"
    BY <2>1 DEF Inv, Unstarted
  <2> QED
    BY <2>1, <2>2 DEF Once, Over
<1>8. CASE InlineJob
  <2>1. /\ UNCHANGED <<parent, worker, buffer, pipe>> /\ parent = "inline"
        /\ pipe = {} /\ \A w \in Workers : buffer[w] = {}
    BY <1>8 DEF InlineJob, KeepWorkers, KeepQueues, Inv, Unstarted
  <2>2. PICK j \in Jobs :
          /\ ran' \in {[ran EXCEPT ![j] = "ok"], [ran EXCEPT ![j] = "raised"]}
          /\ results' \in {[results EXCEPT ![j] = "completed"],
                           [results EXCEPT ![j] = "failed"]}
    BY <1>8 DEF InlineJob
  <2> QED
    BY <2>1, <2>2 DEF Once, Over, TypeOK
<1>14. CASE InterruptAgain
  <2>1. /\ UNCHANGED <<worker, buffer, results>> /\ pipe' = {}
        /\ ~Over /\ parent' # "inline"
    BY <1>14 DEF InterruptAgain, ParentTo, KeepWorkers, Over
  <2> QED
    BY <2>1 DEF Once
<1>9. CASE \/ InlineInterrupt \/ StartFails \/ CollectDone \/ CollectEmpty
           \/ CheckAlive \/ Interrupt \/ \E w \in Workers : Signal(w)
  <2>1. /\ UNCHANGED <<worker, buffer, pipe, results>>
        /\ ~Over /\ parent' # "inline"
    BY <1>9 DEF InlineInterrupt, StartFails, CollectDone, CollectEmpty, CheckAlive,
                Interrupt, Signal, ParentTo, KeepWorkers, KeepQueues, Over, Once
  <2> QED
    BY <2>1 DEF Once
<1>10. CASE InlineDone
  <2>1. UNCHANGED <<worker, buffer, pipe, results>> /\ parent' = "returned"
    BY <1>10 DEF InlineDone, ParentTo, KeepWorkers, KeepQueues
  <2> QED
    BY <2>1 DEF Once, Over
<1>11. CASE Collect
  <2>1. PICK j \in pipe :
          /\ pipe' = pipe \ {j}
          /\ results' = [results EXCEPT ![j] = IF ran[j] = "ok" THEN "completed"
                                               ELSE "failed"]
          /\ UNCHANGED <<worker, buffer, parent>> /\ parent = "collecting"
    BY <1>11 DEF Collect, KeepWorkers
  <2> QED
    BY <2>1 DEF Once, Over, TypeOK
<1>12. CASE Finish \/ Raise
  <2>1. /\ UNCHANGED <<worker, buffer>> /\ Over' /\ pipe' = {} /\ parent' # "inline"
        /\ \A w \in Workers : ~Alive(w)
    BY <1>12 DEF Finish, Raise, ParentTo, KeepWorkers, Over
  <2>2. \A w \in Workers : buffer[w] = {}
    BY <2>1 DEF Once, Alive, TypeOK
  <2> QED
    BY <2>1, <2>2 DEF Once
<1>13. CASE UNCHANGED vars
  BY <1>13 DEF vars, Once, Over
<1> QED
  BY <1>1, <1>2, <1>3, <1>4, <1>5, <1>6, <1>7, <1>8, <1>9, <1>10, <1>11, <1>12, <1>13, <1>14
  DEF Next, WorkerStep, ParentStep

\* Nothing that the promise speaks of changes.
Stutters == UNCHANGED <<results, ran, Over>>

\* Every step of a worker, of the parent or from outside is a step of PoolPromise or
\* none that it sees.
LEMMA NextKeepsPromise ==
  ASSUME TypeOK, Inv, NoWorkerOutlivesPool, Once, [Next]_vars
  PROVE  Promise!Next \/ Stutters
<1>1. ASSUME NEW w \in Workers, TakeJob(w)
      PROVE  Promise!Next
  <2>1. PICK j \in queued : ran' = [ran EXCEPT ![j] = "started"]
    BY <1>1 DEF TakeJob
  <2>2. j \in Jobs /\ ran[j] = "no"
    BY DEF TypeOK, Inv, Whereabouts
  <2>3. UNCHANGED <<parent, results>> /\ ~Over
    BY <1>1 DEF TakeJob, NoWorkerOutlivesPool, Alive, Over
  <2>4. Promise!Start(j)
    BY <2>1, <2>2, <2>3 DEF Promise!Start, Promise!Becomes
  <2> QED
    BY <2>2, <2>3, <2>4 DEF Promise!Next, Promise!Work, Over
<1>2. ASSUME NEW w \in Workers, FinishJob(w)
      PROVE  Promise!Next
  <2>1. job[w] \in Jobs /\ ran[job[w]] = "started" /\ ~Over
    BY <1>2, WorkedOnUntold DEF FinishJob
  <2>2. PICK end \in {"ok", "raised"} : ran' = [ran EXCEPT ![job[w]] = end]
    BY <1>2 DEF FinishJob
  <2>3. UNCHANGED <<parent, results>>
    BY <1>2 DEF FinishJob
  <2>4. Promise!End(job[w], end)
    BY <2>1, <2>2, <2>3 DEF Promise!End, Promise!Becomes
  <2> QED
    BY <2>1, <2>3, <2>4 DEF Promise!Next, Promise!Work, Over
<1>3. CASE Collect
  <2>1. PICK j \in pipe :
          results' = [results EXCEPT ![j] = IF ran[j] = "ok" THEN "completed"
                                            ELSE "failed"]
    BY <1>3 DEF Collect
  <2>2. UNCHANGED <<parent, ran>> /\ ~Over
    BY <1>3 DEF Collect, Over
  <2>3. j \in Jobs /\ results[j] = "none" /\ ran[j] \in {"ok", "raised"}
    BY DEF TypeOK, Once, Inv, ResultsAreTrue, Finished
  <2>4. Promise!Report(j, ran[j])
    BY <2>1, <2>2, <2>3 DEF Promise!Report, Promise!Tell, Promise!Told
  <2> QED
    BY <2>2, <2>3, <2>4 DEF Promise!Next, Promise!Work, Over
<1>4. CASE InlineJob
  <2>1. UNCHANGED parent /\ ~Over /\ parent = "inline"
    BY <1>4 DEF InlineJob, Over
  <2>2. PICK j \in Jobs \ Reported, end \in {"ok", "raised"} :
          /\ ran' = [ran EXCEPT ![j] = end]
          /\ results' = [results EXCEPT ![j] = Promise!Told(end)]
    BY <1>4 DEF InlineJob, Promise!Told
  <2>3. results[j] = "none" /\ ran[j] = "no"
    BY <2>1 DEF Reported, Once
  <2>4. Promise!RunAndReport(j, end)
    BY <2>2, <2>3 DEF Promise!RunAndReport, Promise!Becomes, Promise!Tell
  <2> QED
    BY <2>1, <2>4 DEF Promise!Next, Promise!Work, Over
<1>5. CASE InlineInterrupt
  <2>1. ~Over /\ ~Over' /\ UNCHANGED results /\ parent = "inline"
    BY <1>5 DEF InlineInterrupt, ParentTo, Over
  <2>2. CASE UNCHANGED ran
    BY <2>1, <2>2 DEF Stutters, Over
  <2>3. CASE \E j \in Jobs \ Reported : ran' = [ran EXCEPT ![j] = "started"]
    <3>1. PICK j \in Jobs \ Reported : ran' = [ran EXCEPT ![j] = "started"]
      BY <2>3
    <3>2. ran[j] = "no"
      BY <2>1 DEF Reported, Once
    <3>3. Promise!Start(j)
      BY <2>1, <3>1, <3>2 DEF Promise!Start, Promise!Becomes
    <3> QED
      BY <2>1, <3>3 DEF Promise!Next, Promise!Work
  <2> QED
    BY <1>5, <2>2, <2>3 DEF InlineInterrupt
<1>6. CASE InlineDone \/ Finish \/ Raise
  <2>1. ~Over /\ Over' /\ UNCHANGED ran
    BY <1>6 DEF InlineDone, Finish, Raise, ParentTo, Over
  <2>2. \E why \in {"missing", "interrupted"} :
          results' = [j \in Jobs |-> IF results[j] = "none" THEN why ELSE results[j]]
    <3>1. CASE InlineDone
      <4>1. results' = results /\ \A j \in Jobs : results[j] # "none"
        BY <3>1 DEF InlineDone, Reported
      <4> QED
        BY <4>1 DEF TypeOK
    <3>2. CASE Finish \/ Raise
      BY <3>2 DEF Finish, Raise
    <3> QED
      BY <1>6, <3>1, <3>2
  <2> QED
    BY <2>1, <2>2 DEF Promise!Next, Promise!Close
<1>7. ASSUME \/ \E w \in Workers :
                  \/ Boot(w) \/ TakeSentinel(w) \/ Unwind(w) \/ Leave(w)
                  \/ Flush(w) \/ Kill(w) \/ Signal(w) \/ KillAfterGrace(w)
             \/ UNCHANGED vars
      PROVE  Stutters
  BY <1>7 DEF Boot, TakeSentinel, Unwind, Leave, Flush, Kill, Signal, KillAfterGrace,
              Killed, vars, Stutters, Over
<1>8. ASSUME \/ \E w \in Workers : StartWorker(w)
             \/ RunInline \/ RunParallel \/ StartFails
             \/ CollectDone \/ CollectEmpty \/ CheckAlive \/ Interrupt
             \/ InterruptAgain
      PROVE  Stutters
  <2>1. UNCHANGED <<results, ran>> /\ ~Over /\ ~Over'
    BY <1>8 DEF StartWorker, RunInline, RunParallel, StartFails, CollectDone,
                CollectEmpty, CheckAlive, Interrupt, InterruptAgain, ParentTo, Over
  <2> QED
    BY <2>1 DEF Stutters, Over
<1> QED
  BY <1>1, <1>2, <1>3, <1>4, <1>5, <1>6, <1>7, <1>8 DEF Next, WorkerStep, ParentStep

\* Whichever way the jobs are run, and whoever is killed or interrupted when, the
\* caller of run() gets what PoolPromise allows.
THEOREM PoolKeepsItsPromise == Spec => KeepsItsPromise
<1>1. Init => Promise!Init /\ Once
  BY DEF Init, Promise!Init, Over, Once
<1>2. TypeOK /\ Inv /\ NoWorkerOutlivesPool /\ Once /\ [Next]_vars
        => Promise!Next \/ UNCHANGED <<results, ran, Over>>
  BY NextKeepsPromise DEF Stutters
<1> QED
  BY <1>1, <1>2, NextOnce, PoolTypeCorrect, PoolInv, NoWorkerIsLeft, PTL
  DEF Spec, KeepsItsPromise, Promise!Spec

----------------------------------------------------------------------------
(* The outcomes that are missing *)

Running == {"starting", "collecting", "checking", "joining"}

\* While the parent does not terminate its workers a job is in the queue until a
\* worker takes it.  One that has not ended is with that worker, and one that has
\* ended left its outcome in the worker's buffer, in the event queue or with the
\* parent, unless the worker was killed.  A worker leaves only when the job queue
\* is empty.
Held ==
  /\ signalled # {} => parent \notin Running \cup {"called"}
  /\ parent = "called" => \A j \in Jobs : takenBy[j] = NoWorker
  /\ \A w \in Workers : job[w] # NoJob => takenBy[job[w]] = w
  /\ parent \in Running =>
       /\ \A j \in Jobs : ran[j] = "no" => j \in queued /\ takenBy[j] = NoWorker
       /\ \A j \in Jobs : ran[j] # "no" => takenBy[j] \in Workers
       /\ \A w \in Workers : \A j \in Jobs :
            takenBy[j] = w /\ worker[w] # "killed" =>
              /\ ran[j] = "started" => job[w] = j
              /\ Finished(j) => results[j] # "none" \/ j \in pipe \cup buffer[w]
       /\ \A i, j \in Jobs :
            takenBy[i] = takenBy[j] /\ ran[i] = "started" /\ ran[j] = "started"
              => i = j
       /\ \A w \in Workers : worker[w] \in {"leaving", "dead"} => queued = {}
       /\ parent # "starting" => \A w \in Workers : worker[w] # "new"


LEMMA NextHeld == TypeOK /\ Inv /\ Held /\ [Next]_vars => Held'
<1> SUFFICES ASSUME TypeOK, Inv, Held, [Next]_vars
             PROVE  Held'
  OBVIOUS
<1> USE PoolAssumption DEF TypeOK, Held, Running, Finished
<1>1. ASSUME NEW w \in Workers, Boot(w) \/ TakeSentinel(w) \/ Leave(w)
      PROVE  Held'
  BY <1>1 DEF Boot, TakeSentinel, Leave, WorkerTo, KeepQueues
<1>2. ASSUME NEW w \in Workers, TakeJob(w)
      PROVE  Held'
  <2>1. PICK j \in queued : /\ queued' = queued \ {j}
                            /\ job' = [job EXCEPT ![w] = j]
                            /\ takenBy' = [takenBy EXCEPT ![j] = w]
                            /\ ran' = [ran EXCEPT ![j] = "started"]
    BY <1>2 DEF TakeJob
  <2>2. /\ worker[w] = "idle" /\ job[w] = NoJob
        /\ worker' = [worker EXCEPT ![w] = "working"]
        /\ UNCHANGED <<buffer, signalled, pipe, parent, results>>
    BY <1>2 DEF TakeJob, WorkerTo
  <2>3. j \in Jobs /\ ran[j] = "no"
    BY DEF Inv, Whereabouts
  <2>4. parent # "called" /\ \A v \in Workers : job[v] # j
    BY <2>3 DEF Inv, Whereabouts, Unstarted
  <2> QED
    BY <2>1, <2>2, <2>3, <2>4
<1>3. ASSUME NEW w \in Workers, FinishJob(w)
      PROVE  Held'
  <2>1. PICK end \in {"ok", "raised"} : ran' = [ran EXCEPT ![job[w]] = end]
    BY <1>3 DEF FinishJob
  <2>2. /\ worker[w] = "working" /\ job[w] \in Jobs /\ job[w] # NoJob
        /\ worker' = [worker EXCEPT ![w] = "idle"]
        /\ buffer' = [buffer EXCEPT ![w] = @ \cup {job[w]}]
        /\ job' = [job EXCEPT ![w] = NoJob]
        /\ UNCHANGED <<signalled, takenBy, queued, pipe, parent, results>>
    BY <1>3 DEF FinishJob, WorkerTo, KeepQueues
  <2>3. ran[job[w]] = "started"
    BY <2>2 DEF Inv, Whereabouts
  <2>4. takenBy[job[w]] = w
    BY <2>2
  <2>5. \A v \in Workers : job[v] = job[w] => v = w
    BY <2>2 DEF Inv, Whereabouts
  <2> QED
    BY <2>1, <2>2, <2>3, <2>4, <2>5
<1>4. ASSUME NEW w \in Workers, Flush(w)
      PROVE  Held'
  <2>1. PICK j \in buffer[w] : /\ buffer' = [buffer EXCEPT ![w] = @ \ {j}]
                               /\ pipe' = pipe \cup {j}
    BY <1>4 DEF Flush
  <2> QED
    BY <1>4, <2>1 DEF Flush
<1>5. ASSUME NEW w \in Workers, Unwind(w) \/ Signal(w)
      PROVE  Held'
  BY <1>5 DEF Unwind, Signal, WorkerTo, KeepQueues
<1>6. ASSUME NEW w \in Workers, Kill(w) \/ KillAfterGrace(w)
      PROVE  Held'
  BY <1>6 DEF Kill, KillAfterGrace, Killed, WorkerTo, KeepQueues
<1>7. ASSUME NEW w \in Workers, StartWorker(w)
      PROVE  Held'
  BY <1>7 DEF StartWorker, WorkerTo, ParentTo, KeepQueues
<1>8. CASE RunParallel
  BY <1>8 DEF RunParallel, ParentTo, KeepWorkers, Inv, Unstarted
<1>9. CASE RunInline \/ InlineJob \/ InlineDone \/ InlineInterrupt \/ StartFails
           \/ Finish \/ Interrupt \/ InterruptAgain \/ Raise
  <2>1. parent' \notin Running \cup {"called"}
    BY <1>9 DEF RunInline, InlineJob, InlineDone, InlineInterrupt, StartFails, Finish,
                Interrupt, InterruptAgain, Raise, ParentTo
  <2>2. UNCHANGED <<job, takenBy>>
    BY <1>9 DEF RunInline, InlineJob, InlineDone, InlineInterrupt, StartFails, Finish,
                Interrupt, InterruptAgain, Raise, KeepWorkers
  <2> QED
    BY <2>1, <2>2
<1>10. CASE Collect
  <2>1. PICK j \in pipe :
          /\ pipe' = pipe \ {j}
          /\ results' = [results EXCEPT ![j] = IF ran[j] = "ok" THEN "completed"
                                               ELSE "failed"]
    BY <1>10 DEF Collect
  <2> QED
    BY <1>10, <2>1 DEF Collect, KeepWorkers
<1>11. CASE CollectDone \/ CollectEmpty \/ CheckAlive
  BY <1>11 DEF CollectDone, CollectEmpty, CheckAlive, ParentTo, KeepWorkers, KeepQueues
<1>12. CASE UNCHANGED vars
  BY <1>12 DEF vars
<1> QED
  BY <1>1, <1>2, <1>3, <1>4, <1>5, <1>6, <1>7, <1>8, <1>9, <1>10, <1>11, <1>12
  DEF Next, WorkerStep, ParentStep

\* The step that MissingJobsAccountedFor speaks of.
Accounted ==
  /\ \A j \in Jobs : results'[j] = "missing" =>
       \/ \E w \in Workers : takenBy[j] = w /\ worker[w] = "killed"
       \/ j \in pipe
       \/ takenBy[j] = NoWorker /\ \A w \in Workers : worker[w] = "killed"
  /\ \A i, j \in Jobs :
       takenBy[i] = takenBy[j] /\ ran[i] = "started" /\ ran[j] = "started" => i = j

LEMMA ReturnAccounts ==
  ASSUME TypeOK, Inv, NoWorkerOutlivesPool, Once, Held, [Next]_vars,
         ~Over, parent' = "returned"
  PROVE  Accounted
<1>1. Finish \/ InlineDone
  BY DEF Next, WorkerStep, ParentStep, Boot, TakeJob, TakeSentinel, FinishJob, Flush,
         Unwind, Leave, Kill, Killed, KillAfterGrace, Signal, StartWorker, RunInline,
         InlineJob, InlineInterrupt, RunParallel, StartFails, Collect, CollectDone,
         CollectEmpty, CheckAlive, Interrupt, InterruptAgain, Raise, ParentTo,
         KeepWorkers, KeepQueues, Over, vars
<1>2. CASE InlineDone
  <2>1. /\ \A j \in Jobs : results[j] # "none"
        /\ results' = results
    BY <1>2 DEF InlineDone, Reported
  <2>2. \A j \in Jobs : results[j] \in {"completed", "failed"}
    BY <2>1 DEF Once
  <2>3. \A j \in Jobs : ran[j] # "started"
    BY <2>2 DEF Inv, ResultsAreTrue
  <2> QED
    BY <2>1, <2>2, <2>3 DEF Accounted
<1>3. CASE Finish
  <2>1. /\ parent = "joining"
        /\ \A w \in Workers : worker[w] \in {"dead", "killed"}
        /\ results' = [j \in Jobs |-> IF results[j] = "none" THEN "missing"
                                      ELSE results[j]]
    BY <1>3 DEF Finish, Alive, Held, Running, TypeOK
  <2>2. ASSUME NEW j \in Jobs, results'[j] = "missing"
        PROVE  \/ \E w \in Workers : takenBy[j] = w /\ worker[w] = "killed"
               \/ j \in pipe
               \/ takenBy[j] = NoWorker /\ \A w \in Workers : worker[w] = "killed"
    <3>1. results[j] = "none"
      BY <2>1, <2>2 DEF Once, Over
    <3>2. CASE ran[j] = "no"
      BY <2>1, <3>2 DEF Held, Running
    <3>3. CASE ran[j] = "started"
      <4>1. takenBy[j] \in Workers /\ job[takenBy[j]] # j
        BY <2>1, <3>3, PoolAssumption DEF Held, Running, TypeOK
      <4> QED
        BY <2>1, <3>3, <4>1 DEF Held, Running
    <3>4. CASE Finished(j)
      <4>1. takenBy[j] \in Workers
        BY <2>1, <3>4 DEF Held, Running, Finished
      <4>2. CASE worker[takenBy[j]] = "killed"
        BY <4>1, <4>2
      <4>3. CASE worker[takenBy[j]] = "dead"
        <5>1. buffer[takenBy[j]] = {}
          BY <4>1, <4>3 DEF Once
        <5> QED
          BY <2>1, <3>1, <3>4, <4>1, <4>3, <5>1 DEF Held, Running
      <4> QED
        BY <2>1, <4>1, <4>2, <4>3
    <3> QED
      BY <3>2, <3>3, <3>4 DEF TypeOK, Finished
  <2>3. \A i, j \in Jobs :
          takenBy[i] = takenBy[j] /\ ran[i] = "started" /\ ran[j] = "started" => i = j
    BY <2>1 DEF Held, Running
  <2> QED
    BY <2>2, <2>3 DEF Accounted
<1> QED
  BY <1>1, <1>2, <1>3

(* However many jobs and workers there are, run() returns without the outcome of a   *)
(* job only for a job that a killed worker had taken, one whose outcome came after   *)
(* the last poll, or one that no worker was left to take.                            *)
THEOREM MissingAreAccountedFor == Spec => MissingJobsAccountedFor
<1>1. Init => Once /\ Held
  BY DEF Init, Once, Over, Held, Running
<1>2. TypeOK /\ Inv /\ NoWorkerOutlivesPool /\ Once /\ Held /\ [Next]_vars
        => (~Over /\ parent' = "returned" => Accounted)
  BY ReturnAccounts
<1>3. (~Over /\ parent' = "returned" => Accounted)
        => (~Over /\ parent' = "returned" =>
              /\ \A j \in Jobs : results'[j] = "missing" =>
                   \/ \E w \in Workers : takenBy[j] = w /\ worker[w] = "killed"
                   \/ j \in pipe
                   \/ takenBy[j] = NoWorker /\ \A w \in Workers : worker[w] = "killed"
              /\ \A i, j \in Jobs :
                   takenBy[i] = takenBy[j] /\ ran[i] = "started" /\ ran[j] = "started"
                     => i = j)
  BY DEF Accounted
<1> QED
  BY <1>1, <1>2, <1>3, NextOnce, NextHeld, PoolTypeCorrect, PoolInv, NoWorkerIsLeft, PTL
  DEF Spec, MissingJobsAccountedFor
=============================================================================
