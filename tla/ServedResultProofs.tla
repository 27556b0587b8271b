------------------------- MODULE ServedResultProofs -------------------------
(***************************************************************************)
(* RunLifecycle implements ServedResult: every step of the API maps to a   *)
(* step of the promise made to the readers of a scenario, or to none.      *)
(***************************************************************************)
EXTENDS RunLifecycleProofs

\* AttemptState, without the instance: where run r stands for its readers.
LEMMA AttemptStates ==
  ASSUME TypeOK, Bookkeeping, NEW r \in Runs
  PROVE  /\ Unused(r) => AttemptState(r) = <<"new">>
         /\ task[r] \in Waiting => AttemptState(r) = <<"live", owner[r]>>
         /\ ~Unused(r) /\ task[r] \notin Waiting /\ meta[r] = "completed" /\ r \in db
              => AttemptState(r) = <<"good", owner[r]>>
         /\ ~Unused(r) /\ task[r] \notin Waiting /\ ~(meta[r] = "completed" /\ r \in db)
              => AttemptState(r) = <<"over", owner[r]>>
         /\ task[r] \in Waiting => ~Unused(r) /\ meta[r] = "none"
         /\ ~Unused(r) => owner[r] \in Scenarios
  BY DEF AttemptState, Bookkeeping, RunFacts, Waiting, Executing, Unused, TypeOK

LEMMA SameState ==
  ASSUME NEW q \in Runs, owner'[q] = owner[q],
         task'[q] \in Waiting <=> task[q] \in Waiting,
         (meta'[q] = "completed" /\ q \in db') <=> (meta[q] = "completed" /\ q \in db)
  PROVE  AttemptState(q)' = AttemptState(q)
  BY DEF AttemptState, Unused, Executing

LEMMA ServedInit == Init => Promise!Init
  BY DEF Init, Promise!Init, Promise!New, AttemptState, Unused

States == [r \in Runs |-> AttemptState(r)]

(***************************************************************************)
(* The steps of the promise, said of the states of the runs.               *)
(***************************************************************************)

LEMMA Stutter ==
  ASSUME current' = current, \A q \in Runs : AttemptState(q)' = AttemptState(q)
  PROVE  UNCHANGED <<current, States>>
  BY DEF States

\* One run moves, and the pointer of its scenario with it if it ends well.
LEMMA Moves ==
  ASSUME NEW s \in Scenarios, NEW r \in Runs,
         \A q \in Runs \ {r} : AttemptState(q)' = AttemptState(q)
  PROVE  /\ /\ current' = current
            /\ AttemptState(r) = <<"new">> /\ AttemptState(r)' = <<"live", s>>
            => Promise!Begin(s, r)
         /\ /\ current' = current
            /\ AttemptState(r) = <<"live", s>>
            /\ AttemptState(r)' \in {<<"over", s>>, <<"good", s>>}
            => Promise!Abandon(s, r)
         /\ /\ current' = [current EXCEPT ![s] = r]
            /\ AttemptState(r) = <<"live", s>> /\ AttemptState(r)' = <<"good", s>>
            => Promise!Publish(s, r)
  BY DEF Promise!Begin, Promise!Abandon, Promise!Publish, Promise!OnlyTurns,
     Promise!Turns, Promise!Keeps, Promise!New, Promise!Live, Promise!Good,
     Promise!Over

\* How the attempts fare when the service dies.
Loses(q) ==
  \/ task[q] \notin Waiting /\ AttemptState(q)' = AttemptState(q)
  \/ \E s \in Scenarios : /\ AttemptState(q) = <<"live", s>>
                          /\ AttemptState(q)' = <<"over", s>>

LEMMA Dies ==
  ASSUME TypeOK, Bookkeeping, NEW q \in Runs, Loses(q)
  PROVE  Promise!Dies(q)
  <1>1. CASE task[q] \notin Waiting /\ AttemptState(q)' = AttemptState(q)
    <2>1. AttemptState(q)[1] # "live"
      BY <1>1 DEF AttemptState, Executing
    <2> QED
      BY <1>1, <2>1 DEF Promise!Dies, Promise!Keeps
  <1>2. ASSUME NEW s \in Scenarios, AttemptState(q) = <<"live", s>>,
               AttemptState(q)' = <<"over", s>>
        PROVE  Promise!Dies(q)
    BY <1>2 DEF Promise!Dies, Promise!Turns, Promise!Live, Promise!Over
  <1> QED
    BY <1>1, <1>2 DEF Loses

\* Losing its memory ends every attempt of the API process.
LEMMA MemoryLost ==
  ASSUME TypeOK, Bookkeeping, LoseMemory, NEW q \in Runs,
         meta'[q] = meta[q], q \in db' <=> q \in db
  PROVE  Loses(q)
  <1>1. CASE task[q] \in Waiting
    <2>1. AttemptState(q) = <<"live", owner[q]>> /\ owner[q] \in Scenarios
      BY <1>1, AttemptStates
    <2>2. AttemptState(q)' = <<"over", owner[q]>>
      BY <1>1, AttemptStates
      DEF AttemptState, LoseMemory, Unused, Executing, Waiting
    <2> QED
      BY <2>1, <2>2 DEF Loses
  <1>2. CASE task[q] \notin Waiting
    BY <1>2, SameState DEF LoseMemory, Loses, Waiting
  <1> QED
    BY <1>1, <1>2

(***************************************************************************)
(* The steps of the lifecycle.                                             *)
(***************************************************************************)

LEMMA FailureServes ==
  ASSUME TypeOK, Bookkeeping, NEW r \in Runs, task[r] \in Waiting,
         NEW met, MetaBefore(r, met),
         NEW tel \in [Runs -> {"absent", "running"} \cup Terminal],
         HandleFailure(owner[r], r, current, met, tel), UNCHANGED <<db, owner>>
  PROVE  \E s \in Scenarios : Promise!Abandon(s, r)
  <1>1. AttemptState(r) = <<"live", owner[r]>> /\ owner[r] \in Scenarios
    BY AttemptStates
  <1>2. /\ \A q \in Runs \ {r} : task'[q] = task[q] /\ meta'[q] = meta[q]
        /\ task'[r] = "done"
    BY FailureFacts
  <1>3. AttemptState(r)' \in {<<"over", owner[r]>>, <<"good", owner[r]>>}
    BY <1>1, <1>2, ConstantsAssumption DEF AttemptState, Unused, Executing, Waiting
  <1>4. \A q \in Runs \ {r} : AttemptState(q)' = AttemptState(q)
    BY <1>2, SameState
  <1>5. current' = current
    BY DEF HandleFailure
  <1> QED
    BY <1>1, <1>3, <1>4, <1>5, Moves

LEMMA PreparedServes ==
  ASSUME TypeOK, Bookkeeping, NEW r \in Runs, task[r] = "queued",
         Prepared(owner[r], r) \/ PrepareFails(owner[r], r),
         UNCHANGED <<db, owner>>
  PROVE  \/ \E s \in Scenarios : Promise!Abandon(s, r)
         \/ UNCHANGED <<current, States>>
  <1>1. CASE Prepared(owner[r], r)
    <2>1. /\ \A q \in Runs : task'[q] \in Waiting <=> task[q] \in Waiting
          /\ \A q \in Runs : meta'[q] = meta[q]
          /\ UNCHANGED <<db, owner>>
      BY <1>1, PreparedFacts DEF Waiting
    <2>2. current' = current
      BY <1>1 DEF Prepared
    <2>3. \A q \in Runs : AttemptState(q)' = AttemptState(q)
      BY <2>1, SameState
    <2> QED
      BY <2>2, <2>3, Stutter
  <1>2. CASE PrepareFails(owner[r], r)
    <2>1. owner[r] \in Scenarios /\ task[r] \in Waiting
      BY AttemptStates DEF Waiting
    <2>2. StartTelemetry(owner[r], r) \in [Runs -> {"absent", "running"} \cup Terminal]
      BY <2>1, StatusUpdates DEF Terminal
    <2> QED
      BY <1>2, <2>1, <2>2, RecordsAreBefore, FailureServes DEF PrepareFails
  <1> QED
    BY <1>1, <1>2

\* A coroutine that sees its subprocess end publishes the result or abandons.
LEMMA FinishServes ==
  ASSUME TypeOK, Bookkeeping, "fsync" \notin Environment,
         NEW r \in Runs, FinishRun(r)
  PROVE  \E s \in Scenarios : Promise!Publish(s, r) \/ Promise!Abandon(s, r)
  <1>1. /\ task[r] \in Waiting /\ UNCHANGED <<db, owner>>
        /\ telem \in [Runs -> {"absent", "running"} \cup Terminal]
    BY DEF FinishRun, Waiting, TypeOK
  <1>2. AttemptState(r) = <<"live", owner[r]>> /\ owner[r] \in Scenarios
    BY <1>1, AttemptStates
  <1>3. ASSUME NEW met, MetaBefore(r, met),
               HandleFailure(owner[r], r, current, met, telem)
        PROVE  \E s \in Scenarios : Promise!Abandon(s, r)
    BY <1>1, <1>3, FailureServes
  <1>4. CASE Finalize(owner[r], r)
    <2>1. /\ \A q \in Runs \ {r} : task'[q] = task[q] /\ meta'[q] = meta[q]
          /\ task'[r] = "exporting" /\ meta'[r] = "completed"
      BY <1>4, FinalizeFacts
    <2>2. r \in db /\ current' = [current EXCEPT ![owner[r]] = r]
      BY <1>4 DEF Finalize, CanFinalize
    <2>3. AttemptState(r)' = <<"good", owner[r]>>
      BY <1>1, <1>2, <2>1, <2>2, ConstantsAssumption
      DEF AttemptState, Unused, Executing, Waiting
    <2>4. \A q \in Runs \ {r} : AttemptState(q)' = AttemptState(q)
      BY <1>1, <2>1, SameState
    <2> QED
      BY <1>2, <2>2, <2>3, <2>4, Moves
  <1>5. \A cur \in PointersAfterRaise(owner[r], r) : cur = current
    BY DEF PointersAfterRaise
  <1> QED
    BY <1>3, <1>4, <1>5, RecordsAreBefore DEF FinishRun

LEMMA RunServes ==
  ASSUME TypeOK, Bookkeeping, "fsync" \notin Environment,
         NEW r \in Runs, RunStep(r)
  PROVE  \/ \E s \in Scenarios : \/ Promise!Publish(s, r)
                                 \/ Promise!Abandon(s, r)
                                 \/ Promise!CrashInPublish(s, r)
         \/ Promise!Crash
         \/ UNCHANGED <<current, States>>
  <1> RunFacts(r) /\ telem \in [Runs -> {"absent", "running"} \cup Terminal]
    BY DEF Bookkeeping, TypeOK
  <1>1. CASE ExecuteReserved(r)
    BY <1>1, PreparedServes DEF ExecuteReserved
  <1>2. CASE ExecuteBatch(r)
    <2>1. CASE Readable(owner[r])
      BY <1>2, <2>1, PreparedServes DEF ExecuteBatch
    <2>2. CASE ~Readable(owner[r])
      <3>1. /\ task' = [task EXCEPT ![r] = "done"] /\ task[r] = "queued"
            /\ UNCHANGED <<current, meta, db, owner>>
        BY <1>2, <2>2 DEF ExecuteBatch
      <3>2. AttemptState(r) = <<"live", owner[r]>> /\ owner[r] \in Scenarios
        BY <3>1, AttemptStates DEF Waiting
      <3>3. AttemptState(r)' = <<"over", owner[r]>>
        BY <3>1, <3>2, ConstantsAssumption
        DEF AttemptState, Unused, Executing, Waiting, RunFacts, TypeOK
      <3>4. \A q \in Runs \ {r} : AttemptState(q)' = AttemptState(q)
        BY <3>1, SameState DEF TypeOK
      <3> QED
        BY <3>1, <3>2, <3>3, <3>4, Moves
    <2> QED
      BY <2>1, <2>2
  <1>3. CASE Spawn(r) \/ ExportDone(r)
    <2>1. /\ \A q \in Runs : task'[q] \in Waiting <=> task[q] \in Waiting
          /\ UNCHANGED <<current, meta, db, owner>>
      BY <1>3 DEF Spawn, ExportDone, files, Waiting, TypeOK
    <2> QED
      BY <2>1, SameState, Stutter
  <1>4. CASE SpawnFails(r) \/ StreamFails(r)
    BY <1>4, RecordsAreBefore, FailureServes DEF SpawnFails, StreamFails, Waiting
  <1>5. CASE ProcessWrites(r)
    <2>1. UNCHANGED <<current, meta, task, owner>> /\ db' = db \cup {r}
      BY <1>5 DEF ProcessWrites, memory
    <2>2. meta[r] # "completed"
      BY <1>5 DEF ProcessWrites, RunFacts
    <2> QED
      BY <2>1, <2>2, SameState, Stutter
  <1>6. CASE ProcessExits(r) \/ CancelBegin(r) \/ CancelExited(r) \/ CancelFinish(r)
    <2>1. UNCHANGED <<current, meta, db, task, owner>>
      BY <1>6 DEF ProcessExits, CancelBegin, CancelExited, CancelFinish,
                  CancelEffects, files, memory
    <2> QED
      BY <2>1, SameState, Stutter
  <1>7. CASE FinishRun(r)
    BY <1>7, FinishServes
  <1>8. CASE RestartInFinalize(r)
    <2>1. /\ LoseMemory /\ task[r] \in Waiting
          /\ meta' = [meta EXCEPT ![r] = "completed"] /\ db' = db
          /\ \/ current' = current
             \/ r \in db /\ current' = [current EXCEPT ![owner[r]] = r]
      BY <1>8 DEF RestartInFinalize, CanFinalize, Waiting
    <2>2. AttemptState(r) = <<"live", owner[r]>> /\ owner[r] \in Scenarios
      BY <2>1, AttemptStates
    <2>3. \A q \in Runs \ {r} : Promise!Dies(q)
      BY <2>1, MemoryLost, Dies DEF TypeOK
    <2>4. CASE r \in db
      <3>1. AttemptState(r)' = <<"good", owner[r]>>
        BY <2>1, <2>2, <2>4, ConstantsAssumption
        DEF LoseMemory, AttemptState, Unused, Executing, Waiting, TypeOK
      <3> QED
        BY <2>1, <2>2, <2>3, <3>1
        DEF Promise!CrashInPublish, Promise!Turns, Promise!Live, Promise!Good
    <2>5. CASE r \notin db
      <3>1. AttemptState(r)' = <<"over", owner[r]>>
        BY <2>1, <2>2, <2>5, ConstantsAssumption
        DEF LoseMemory, AttemptState, Unused, Executing, Waiting
      <3>2. Promise!Dies(r)
        BY <2>2, <3>1, Dies DEF Loses
      <3> QED
        BY <2>1, <2>3, <2>5, <3>2 DEF Promise!Crash
    <2> QED
      BY <2>4, <2>5
  <1>9. CASE RestartInFailure(r)
    <2>1. LoseMemory /\ UNCHANGED <<current, meta, db>>
      BY <1>9 DEF RestartInFailure
    <2> QED
      BY <2>1, MemoryLost, Dies DEF Promise!Crash
  <1> QED
    BY <1>1, <1>2, <1>3, <1>4, <1>5, <1>6, <1>7, <1>8, <1>9 DEF RunStep

\* A deletion of results of scenario s leaves a good attempt good, or ends it.
LEMMA Withdrawn ==
  ASSUME TypeOK, Bookkeeping, NEW s \in Scenarios, NEW q \in Runs,
         owner'[q] = owner[q], task'[q] = task[q],
         meta'[q] \in {meta[q], "none"},
         owner[q] # s => meta'[q] = meta[q] /\ (q \in db' <=> q \in db),
         q \in db' => q \in db
  PROVE  Promise!Keeps(q) \/ Promise!Turns(q, Promise!Good(s), Promise!Over(s))
  BY AttemptStates, ConstantsAssumption
  DEF AttemptState, Unused, Executing, Promise!Keeps, Promise!Turns,
      Promise!Good, Promise!Over

LEMMA ScenarioServes ==
  ASSUME TypeOK, Bookkeeping, NEW s \in Scenarios, ScenarioStep(s)
  PROVE  \/ \E r \in Runs : Promise!Begin(s, r)
         \/ Promise!Withdraw(s)
         \/ Promise!CrashInWithdraw(s)
         \/ UNCHANGED <<current, States>>
  <1>1. ASSUME NEW r \in Runs, StartSimulation(s, r) \/ BatchQueue(s, r)
        PROVE  Promise!Begin(s, r)
    <2>1. /\ Unused(r) /\ UNCHANGED <<current, meta, db>>
          /\ owner' = [owner EXCEPT ![r] = s]
          /\ task' = [task EXCEPT ![r] = "queued"]
      BY <1>1 DEF StartSimulation, BatchQueue, files
    <2>2. /\ AttemptState(r) = <<"new">>
          /\ AttemptState(r)' = <<"live", s>>
      BY <2>1, ConstantsAssumption
      DEF AttemptState, Unused, Executing, Waiting, TypeOK
    <2>3. \A q \in Runs \ {r} : AttemptState(q)' = AttemptState(q)
      BY <2>1, SameState DEF TypeOK
    <2> QED
      BY <2>1, <2>2, <2>3, Moves
  <1>2. CASE ResetStatus(s)
    <2>1. UNCHANGED <<current, meta, db, task, owner>>
      BY <1>2 DEF ResetStatus, memory
    <2> QED
      BY <2>1, SameState, Stutter
  <1>3. CASE DeleteDatabase(s) \/ DeleteScenario(s)
    <2>1. /\ current' = [current EXCEPT ![s] = NoRun]
          /\ db' = db \ RunsOf(s) /\ UNCHANGED <<owner, task>>
          /\ \A q \in Runs : /\ meta'[q] \in {meta[q], "none"}
                             /\ owner[q] # s => meta'[q] = meta[q]
      BY <1>3 DEF DeleteDatabase, DeleteScenario, memory
    <2>2. \A q \in Runs : \/ Promise!Keeps(q)
                         \/ Promise!Turns(q, Promise!Good(s), Promise!Over(s))
      BY <2>1, Withdrawn DEF RunsOf
    <2> QED
      BY <2>1, <2>2 DEF Promise!Withdraw
  <1>4. CASE RestartInDelete(s)
    <2>1. /\ current' = [current EXCEPT ![s] = NoRun]
          /\ LoseMemory /\ meta' = meta
          /\ \E D \in SUBSET RunsOf(s) : db' = db \ D
      BY <1>4 DEF RestartInDelete
    <2>2. ASSUME NEW q \in Runs
          PROVE  \/ Promise!Dies(q)
                 \/ Promise!Turns(q, Promise!Good(s), Promise!Over(s))
      <3>1. CASE q \in db' <=> q \in db
        BY <2>1, <3>1, MemoryLost, Dies
      <3>2. CASE ~(q \in db' <=> q \in db)
        <4>1. owner[q] = s /\ q \in db /\ q \notin db'
          BY <2>1, <3>2 DEF RunsOf
        <4>2. CASE task[q] \in Waiting
          <5>1. AttemptState(q) = <<"live", s>> /\ meta[q] # "completed"
            BY <4>1, <4>2, AttemptStates
          <5>2. AttemptState(q)' = <<"over", s>>
            BY <2>1, <4>1, ConstantsAssumption
            DEF AttemptState, LoseMemory, Unused, Executing, Waiting
          <5> QED
            BY <5>1, <5>2, Dies DEF Loses
        <4>3. CASE task[q] \notin Waiting /\ meta[q] = "completed"
          <5>1. AttemptState(q) = <<"good", s>>
            BY <4>1, <4>3, AttemptStates, ConstantsAssumption DEF Unused
          <5>2. AttemptState(q)' = <<"over", s>>
            BY <2>1, <4>1, ConstantsAssumption
            DEF AttemptState, LoseMemory, Unused, Executing, Waiting
          <5> QED
            BY <5>1, <5>2 DEF Promise!Turns, Promise!Good, Promise!Over
        <4>4. CASE task[q] \notin Waiting /\ meta[q] # "completed"
          <5>1. AttemptState(q)' = AttemptState(q)
            BY <2>1, <4>4, SameState DEF LoseMemory, Waiting
          <5> QED
            BY <4>4, <5>1, Dies DEF Loses
        <4> QED
          BY <4>2, <4>3, <4>4
      <3> QED
        BY <3>1, <3>2
    <2> QED
      BY <2>1, <2>2 DEF Promise!CrashInWithdraw
  <1> QED
    BY <1>1, <1>2, <1>3, <1>4 DEF ScenarioStep

LEMMA NextServes ==
  ASSUME TypeOK, Bookkeeping, [Next]_vars, "fsync" \notin Environment
  PROVE  Promise!Next \/ UNCHANGED <<current, States>>
  <1>1. States' \in [Runs -> Promise!States]
    <2>1. owner' \in [Runs -> Scenarios \cup {NoScenario}]
      BY NextType DEF TypeOK
    <2> QED
      BY <2>1 DEF States, AttemptState, Unused, Promise!States, Promise!New
  <1>2. ASSUME NEW r \in Runs, RunStep(r)
        PROVE  Promise!Next \/ UNCHANGED <<current, States>>
    BY <1>1, <1>2, RunServes DEF Promise!Next, States
  <1>3. ASSUME NEW s \in Scenarios, ScenarioStep(s)
        PROVE  Promise!Next \/ UNCHANGED <<current, States>>
    BY <1>1, <1>3, ScenarioServes DEF Promise!Next, States
  <1>4. CASE Restart
    <2>1. LoseMemory /\ UNCHANGED <<current, meta, db>>
      BY <1>4 DEF Restart, files
    <2> QED
      BY <1>1, <2>1, MemoryLost, Dies DEF Promise!Next, Promise!Crash, States
  <1>5. CASE UNCHANGED vars
    <2>1. UNCHANGED <<current, meta, db, task, owner>>
      BY <1>5 DEF vars, files, memory
    <2> QED
      BY <2>1, SameState, Stutter
  <1> QED
    BY <1>2, <1>3, <1>4, <1>5 DEF Next

(* The run lifecycle keeps the promise made to the readers of a scenario:    *)
(* what they are served is nothing or a complete result, it changes only     *)
(* when a live attempt ends well or results are deleted, and no failure,     *)
(* cancellation or restart touches it.                                       *)
THEOREM KeepsThePromise ==
  ASSUME "fsync" \notin Environment
  PROVE  Spec => ServesCompleteResults
  <1>1. TypeOK /\ Bookkeeping /\ [Next]_vars
        => Promise!Next \/ UNCHANGED <<current, [r \in Runs |-> AttemptState(r)]>>
    BY NextServes DEF States
  <1> QED
    BY <1>1, ServedInit, BookkeepingCorrect, PTL
    DEF Spec, ServesCompleteResults, Promise!Spec
=============================================================================
