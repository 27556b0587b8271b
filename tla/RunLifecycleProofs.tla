------------------------- MODULE RunLifecycleProofs -------------------------
(***************************************************************************)
(* Proofs about RunLifecycle, for any set of scenarios and runs.           *)
(***************************************************************************)
EXTENDS RunLifecycle, TLAPS

(***************************************************************************)
(* Type correctness.                                                       *)
(***************************************************************************)

LEMMA StatusUpdates ==
  ASSUME TypeOK, NEW s \in Scenarios \cup {NoScenario}, NEW r \in Runs,
         NEW st \in {"running"} \cup Terminal
  PROVE  /\ SetStatus(s, st) \in [Scenarios -> ModelStatuses \cup {"pending", "deleted"}]
         /\ SetLast(s, r) \in [Scenarios -> Runs \cup {NoRun}]
         /\ SetRegistry(r, st) \in
              [Runs -> {"absent", "pending", "running"} \cup Terminal]
         /\ SetTelemetry(r, st) \in [Runs -> {"absent", "running"} \cup Terminal]
         /\ StartTelemetry(s, r) \in [Runs -> {"absent", "running"} \cup Terminal]
  BY DEF TypeOK, SetStatus, SetLast, SetRegistry, SetTelemetry, StartTelemetry,
         ModelStatuses, Terminal

\* What a failure handler may find in the metadata of the runs: archive_run has
\* written no other than that of run r.
MetaBefore(r, met) ==
  /\ met \in [Runs -> Terminal \cup {"none"}]
  /\ \A q \in Runs \ {r} : met[q] = meta[q]

LEMMA RecordsAreBefore ==
  ASSUME TypeOK, NEW r \in Runs
  PROVE  /\ MetaBefore(r, meta)
         /\ \A s, cur : \A met \in RecordsAfterRaise(s, r, cur) : MetaBefore(r, met)
  BY DEF TypeOK, MetaBefore, RecordsAfterRaise, Terminal

LEMMA FailureType ==
  ASSUME TypeOK, NEW s \in Scenarios \cup {NoScenario}, NEW r \in Runs,
         NEW cur \in [Scenarios -> Runs \cup {NoRun}],
         NEW met, MetaBefore(r, met),
         NEW tel \in [Runs -> {"absent", "running"} \cup Terminal],
         HandleFailure(s, r, cur, met, tel),
         UNCHANGED <<db, cancelledRuns, cancelling, proc, owner, restarts>>,
         procs' \subseteq Runs
  PROVE  TypeOK'
  <1> DEFINE st == IF r \in cancelledRuns THEN "cancelled" ELSE "failed"
  <1>1. st \in Terminal
    BY DEF Terminal
  <1>2. /\ status' = SetStatus(s, st)
        /\ last' = SetLast(s, r)
        /\ registry' = SetRegistry(r, st)
    BY DEF HandleFailure
  <1>3. /\ status' \in [Scenarios -> ModelStatuses \cup {"pending", "deleted"}]
        /\ last' \in [Scenarios -> Runs \cup {NoRun}]
        /\ registry' \in [Runs -> {"absent", "pending", "running"} \cup Terminal]
    BY <1>1, <1>2, StatusUpdates
  <1>4. telem' \in [Runs -> {"absent", "running"} \cup Terminal]
    BY <1>1 DEF HandleFailure
  <1>5. /\ meta' \in [Runs -> Terminal \cup {"none"}]
        /\ current' \in [Scenarios -> Runs \cup {NoRun}]
        /\ task' \in [Runs -> Waiting \cup {"none", "exporting", "done"}]
        /\ outcome' \in [Runs -> {"none", "pending", "running"} \cup Terminal]
    BY <1>1 DEF HandleFailure, MetaBefore, TypeOK, Terminal
  <1> QED
    BY <1>3, <1>4, <1>5 DEF TypeOK

LEMMA PreparedType ==
  ASSUME TypeOK, NEW s \in Scenarios \cup {NoScenario}, NEW r \in Runs,
         Prepared(s, r) \/ PrepareFails(s, r),
         UNCHANGED <<db, procs, cancelledRuns, cancelling, proc, owner, restarts>>
  PROVE  TypeOK'
  <1>1. CASE Prepared(s, r)
    <2>1. /\ status' \in [Scenarios -> ModelStatuses \cup {"pending", "deleted"}]
          /\ last' \in [Scenarios -> Runs \cup {NoRun}]
          /\ registry' \in [Runs -> {"absent", "pending", "running"} \cup Terminal]
          /\ telem' \in [Runs -> {"absent", "running"} \cup Terminal]
      BY <1>1, StatusUpdates DEF Prepared
    <2> QED
      BY <1>1, <2>1 DEF Prepared, TypeOK, Waiting
  <1>2. CASE PrepareFails(s, r)
    <2>1. StartTelemetry(s, r) \in [Runs -> {"absent", "running"} \cup Terminal]
      BY StatusUpdates DEF Terminal
    <2>2. current \in [Scenarios -> Runs \cup {NoRun}] /\ procs' \subseteq Runs
      BY DEF TypeOK
    <2> QED
      BY <1>2, <2>1, <2>2, RecordsAreBefore, FailureType DEF PrepareFails
  <1> QED
    BY <1>1, <1>2

LEMMA CancelType ==
  ASSUME TypeOK, NEW s \in Scenarios \cup {NoScenario}, NEW r \in Runs,
         CancelEffects(s, r), cancelling' \subseteq Runs
  PROVE  TypeOK'
  <1>1. "cancelled" \in Terminal
    BY DEF Terminal
  <1>2. /\ SetStatus(s, "cancelled") \in [Scenarios -> ModelStatuses \cup {"pending", "deleted"}]
        /\ SetTelemetry(r, "cancelled") \in [Runs -> {"absent", "running"} \cup Terminal]
    BY <1>1, StatusUpdates
  <1>3. \/ UNCHANGED <<status, telem>>
        \/ status' = SetStatus(s, "cancelled") /\ telem' = SetTelemetry(r, "cancelled")
    BY DEF CancelEffects
  <1>4. /\ status' \in [Scenarios -> ModelStatuses \cup {"pending", "deleted"}]
        /\ telem' \in [Runs -> {"absent", "running"} \cup Terminal]
    BY <1>2, <1>3 DEF TypeOK
  <1> QED
    BY <1>1, <1>4 DEF CancelEffects, TypeOK

LEMMA PointersType ==
  ASSUME TypeOK, NEW s, NEW r \in Runs, NEW cur \in PointersAfterRaise(s, r)
  PROVE  cur \in [Scenarios -> Runs \cup {NoRun}]
  BY DEF TypeOK, PointersAfterRaise

LEMMA InitType == Init => TypeOK
  BY ConstantsAssumption DEF Init, TypeOK, ModelStatuses, Terminal, Waiting

LEMMA NextType == TypeOK /\ [Next]_vars => TypeOK'
  <1> SUFFICES ASSUME TypeOK, [Next]_vars PROVE TypeOK'
    OBVIOUS
  <1>1. ASSUME NEW r \in Runs, RunStep(r) PROVE TypeOK'
    <2> owner[r] \in Scenarios \cup {NoScenario}
      BY DEF TypeOK
    <2>1. CASE ExecuteReserved(r)
      BY <2>1, PreparedType DEF ExecuteReserved
    <2>2. CASE ExecuteBatch(r)
      <3>1. CASE Readable(owner[r])
        BY <2>2, <3>1, PreparedType DEF ExecuteBatch
      <3>2. CASE ~Readable(owner[r])
        BY <2>2, <3>2 DEF ExecuteBatch, TypeOK, Terminal
      <3> QED
        BY <3>1, <3>2
    <2>3. CASE Spawn(r)
      BY <2>3 DEF Spawn, TypeOK, Waiting, files
    <2>4. CASE SpawnFails(r)
      <3>1. /\ current \in [Scenarios -> Runs \cup {NoRun}]
            /\ telem \in [Runs -> {"absent", "running"} \cup Terminal]
            /\ procs' \subseteq Runs
        BY <2>4 DEF SpawnFails, TypeOK
      <3> QED
        BY <2>4, <3>1, RecordsAreBefore, FailureType DEF SpawnFails
    <2>5. CASE ProcessWrites(r)
      BY <2>5 DEF ProcessWrites, TypeOK, memory
    <2>6. CASE ProcessExits(r)
      BY <2>6 DEF ProcessExits, TypeOK, memory, files
    <2>7. CASE FinishRun(r)
      <3>1. ASSUME NEW cur \in {current} \cup PointersAfterRaise(owner[r], r),
                   NEW met, MetaBefore(r, met),
                   HandleFailure(owner[r], r, cur, met, telem)
            PROVE  TypeOK'
        <4>1. /\ cur \in [Scenarios -> Runs \cup {NoRun}]
              /\ telem \in [Runs -> {"absent", "running"} \cup Terminal]
          BY PointersType DEF TypeOK
        <4>2. /\ procs' \subseteq Runs
              /\ UNCHANGED <<db, cancelledRuns, cancelling, proc, owner, restarts>>
          BY <2>7 DEF FinishRun, TypeOK
        <4> QED
          BY <3>1, <4>1, <4>2, FailureType
      <3>2. CASE Finalize(owner[r], r)
        <4>1. "completed" \in Terminal
          BY DEF Terminal
        <4>2. /\ status' \in [Scenarios -> ModelStatuses \cup {"pending", "deleted"}]
              /\ last' \in [Scenarios -> Runs \cup {NoRun}]
              /\ registry' \in [Runs -> {"absent", "pending", "running"} \cup Terminal]
              /\ telem' \in [Runs -> {"absent", "running"} \cup Terminal]
          BY <3>2, <4>1, StatusUpdates DEF Finalize
        <4> QED
          BY <2>7, <3>2, <4>1, <4>2 DEF FinishRun, Finalize, TypeOK
      <3> QED
        BY <2>7, <3>1, <3>2, RecordsAreBefore DEF FinishRun
    <2>14. CASE StreamFails(r)
      <3>1. /\ current \in [Scenarios -> Runs \cup {NoRun}]
            /\ telem \in [Runs -> {"absent", "running"} \cup Terminal]
            /\ procs' \subseteq Runs
        BY <2>14 DEF StreamFails, TypeOK
      <3> QED
        BY <2>14, <3>1, RecordsAreBefore, FailureType DEF StreamFails
    <2>8. CASE ExportDone(r)
      BY <2>8 DEF ExportDone, TypeOK, files, Terminal
    <2>9. CASE CancelBegin(r)
      BY <2>9 DEF CancelBegin, TypeOK, files
    <2>10. CASE CancelExited(r)
      BY <2>10, CancelType DEF CancelExited, TypeOK
    <2>11. CASE CancelFinish(r)
      <3>1. cancelling' \subseteq Runs
        BY <2>11 DEF CancelFinish, TypeOK
      <3> QED
        BY <2>11, <3>1, CancelType DEF CancelFinish
    <2>12. CASE RestartInFinalize(r)
      BY <2>12 DEF RestartInFinalize, LoseMemory, TypeOK, Terminal
    <2>13. CASE RestartInFailure(r)
      <3>1. (IF r \in cancelledRuns THEN "cancelled" ELSE "failed") \in Terminal
        BY DEF Terminal
      <3>2. /\ status' \in [Scenarios -> ModelStatuses \cup {"pending", "deleted"}]
            /\ last' \in [Scenarios -> Runs \cup {NoRun}]
        BY <2>13, <3>1, StatusUpdates DEF RestartInFailure
      <3> QED
        BY <2>13, <3>2 DEF RestartInFailure, LoseMemory, TypeOK
    <2> QED
      BY <1>1, <2>1, <2>2, <2>3, <2>4, <2>5, <2>6, <2>7, <2>8, <2>9, <2>10,
         <2>11, <2>12, <2>13, <2>14 DEF RunStep
  <1>2. ASSUME NEW s \in Scenarios, ScenarioStep(s) PROVE TypeOK'
    <2>1. ASSUME NEW r \in Runs, StartSimulation(s, r) PROVE TypeOK'
      BY <2>1 DEF StartSimulation, TypeOK, ModelStatuses, Waiting
    <2>2. ASSUME NEW r \in Runs, BatchQueue(s, r) PROVE TypeOK'
      BY <2>2 DEF BatchQueue, TypeOK, files, Waiting
    <2>3. CASE ResetStatus(s)
      BY <2>3 DEF ResetStatus, TypeOK, memory, ModelStatuses, Terminal
    <2>4. CASE DeleteDatabase(s)
      BY <2>4 DEF DeleteDatabase, TypeOK, memory
    <2>5. CASE DeleteScenario(s)
      BY <2>5 DEF DeleteScenario, TypeOK, memory
    <2>6. CASE RestartInDelete(s)
      BY <2>6 DEF RestartInDelete, LoseMemory, TypeOK
    <2> QED
      BY <1>2, <2>1, <2>2, <2>3, <2>4, <2>5, <2>6 DEF ScenarioStep
  <1>3. CASE Restart
    BY <1>3 DEF Restart, LoseMemory, TypeOK, files
  <1>4. CASE UNCHANGED vars
    BY <1>4 DEF vars, files, memory, TypeOK
  <1> QED
    BY <1>1, <1>2, <1>3, <1>4 DEF Next

(* Every variable of the lifecycle keeps to its set of values, in every run  *)
(* of the API process and across its restarts.                               *)
THEOREM TypeCorrect == Spec => []TypeOK
  BY InitType, NextType, PTL DEF Spec

(***************************************************************************)
(* Bookkeeping: what the pieces of memory say of one run agree, and agree  *)
(* with the state of its subprocess.  It is the inductive part that the    *)
(* properties below need.                                                  *)
(***************************************************************************)

RunFacts(r) ==
  /\ Unused(r) => /\ registry[r] = "absent"
                  /\ telem[r] = "absent"
                  /\ task[r] = "none"
                  /\ proc[r] = "none"
                  /\ meta[r] = "none"
                  /\ outcome[r] = "none"
  /\ IsBatch(r) => registry[r] = "absent"
  /\ task[r] = "queued" => telem[r] = "absent"
  /\ task[r] \in {"queued", "spawning"} => proc[r] = "none"
  /\ task[r] = "streaming" => proc[r] # "none"
  /\ task[r] \in Waiting => meta[r] = "none"
  /\ meta[r] = "completed" => proc[r] = "ok"
  /\ registry[r] = "pending" => task[r] = "queued"
  /\ registry[r] = "running" => task[r] \in {"spawning", "streaming"}
  /\ task[r] = "queued" /\ ~IsBatch(r) => registry[r] = "pending"
  /\ task[r] = "spawning" /\ ~IsBatch(r) => registry[r] = "running"
  /\ task[r] = "streaming" /\ ~IsBatch(r) /\ proc[r] = "running"
       => registry[r] = "running"
  /\ r \in cancelling => registry[r] \notin {"absent", "pending"}

Bookkeeping == \A r \in Runs : RunFacts(r)

\* What the history may say of a run whose subprocess is as it is.
Settled(r) == IF proc[r] = "ok" THEN Terminal ELSE Terminal \ {"completed"}

\* What a failure does to each run, said pointwise.
LEMMA FailureFacts ==
  ASSUME TypeOK, NEW s, NEW r \in Runs, NEW cur,
         NEW met, MetaBefore(r, met),
         NEW tel \in [Runs -> {"absent", "running"} \cup Terminal],
         HandleFailure(s, r, cur, met, tel)
  PROVE  /\ \A q \in Runs \ {r} : /\ registry'[q] = registry[q]
                                  /\ telem'[q] = tel[q]
                                  /\ task'[q] = task[q]
                                  /\ meta'[q] = meta[q]
                                  /\ outcome'[q] = outcome[q]
         /\ registry[r] = "absent" => registry'[r] = "absent"
         /\ registry[r] # "absent" => registry'[r] \in {"failed", "cancelled"}
         /\ task'[r] = "done"
         /\ \/ meta'[r] = IF r \in cancelledRuns THEN "cancelled" ELSE "failed"
            \/ "record" \in Environment /\ meta'[r] = met[r]
         /\ telem'[r] = IF tel[r] = "absent" THEN "absent"
                        ELSE IF r \in cancelledRuns THEN "cancelled" ELSE "failed"
         /\ IsBatch(r)' = IsBatch(r)
  BY DEF TypeOK, HandleFailure, MetaBefore, SetRegistry, IsBatch

LEMMA PreparedFacts ==
  ASSUME TypeOK, NEW s, NEW r \in Runs, Prepared(s, r)
  PROVE  /\ \A q \in Runs \ {r} : /\ registry'[q] = registry[q]
                                  /\ telem'[q] \in {telem[q], "absent"}
                                  /\ task'[q] = task[q]
                                  /\ meta'[q] = meta[q]
                                  /\ outcome'[q] = outcome[q]
         /\ registry'[r] = IF registry[r] = "absent" THEN "absent" ELSE "running"
         /\ task'[r] = "spawning"
         /\ meta'[r] = meta[r]
         /\ telem'[r] = "running"
         /\ IsBatch(r)' = IsBatch(r)
  BY DEF TypeOK, Prepared, SetRegistry, StartTelemetry, IsBatch

LEMMA FinalizeFacts ==
  ASSUME TypeOK, NEW s, NEW r \in Runs, Finalize(s, r)
  PROVE  /\ \A q \in Runs \ {r} : /\ registry'[q] = registry[q]
                                  /\ telem'[q] = telem[q]
                                  /\ task'[q] = task[q]
                                  /\ meta'[q] = meta[q]
         /\ registry'[r] \in {"absent", "completed"}
         /\ registry[r] = "absent" <=> registry'[r] = "absent"
         /\ task'[r] = "exporting"
         /\ meta'[r] = "completed"
         /\ telem'[r] = IF telem[r] = "absent" THEN "absent" ELSE "completed"
         /\ outcome' = outcome
  BY DEF TypeOK, Finalize, SetRegistry, SetTelemetry

LEMMA InitBookkeeping == Init => Bookkeeping
  BY DEF Init, Bookkeeping, RunFacts, IsBatch, Waiting

LEMMA FailureBookkeeping ==
  ASSUME TypeOK, Bookkeeping, NEW s, NEW r \in Runs, NEW cur,
         NEW tel \in [Runs -> {"absent", "running"} \cup Terminal],
         \A q \in Runs \ {r} : tel[q] \in {telem[q], "absent"},
         NEW met, MetaBefore(r, met), met[r] = "completed" => proc[r] = "ok",
         task[r] \in Waiting,
         HandleFailure(s, r, cur, met, tel),
         UNCHANGED <<cancelling, proc, owner, restarts>>
  PROVE  Bookkeeping'
  <1> SUFFICES ASSUME NEW q \in Runs PROVE RunFacts(q)'
    BY DEF Bookkeeping
  <1>1. RunFacts(q) /\ RunFacts(r)
    BY DEF Bookkeeping
  <1>2. CASE q = r
    BY <1>1, <1>2, FailureFacts DEF RunFacts, Unused, Waiting
  <1>3. CASE q # r
    BY <1>1, <1>3, FailureFacts DEF RunFacts, Unused, Waiting, IsBatch
  <1> QED
    BY <1>2, <1>3

LEMMA PreparedBookkeeping ==
  ASSUME TypeOK, Bookkeeping, NEW s \in Scenarios \cup {NoScenario},
         NEW r \in Runs, task[r] = "queued",
         Prepared(s, r) \/ PrepareFails(s, r),
         UNCHANGED <<cancelling, proc, owner, restarts>>
  PROVE  Bookkeeping'
  <1>1. CASE Prepared(s, r)
    <2> SUFFICES ASSUME NEW q \in Runs PROVE RunFacts(q)'
      BY DEF Bookkeeping
    <2>1. RunFacts(q) /\ RunFacts(r)
      BY DEF Bookkeeping
    <2>2. CASE q = r
      BY <1>1, <2>1, <2>2, PreparedFacts DEF RunFacts, Unused, Waiting, TypeOK
    <2>3. CASE q # r
      BY <1>1, <2>1, <2>3, PreparedFacts DEF RunFacts, Unused, Waiting, IsBatch
    <2> QED
      BY <2>2, <2>3
  <1>2. CASE PrepareFails(s, r)
    <2>1. StartTelemetry(s, r) \in [Runs -> {"absent", "running"} \cup Terminal]
      BY StatusUpdates DEF Terminal
    <2>2. \A q \in Runs \ {r} : StartTelemetry(s, r)[q] \in {telem[q], "absent"}
      BY DEF StartTelemetry
    <2>3. task[r] \in Waiting /\ (meta[r] = "completed" => proc[r] = "ok")
      BY DEF Bookkeeping, RunFacts, Waiting
    <2> QED
      BY <1>2, <2>1, <2>2, <2>3, RecordsAreBefore, FailureBookkeeping
      DEF PrepareFails
  <1> QED
    BY <1>1, <1>2

LEMMA CancelBookkeeping ==
  ASSUME TypeOK, Bookkeeping, NEW s, NEW r \in Runs, CancelEffects(s, r),
         registry[r] \notin {"absent", "pending"}, Exited(r),
         cancelling' \subseteq cancelling
  PROVE  Bookkeeping'
  <1> SUFFICES ASSUME NEW q \in Runs PROVE RunFacts(q)'
    BY DEF Bookkeeping
  <1>1. RunFacts(q)
    BY DEF Bookkeeping
  <1>2. UNCHANGED <<task, meta, outcome, proc, owner, restarts>>
    BY DEF CancelEffects
  <1>3. registry' = [registry EXCEPT ![r] = "cancelled"]
    BY DEF CancelEffects
  <1>4. telem[q] = "absent" => telem'[q] = "absent"
    BY DEF CancelEffects, SetTelemetry, TypeOK
  <1>5. CASE q = r
    BY <1>1, <1>2, <1>3, <1>4, <1>5 DEF RunFacts, Unused, Exited, IsBatch, TypeOK
  <1>6. CASE q # r
    BY <1>1, <1>2, <1>3, <1>4, <1>6 DEF RunFacts, Unused, IsBatch, TypeOK
  <1> QED
    BY <1>5, <1>6

LEMMA RestartBookkeeping ==
  ASSUME TypeOK, Bookkeeping, LoseMemory,
         \A q \in Runs :
           (meta'[q] = meta[q] \/ (~Unused(q) /\ meta'[q] \in Settled(q)))
  PROVE  Bookkeeping'
  BY DEF Bookkeeping, RunFacts, LoseMemory, Unused, IsBatch, Waiting, TypeOK,
         Settled

LEMMA NextBookkeeping == TypeOK /\ Bookkeeping /\ [Next]_vars => Bookkeeping'
  <1> SUFFICES ASSUME TypeOK, Bookkeeping, [Next]_vars PROVE Bookkeeping'
    OBVIOUS
  <1>1. ASSUME NEW r \in Runs, RunStep(r) PROVE Bookkeeping'
    <2> /\ owner[r] \in Scenarios \cup {NoScenario}
        /\ telem \in [Runs -> {"absent", "running"} \cup Terminal]
        /\ \A q \in Runs \ {r} : telem[q] \in {telem[q], "absent"}
      BY DEF TypeOK
    <2>1. CASE ExecuteReserved(r)
      BY <2>1, PreparedBookkeeping DEF ExecuteReserved
    <2>2. CASE ExecuteBatch(r)
      <3>1. CASE Readable(owner[r])
        BY <2>2, <3>1, PreparedBookkeeping DEF ExecuteBatch
      <3>2. CASE ~Readable(owner[r])
        BY <2>2, <3>2
        DEF ExecuteBatch, TypeOK, Bookkeeping, RunFacts, Unused, IsBatch, Waiting
      <3> QED
        BY <3>1, <3>2
    <2>3. CASE Spawn(r)
      BY <2>3 DEF Spawn, TypeOK, Bookkeeping, RunFacts, Unused, IsBatch, Waiting, files
    <2>4. CASE SpawnFails(r)
      <3>1. task[r] \in Waiting /\ (meta[r] = "completed" => proc[r] = "ok")
        BY <2>4 DEF SpawnFails, Bookkeeping, RunFacts, Waiting
      <3> QED
        BY <2>4, <3>1, RecordsAreBefore, FailureBookkeeping DEF SpawnFails
    <2>5. CASE ProcessWrites(r)
      BY <2>5 DEF ProcessWrites, Bookkeeping, RunFacts, Unused, IsBatch, memory
    <2>6. CASE ProcessExits(r)
      BY <2>6 DEF ProcessExits, TypeOK, Bookkeeping, RunFacts, Unused, IsBatch, memory, files
    <2>7. CASE FinishRun(r)
      <3>0. meta[r] = "completed" => proc[r] = "ok"
        BY DEF Bookkeeping, RunFacts
      <3>1. ASSUME NEW cur, NEW met, MetaBefore(r, met),
                   met[r] = "completed" => proc[r] = "ok",
                   HandleFailure(owner[r], r, cur, met, telem)
            PROVE  Bookkeeping'
        <4>1. task[r] \in Waiting
          BY <2>7 DEF FinishRun, Waiting
        <4>2. UNCHANGED <<cancelling, proc, owner, restarts>>
          BY <2>7 DEF FinishRun
        <4> QED
          BY <3>1, <4>1, <4>2, FailureBookkeeping
      <3>2. CASE Finalize(owner[r], r) /\ proc[r] = "ok"
        <4> SUFFICES ASSUME NEW q \in Runs PROVE RunFacts(q)'
          BY DEF Bookkeeping
        <4>1. /\ UNCHANGED <<cancelling, proc, owner, restarts>>
              /\ task[r] = "streaming"
          BY <2>7 DEF FinishRun
        <4>2. CASE q = r
          BY <3>2, <4>1, <4>2, FinalizeFacts
          DEF Bookkeeping, RunFacts, Unused, Waiting, IsBatch
        <4>3. CASE q # r
          BY <3>2, <4>1, <4>3, FinalizeFacts
          DEF Bookkeeping, RunFacts, Unused, Waiting, IsBatch
        <4> QED
          BY <4>2, <4>3
      <3> QED
        BY <2>7, <3>0, <3>1, <3>2, RecordsAreBefore DEF FinishRun, Exited
    <2>14. CASE StreamFails(r)
      <3>1. task[r] \in Waiting /\ (meta[r] = "completed" => proc[r] = "ok")
        BY <2>14 DEF StreamFails, Bookkeeping, RunFacts, Waiting
      <3> QED
        BY <2>14, <3>1, RecordsAreBefore, FailureBookkeeping DEF StreamFails
    <2>8. CASE ExportDone(r)
      BY <2>8 DEF ExportDone, TypeOK, Bookkeeping, RunFacts, Unused, IsBatch, Waiting, files,
                  Terminal
    <2>9. CASE CancelBegin(r)
      BY <2>9 DEF CancelBegin, MayCancel, Bookkeeping, RunFacts, Unused, IsBatch, files
    <2>10. CASE CancelExited(r)
      BY <2>10, CancelBookkeeping DEF CancelExited, MayCancel
    <2>11. CASE CancelFinish(r)
      BY <2>11, CancelBookkeeping DEF CancelFinish, Bookkeeping, RunFacts
    <2>12. CASE RestartInFinalize(r)
      <3>1. \A q \in Runs : \/ meta'[q] = meta[q]
                            \/ q = r /\ meta'[q] = "completed"
        BY <2>12 DEF RestartInFinalize, TypeOK
      <3>2. owner[r] # NoScenario /\ proc[r] = "ok" /\ LoseMemory
        BY <2>12 DEF RestartInFinalize, Bookkeeping, RunFacts, Unused
      <3> QED
        BY <3>1, <3>2, RestartBookkeeping DEF Unused, Settled, Terminal
    <2>13. CASE RestartInFailure(r)
      BY <2>13, RestartBookkeeping DEF RestartInFailure
    <2> QED
      BY <1>1, <2>1, <2>2, <2>3, <2>4, <2>5, <2>6, <2>7, <2>8, <2>9, <2>10,
         <2>11, <2>12, <2>13, <2>14 DEF RunStep
  <1>2. ASSUME NEW s \in Scenarios, ScenarioStep(s) PROVE Bookkeeping'
    <2>0. s # NoScenario
      BY ConstantsAssumption
    <2>1. ASSUME NEW r \in Runs, StartSimulation(s, r) PROVE Bookkeeping'
      BY <2>0, <2>1 DEF StartSimulation, TypeOK, Bookkeeping, RunFacts, Unused, IsBatch, Waiting
    <2>2. ASSUME NEW r \in Runs, BatchQueue(s, r) PROVE Bookkeeping'
      BY <2>0, <2>2 DEF BatchQueue, TypeOK, Bookkeeping, RunFacts, Unused, IsBatch, Waiting, files
    <2>3. CASE ResetStatus(s)
      BY <2>3 DEF ResetStatus, Bookkeeping, RunFacts, Unused, IsBatch, memory
    <2>4. CASE DeleteDatabase(s)
      BY <2>4 DEF DeleteDatabase, Bookkeeping, RunFacts, Unused, IsBatch, memory
    <2>5. CASE DeleteScenario(s)
      BY <2>5 DEF DeleteScenario, Bookkeeping, RunFacts, Unused, IsBatch, memory
    <2>6. CASE RestartInDelete(s)
      BY <2>6, RestartBookkeeping DEF RestartInDelete
    <2> QED
      BY <1>2, <2>1, <2>2, <2>3, <2>4, <2>5, <2>6 DEF ScenarioStep
  <1>3. CASE Restart
    <2>1. LoseMemory
      BY <1>3 DEF Restart
    <2>2. \A q \in Runs : meta'[q] = meta[q]
      BY <1>3 DEF Restart, files
    <2> QED
      BY <2>1, <2>2, RestartBookkeeping
  <1>4. CASE UNCHANGED vars
    BY <1>4 DEF vars, files, memory, Bookkeeping, RunFacts, Unused, IsBatch
  <1> QED
    BY <1>1, <1>2, <1>3, <1>4 DEF Next

(* The memory of the API process, the run directories and the subprocesses   *)
(* keep telling the same story of every run, at every step of every handler. *)
THEOREM BookkeepingCorrect == Spec => [](TypeOK /\ Bookkeeping)
  <1>1. Init => TypeOK /\ Bookkeeping
    BY InitType, InitBookkeeping
  <1>2. TypeOK /\ Bookkeeping /\ [Next]_vars => (TypeOK /\ Bookkeeping)'
    BY NextType, NextBookkeeping
  <1> QED
    BY <1>1, <1>2, PTL DEF Spec

(***************************************************************************)
(* Reservations.                                                           *)
(***************************************************************************)

LEMMA BackedByBookkeeping == TypeOK /\ Bookkeeping => ReservationIsBacked
  BY DEF TypeOK, Bookkeeping, RunFacts, ReservationIsBacked, NonTerminal,
         Waiting, Executing, Terminal

(* No reservation is left behind: whatever an execution, a cancellation, a   *)
(* failure or a restart does, an entry of _active_runs that still says       *)
(* pending or running has a coroutine that is going to settle it.            *)
THEOREM ReservationsAreBacked == Spec => []ReservationIsBacked
  BY BookkeepingCorrect, BackedByBookkeeping, PTL

\* Only a reservation makes an entry of the registry non-terminal.
LEMMA RegistryStep ==
  ASSUME TypeOK, Bookkeeping, [Next]_vars,
         NEW q \in Runs, (registry[q] \in NonTerminal)'
  PROVE  \/ registry[q] \in NonTerminal /\ owner'[q] = owner[q]
         \/ \E s \in Scenarios : StartSimulation(s, q)
  <1> DEFINE Kept == registry[q] \in NonTerminal /\ owner'[q] = owner[q]
  <1> RunFacts(q)
    BY DEF Bookkeeping
  <1>1. ASSUME NEW r \in Runs, RunStep(r) PROVE Kept
    <2> RunFacts(r)
      BY DEF Bookkeeping
    <2>1. ASSUME NEW s, NEW cur, NEW met, NEW tel,
                 HandleFailure(s, r, cur, met, tel)
          PROVE  registry[q] \in NonTerminal
      BY <2>1 DEF HandleFailure, SetRegistry, TypeOK, NonTerminal
    <2>2. ASSUME NEW s, task[r] = "queued", Prepared(s, r) \/ PrepareFails(s, r)
          PROVE  registry[q] \in NonTerminal
      <3>1. CASE Prepared(s, r)
        BY <2>2, <3>1 DEF Prepared, SetRegistry, RunFacts, TypeOK, NonTerminal
      <3>2. CASE PrepareFails(s, r)
        BY <2>1, <3>2 DEF PrepareFails
      <3> QED
        BY <2>2, <3>1, <3>2
    <2>3. CASE ExecuteReserved(r)
      BY <2>2, <2>3 DEF ExecuteReserved
    <2>4. CASE ExecuteBatch(r)
      BY <2>2, <2>4 DEF ExecuteBatch
    <2>5. CASE Spawn(r)
      BY <2>5 DEF Spawn
    <2>6. CASE SpawnFails(r) \/ StreamFails(r)
      BY <2>1, <2>6 DEF SpawnFails, StreamFails
    <2>7. CASE ProcessWrites(r) \/ ProcessExits(r)
      BY <2>7 DEF ProcessWrites, ProcessExits, memory
    <2>8. CASE FinishRun(r)
      <3>1. CASE Finalize(owner[r], r)
        BY <2>8, <3>1 DEF FinishRun, Finalize, SetRegistry, TypeOK, NonTerminal
      <3> QED
        BY <2>1, <2>8, <3>1 DEF FinishRun
    <2>9. CASE ExportDone(r)
      BY <2>9 DEF ExportDone
    <2>10. CASE CancelBegin(r)
      BY <2>10 DEF CancelBegin
    <2>11. CASE CancelExited(r) \/ CancelFinish(r)
      BY <2>11 DEF CancelExited, CancelFinish, CancelEffects, TypeOK, NonTerminal
    <2>12. CASE RestartInFinalize(r) \/ RestartInFailure(r)
      BY <2>12
      DEF RestartInFinalize, RestartInFailure, LoseMemory, NonTerminal
    <2> QED
      BY <1>1, <2>3, <2>4, <2>5, <2>6, <2>7, <2>8, <2>9, <2>10, <2>11, <2>12
      DEF RunStep
  <1>2. ASSUME NEW s \in Scenarios, NEW r \in Runs, BatchQueue(s, r) PROVE Kept
    BY <1>2 DEF BatchQueue, TypeOK, RunFacts, NonTerminal
  <1>3. ASSUME NEW s \in Scenarios, NEW r \in Runs, StartSimulation(s, r), r # q
        PROVE  Kept
    BY <1>3 DEF StartSimulation, TypeOK
  <1>4. ASSUME NEW s \in Scenarios,
               ResetStatus(s) \/ DeleteDatabase(s) \/ DeleteScenario(s)
        PROVE  Kept
    BY <1>4 DEF ResetStatus, DeleteDatabase, DeleteScenario, memory
  <1>5. ASSUME NEW s \in Scenarios, RestartInDelete(s) PROVE Kept
    BY <1>5 DEF RestartInDelete, LoseMemory, NonTerminal
  <1>6. CASE Restart
    BY <1>6 DEF Restart, LoseMemory, NonTerminal
  <1>7. CASE UNCHANGED vars
    BY <1>7 DEF vars, memory
  <1> QED
    BY <1>1, <1>2, <1>3, <1>4, <1>5, <1>6, <1>7 DEF Next, ScenarioStep

LEMMA NextReservation ==
  ASSUME TypeOK, Bookkeeping, OneReservation, [Next]_vars
  PROVE  OneReservation'
  <1> SUFFICES ASSUME NEW q \in Runs, NEW r \in Runs, q # r,
                      owner'[q] = owner'[r],
                      registry'[q] \in NonTerminal, registry'[r] \in NonTerminal
               PROVE  FALSE
    BY DEF OneReservation
  <1>1. ASSUME NEW s \in Scenarios, StartSimulation(s, q),
               registry[r] \in NonTerminal, owner'[r] = owner[r]
        PROVE  FALSE
    BY <1>1 DEF StartSimulation, MayReserve, RunsOf, TypeOK
  <1>2. ASSUME NEW s \in Scenarios, StartSimulation(s, r),
               registry[q] \in NonTerminal, owner'[q] = owner[q]
        PROVE  FALSE
    BY <1>2 DEF StartSimulation, MayReserve, RunsOf, TypeOK
  <1>3. ASSUME NEW s \in Scenarios, StartSimulation(s, q),
               NEW z \in Scenarios, StartSimulation(z, r)
        PROVE  FALSE
    BY <1>3, ConstantsAssumption DEF StartSimulation, Unused, TypeOK
  <1>4. CASE /\ registry[q] \in NonTerminal /\ owner'[q] = owner[q]
             /\ registry[r] \in NonTerminal /\ owner'[r] = owner[r]
    BY <1>4 DEF OneReservation
  <1> QED
    BY <1>1, <1>2, <1>3, <1>4, RegistryStep

(* One reservation per scenario: however executions, cancellations, failures *)
(* and restarts interleave with new requests, _active_runs never holds two   *)
(* pending or running entries of one scenario.                               *)
THEOREM ReservationsAreExclusive == Spec => []OneReservation
  <1>1. Init => OneReservation
    BY DEF Init, OneReservation, NonTerminal
  <1>2. TypeOK /\ Bookkeeping /\ OneReservation /\ [Next]_vars => OneReservation'
    BY NextReservation
  <1> QED
    BY <1>1, <1>2, BookkeepingCorrect, PTL DEF Spec

LEMMA OneProcessByReservation ==
  Bookkeeping /\ OneReservation => OneLiveProcess
  BY DEF Bookkeeping, RunFacts, OneReservation, OneLiveProcess, NonTerminal

(* The reservation carries over to the operating system: two reserved runs   *)
(* of a scenario never have live subprocesses whose output is being read,    *)
(* however cancellations, failures and restarts interleave.                  *)
THEOREM ProcessesAreExclusive == Spec => []OneLiveProcess
  BY BookkeepingCorrect, ReservationsAreExclusive, OneProcessByReservation, PTL

(***************************************************************************)
(* What readers are served.                                                *)
(***************************************************************************)

\* r is an attempt of scenario s whose database is there and final.
Whole(s, r) ==
  /\ owner[r] = s
  /\ r \in db
  /\ proc[r] = "ok"
  /\ task[r] \notin Waiting

\* r, when served, is a complete result of scenario s.
Complete(s, r) == Whole(s, r) /\ meta[r] = "completed"

LEMMA ServedMeansComplete ==
  ASSUME TypeOK
  PROVE  ServedRunIsComplete <=>
           \A s \in Scenarios : current[s] # NoRun =>
             current[s] \in Runs /\ Complete(s, current[s])
  BY DEF TypeOK, ServedRunIsComplete, Complete, Whole, Executing

\* A result stays what it is while it is served: a run in progress is not it,
\* and deletions withdraw it first.
LEMMA WholeStays ==
  ASSUME TypeOK, Bookkeeping, [Next]_vars,
         NEW s \in Scenarios, NEW q \in Runs, Whole(s, q), current'[s] = q
  PROVE  Whole(s, q)' /\ (Complete(s, q) => Complete(s, q)')
  <1> DEFINE Goal == Whole(s, q)' /\ (Complete(s, q) => Complete(s, q)')
  <1> USE DEF Complete, Whole
  <1>0. /\ RunFacts(q) /\ ~Unused(q)
        /\ q # NoRun
    BY ConstantsAssumption DEF Bookkeeping, Unused
  <1>1. ASSUME NEW r \in Runs, RunStep(r) PROVE Goal
    <2>1. ASSUME NEW z, NEW cur, NEW met, MetaBefore(r, met),
                 NEW tel \in [Runs -> {"absent", "running"} \cup Terminal],
                 HandleFailure(z, r, cur, met, tel),
                 task[r] \in Waiting, UNCHANGED <<db, proc, owner>>
          PROVE  Goal
      BY <2>1, FailureFacts
    <2>2. ASSUME NEW z \in Scenarios \cup {NoScenario},
                 Prepared(z, r) \/ PrepareFails(z, r),
                 task[r] = "queued", UNCHANGED <<db, proc, owner>>
          PROVE  Goal
      <3>1. CASE Prepared(z, r)
        BY <2>2, <3>1, PreparedFacts DEF Waiting
      <3>2. CASE PrepareFails(z, r)
        <4>1. StartTelemetry(z, r) \in [Runs -> {"absent", "running"} \cup Terminal]
          BY StatusUpdates DEF Terminal
        <4> QED
          BY <2>1, <2>2, <3>2, <4>1, RecordsAreBefore DEF PrepareFails, Waiting
      <3> QED
        BY <2>2, <3>1, <3>2
    <2> /\ owner[r] \in Scenarios \cup {NoScenario}
        /\ telem \in [Runs -> {"absent", "running"} \cup Terminal]
      BY DEF TypeOK
    <2>3. CASE ExecuteReserved(r)
      BY <2>2, <2>3 DEF ExecuteReserved
    <2>4. CASE ExecuteBatch(r)
      <3>1. CASE Readable(owner[r])
        BY <2>2, <2>4, <3>1 DEF ExecuteBatch
      <3>2. CASE ~Readable(owner[r])
        BY <2>4, <3>2 DEF ExecuteBatch, TypeOK, Waiting
      <3> QED
        BY <3>1, <3>2
    <2>5. CASE Spawn(r)
      BY <2>5 DEF Spawn, TypeOK, Waiting, files
    <2>6. CASE SpawnFails(r) \/ StreamFails(r)
      BY <2>1, <2>6, RecordsAreBefore DEF SpawnFails, StreamFails, Waiting
    <2>7. CASE ProcessWrites(r)
      BY <2>7 DEF ProcessWrites, memory
    <2>8. CASE ProcessExits(r)
      BY <2>8 DEF ProcessExits, TypeOK, files, memory
    <2>9. CASE FinishRun(r)
      <3>1. task[r] \in Waiting /\ UNCHANGED <<db, proc, owner>>
        BY <2>9 DEF FinishRun, Waiting
      <3>2. CASE Finalize(owner[r], r)
        BY <3>1, <3>2, FinalizeFacts
      <3> QED
        BY <2>1, <2>9, <3>1, <3>2, RecordsAreBefore DEF FinishRun
    <2>10. CASE ExportDone(r)
      BY <2>10 DEF ExportDone, TypeOK, files, Waiting
    <2>11. CASE CancelBegin(r)
      BY <2>11 DEF CancelBegin, files
    <2>12. CASE CancelExited(r) \/ CancelFinish(r)
      BY <2>12 DEF CancelExited, CancelFinish, CancelEffects
    <2>13. CASE RestartInFinalize(r) \/ RestartInFailure(r)
      BY <2>13 DEF RestartInFinalize, RestartInFailure, LoseMemory, TypeOK, Waiting
    <2> QED
      BY <1>1, <2>3, <2>4, <2>5, <2>6, <2>7, <2>8, <2>9, <2>10, <2>11, <2>12,
         <2>13 DEF RunStep
  <1>2. ASSUME NEW z \in Scenarios, ScenarioStep(z) PROVE Goal
    <2>1. ASSUME NEW r \in Runs, StartSimulation(z, r) \/ BatchQueue(z, r)
          PROVE  Goal
      BY <1>0, <2>1 DEF StartSimulation, BatchQueue, TypeOK, Unused, files
    <2>2. CASE ResetStatus(z)
      BY <2>2 DEF ResetStatus, memory
    <2>3. CASE DeleteDatabase(z) \/ DeleteScenario(z)
      BY <1>0, <2>3 DEF DeleteDatabase, DeleteScenario, memory, RunsOf, TypeOK
    <2>4. CASE RestartInDelete(z)
      BY <1>0, <2>4 DEF RestartInDelete, LoseMemory, RunsOf, TypeOK, Waiting
    <2> QED
      BY <1>2, <2>1, <2>2, <2>3, <2>4 DEF ScenarioStep
  <1>3. CASE Restart
    BY <1>3 DEF Restart, LoseMemory, files, Waiting
  <1>4. CASE UNCHANGED vars
    BY <1>4 DEF vars, files, memory
  <1> QED
    BY <1>1, <1>2, <1>3, <1>4 DEF Next

\* Only a finalization gives a scenario another result, and it is complete
\* unless the finalization went on to raise.
LEMMA NewlyServedIsWhole ==
  ASSUME TypeOK, [Next]_vars,
         NEW s \in Scenarios, NEW q \in Runs,
         current'[s] = q, current[s] # q
  PROVE  Whole(s, q)' /\ ("fsync" \notin Environment => Complete(s, q)')
  <1> DEFINE Goal == Whole(s, q)' /\ ("fsync" \notin Environment => Complete(s, q)')
  <1> USE DEF Complete, Whole
  <1>0. q # NoRun
    BY ConstantsAssumption
  <1>1. ASSUME NEW z, NEW r \in Runs, NEW met, NEW tel,
               HandleFailure(z, r, current, met, tel)
        PROVE  FALSE
    BY <1>1 DEF HandleFailure
  <1>2. ASSUME NEW r \in Runs, RunStep(r) PROVE Goal
    <2>1. CASE ExecuteReserved(r) \/ ExecuteBatch(r)
      BY <1>1, <2>1 DEF ExecuteReserved, ExecuteBatch, Prepared, PrepareFails
    <2>2. CASE Spawn(r) \/ ExportDone(r) \/ CancelBegin(r)
      BY <2>2 DEF Spawn, ExportDone, CancelBegin, files
    <2>3. CASE SpawnFails(r) \/ StreamFails(r)
      BY <1>1, <2>3 DEF SpawnFails, StreamFails
    <2>4. CASE ProcessWrites(r) \/ ProcessExits(r)
      BY <2>4 DEF ProcessWrites, ProcessExits, files
    <2>5. CASE FinishRun(r)
      <3>1. UNCHANGED <<db, proc, owner>>
        BY <2>5 DEF FinishRun
      <3>2. CASE Finalize(owner[r], r) /\ proc[r] = "ok"
        <4>1. q = r /\ owner[r] = s
          BY <3>2 DEF Finalize, TypeOK
        <4>2. meta'[r] = "completed" /\ task'[r] = "exporting" /\ r \in db
          BY <3>2, FinalizeFacts DEF Finalize, CanFinalize
        <4> QED
          BY <3>1, <3>2, <4>1, <4>2 DEF Waiting
      <3>3. ASSUME NEW cur \in PointersAfterRaise(owner[r], r), NEW met,
                   HandleFailure(owner[r], r, cur, met, telem), proc[r] = "ok"
            PROVE  Goal
        <4>1. current' = cur /\ task' = [task EXCEPT ![r] = "done"]
          BY <3>3 DEF HandleFailure
        <4>2. /\ cur = [current EXCEPT ![owner[r]] = r]
              /\ r \in db
              /\ "fsync" \in Environment
          BY <3>3, <4>1 DEF PointersAfterRaise, CanFinalize
        <4>3. q = r /\ owner[r] = s
          BY <4>1, <4>2 DEF TypeOK
        <4> QED
          BY <3>1, <3>3, <4>1, <4>2, <4>3 DEF TypeOK, Waiting
      <3> QED
        BY <1>1, <2>5, <3>2, <3>3 DEF FinishRun, Exited
    <2>6. CASE CancelExited(r) \/ CancelFinish(r)
      BY <2>6 DEF CancelExited, CancelFinish, CancelEffects
    <2>7. CASE RestartInFinalize(r)
      <3>1. q = r /\ owner[r] = s
        BY <2>7 DEF RestartInFinalize, TypeOK
      <3> QED
        BY <2>7, <3>1
        DEF RestartInFinalize, LoseMemory, CanFinalize, TypeOK, Waiting
    <2>8. CASE RestartInFailure(r)
      BY <2>8 DEF RestartInFailure
    <2> QED
      BY <1>2, <2>1, <2>2, <2>3, <2>4, <2>5, <2>6, <2>7, <2>8 DEF RunStep
  <1>3. ASSUME NEW z \in Scenarios, ScenarioStep(z) PROVE Goal
    BY <1>0, <1>3 DEF ScenarioStep, StartSimulation, BatchQueue, ResetStatus,
       DeleteDatabase, DeleteScenario, RestartInDelete, files, TypeOK
  <1>4. CASE Restart \/ UNCHANGED vars
    BY <1>4 DEF Restart, files, vars
  <1> QED
    BY <1>2, <1>3, <1>4 DEF Next

LEMMA NextServed ==
  ASSUME TypeOK, Bookkeeping, ServedRunIsComplete, [Next]_vars,
         "fsync" \notin Environment
  PROVE  ServedRunIsComplete'
  <1>1. TypeOK'
    BY NextType
  <1>2. ASSUME NEW s \in Scenarios, NEW q \in Runs, current'[s] = q
        PROVE  Complete(s, q)'
    <2>1. CASE current[s] = q
      <3>1. Complete(s, q)
        BY <2>1, ConstantsAssumption, ServedMeansComplete
      <3> QED
        BY <1>2, <3>1, WholeStays DEF Complete
    <2>2. CASE current[s] # q
      BY <1>2, <2>2, NewlyServedIsWhole
    <2> QED
      BY <2>1, <2>2
  <1> QED
    BY <1>1, <1>2 DEF ServedRunIsComplete, Complete, Whole, Executing, TypeOK

(* Readers are served complete results only, whatever fails, is cancelled,   *)
(* deleted or crashes, as long as a replaced current_result.json is durable  *)
(* without an error.                                                         *)
THEOREM ServesCompleteRuns ==
  ASSUME "fsync" \notin Environment
  PROVE  Spec => []ServedRunIsComplete
  <1>1. Init => ServedRunIsComplete
    BY DEF Init, ServedRunIsComplete
  <1>2. /\ TypeOK /\ Bookkeeping /\ ServedRunIsComplete /\ [Next]_vars
        => ServedRunIsComplete'
    BY NextServed
  <1> QED
    BY <1>1, <1>2, BookkeepingCorrect, PTL DEF Spec

\* What is left of that when os.replace succeeds and the fsync then raises: the
\* history may call the served run failed, but its data are as good.
ServedRunIsWhole ==
  \A s \in Scenarios : current[s] # NoRun => Whole(s, current[s])

(* In every environment, a failed fsync of the pointer included, the file    *)
(* that readers of a scenario open exists, was written by an attempt of that *)
(* scenario whose CLI exited with code 0, and nothing writes it any more.    *)
THEOREM ServesWholeRuns == Spec => []ServedRunIsWhole
  <1>1. Init => ServedRunIsWhole
    BY DEF Init, ServedRunIsWhole
  <1>2. ASSUME TypeOK, Bookkeeping, ServedRunIsWhole, [Next]_vars
        PROVE  ServedRunIsWhole'
    <2> SUFFICES ASSUME NEW s \in Scenarios, current'[s] # NoRun
                 PROVE  Whole(s, current[s])'
      BY DEF ServedRunIsWhole
    <2>1. current'[s] \in Runs
      BY <1>2, NextType DEF TypeOK
    <2>2. PICK q \in Runs : q = current'[s]
      BY <2>1
    <2>3. CASE current[s] = q
      <3>1. Whole(s, q)
        BY <1>2, <2>2, <2>3, ConstantsAssumption DEF ServedRunIsWhole
      <3>2. Whole(s, q)'
        BY <1>2, <2>2, <3>1, WholeStays
      <3> QED
        BY <2>2, <3>2 DEF Whole
    <2>4. CASE current[s] # q
      <3>1. Whole(s, q)'
        BY <1>2, <2>2, <2>4, NewlyServedIsWhole
      <3> QED
        BY <2>2, <3>1 DEF Whole
    <2> QED
      BY <2>3, <2>4
  <1> QED
    BY <1>1, <1>2, BookkeepingCorrect, PTL DEF Spec

(***************************************************************************)
(* What is left of a run that is over.                                     *)
(***************************************************************************)

\* A deleted scenario never comes back.
LEMMA DeletedStays ==
  ASSUME TypeOK, [Next]_vars, NEW s \in Scenarios, status'[s] # "deleted"
  PROVE  status[s] # "deleted"
  <1>1. ASSUME NEW z, NEW st, status' = SetStatus(z, st) PROVE status[s] # "deleted"
    BY <1>1 DEF SetStatus, Exists, TypeOK
  <1>2. ASSUME NEW r \in Runs, RunStep(r) PROVE status[s] # "deleted"
    <2>1. CASE ExecuteReserved(r) \/ ExecuteBatch(r) \/ SpawnFails(r) \/ FinishRun(r)
               \/ StreamFails(r)
      BY <1>1, <2>1 DEF ExecuteReserved, ExecuteBatch, SpawnFails, FinishRun,
         StreamFails, Prepared, PrepareFails, HandleFailure, Finalize
    <2>2. CASE Spawn(r) \/ ProcessWrites(r) \/ ProcessExits(r) \/ ExportDone(r)
               \/ CancelBegin(r)
      BY <2>2 DEF Spawn, ProcessWrites, ProcessExits, ExportDone, CancelBegin, files
    <2>3. CASE CancelExited(r) \/ CancelFinish(r)
      BY <1>1, <2>3 DEF CancelExited, CancelFinish, CancelEffects
    <2>4. CASE RestartInFinalize(r) \/ RestartInFailure(r)
      BY <1>1, <2>4 DEF RestartInFinalize, RestartInFailure
    <2> QED
      BY <1>2, <2>1, <2>2, <2>3, <2>4 DEF RunStep
  <1>3. ASSUME NEW z \in Scenarios, ScenarioStep(z) PROVE status[s] # "deleted"
    BY <1>3 DEF ScenarioStep, StartSimulation, MayReserve, BatchQueue, ResetStatus,
       Resettable, DeleteDatabase, DeleteScenario, RestartInDelete, Readable,
       ModelStatuses, Terminal, files, TypeOK
  <1>4. CASE Restart \/ UNCHANGED vars
    BY <1>4 DEF Restart, files, vars
  <1> QED
    BY <1>2, <1>3, <1>4 DEF Next

\* The history and the dashboard entry of run r, once it is over.
Recorded(r) ==
  task[r] \in {"exporting", "done"} /\ Exists(owner[r]) =>
    /\ proc[r] # "none" =>
         /\ meta[r] \in Terminal
         /\ meta[r] = "completed" => proc[r] = "ok"
         /\ meta[r] = "cancelled" => r \in cancelledRuns
    /\ telem[r] # "absent" =>
         \/ telem[r] = meta[r]
         \/ telem[r] = "cancelled" /\ r \in cancelledRuns

LEMMA NextRecorded ==
  ASSUME TypeOK, Bookkeeping, [Next]_vars, NEW q \in Runs, Recorded(q),
         "record" \notin Environment
  PROVE  Recorded(q)'
  <1> SUFFICES ASSUME task'[q] \in {"exporting", "done"}, Exists(owner[q])'
               PROVE  Recorded(q)'
    BY DEF Recorded
  <1>0. RunFacts(q)
    BY DEF Bookkeeping
  <1>1. ASSUME NEW r \in Runs, RunStep(r) PROVE Recorded(q)'
    <2> /\ owner[r] \in Scenarios \cup {NoScenario}
        /\ telem \in [Runs -> {"absent", "running"} \cup Terminal]
        /\ RunFacts(r)
      BY DEF TypeOK, Bookkeeping
    <2>0. Exists(owner[q]) \/ Unused(q) \/ owner'[q] # owner[q]
      BY DeletedStays DEF Exists, Unused, TypeOK
    <2>1. ASSUME NEW z, NEW cur, NEW met, MetaBefore(r, met),
                 NEW tel \in [Runs -> {"absent", "running"} \cup Terminal],
                 \A p \in Runs \ {r} : tel[p] \in {telem[p], "absent"},
                 HandleFailure(z, r, cur, met, tel), task[r] \in Waiting,
                 UNCHANGED <<cancelledRuns, proc, owner>>
          PROVE  Recorded(q)'
      <3>1. CASE q = r
        BY <2>1, <3>1, FailureFacts DEF Recorded, Terminal
      <3>2. CASE q # r
        BY <1>0, <2>0, <2>1, <3>2, FailureFacts DEF Recorded, RunFacts
      <3> QED
        BY <3>1, <3>2
    <2>2. ASSUME NEW z \in Scenarios \cup {NoScenario}, task[r] = "queued",
                 Prepared(z, r) \/ PrepareFails(z, r),
                 UNCHANGED <<cancelledRuns, proc, owner>>
          PROVE  Recorded(q)'
      <3>1. CASE Prepared(z, r)
        <4>1. CASE q = r
          BY <3>1, <4>1, PreparedFacts DEF Recorded
        <4>2. CASE q # r
          BY <1>0, <2>0, <2>2, <3>1, <4>2, PreparedFacts DEF Recorded, RunFacts
        <4> QED
          BY <4>1, <4>2
      <3>2. CASE PrepareFails(z, r)
        <4>1. StartTelemetry(z, r) \in [Runs -> {"absent", "running"} \cup Terminal]
          BY StatusUpdates DEF Terminal
        <4>2. \A p \in Runs \ {r} : StartTelemetry(z, r)[p] \in {telem[p], "absent"}
          BY DEF StartTelemetry
        <4> QED
          BY <2>1, <2>2, <3>2, <4>1, <4>2, RecordsAreBefore
          DEF PrepareFails, Waiting
      <3> QED
        BY <2>2, <3>1, <3>2
    <2>3. CASE ExecuteReserved(r)
      BY <2>2, <2>3 DEF ExecuteReserved
    <2>4. CASE ExecuteBatch(r)
      <3>1. CASE Readable(owner[r])
        BY <2>2, <2>4, <3>1 DEF ExecuteBatch
      <3>2. CASE ~Readable(owner[r])
        BY <1>0, <2>0, <2>4, <3>2 DEF ExecuteBatch, Recorded, RunFacts, TypeOK
      <3> QED
        BY <3>1, <3>2
    <2>5. CASE Spawn(r)
      BY <1>0, <2>0, <2>5 DEF Spawn, Recorded, RunFacts, TypeOK, files
    <2>6. CASE SpawnFails(r) \/ StreamFails(r)
      BY <2>1, <2>6, RecordsAreBefore DEF SpawnFails, StreamFails, Waiting
    <2>7. CASE ProcessWrites(r)
      BY <1>0, <2>0, <2>7 DEF ProcessWrites, Recorded, RunFacts, memory
    <2>8. CASE ProcessExits(r)
      BY <1>0, <2>0, <2>8
      DEF ProcessExits, Recorded, RunFacts, TypeOK, files, memory
    <2>9. CASE FinishRun(r)
      <3>1. /\ task[r] \in Waiting /\ UNCHANGED <<cancelledRuns, proc, owner>>
            /\ \A p \in Runs \ {r} : telem[p] \in {telem[p], "absent"}
        BY <2>9 DEF FinishRun, Waiting
      <3>2. CASE Finalize(owner[r], r) /\ proc[r] = "ok"
        <4>1. CASE q = r
          BY <3>1, <3>2, <4>1, FinalizeFacts DEF Recorded, Terminal
        <4>2. CASE q # r
          BY <1>0, <2>0, <3>1, <3>2, <4>2, FinalizeFacts DEF Recorded, RunFacts
        <4> QED
          BY <4>1, <4>2
      <3> QED
        BY <2>1, <2>9, <3>1, <3>2, RecordsAreBefore DEF FinishRun, Exited
    <2>10. CASE ExportDone(r)
      BY <1>0, <2>0, <2>10 DEF ExportDone, Recorded, RunFacts, TypeOK, files
    <2>11. CASE CancelBegin(r)
      BY <1>0, <2>0, <2>11 DEF CancelBegin, Recorded, RunFacts, files
    <2>12. CASE CancelExited(r) \/ CancelFinish(r)
      <3>1. CancelEffects(owner[r], r)
        BY <2>12 DEF CancelExited, CancelFinish
      <3>2. /\ UNCHANGED <<meta, task, proc, owner>>
            /\ cancelledRuns' = cancelledRuns \cup {r}
        BY <3>1 DEF CancelEffects
      <3>3. \/ telem'[q] = telem[q]
            \/ telem[q] # "absent" /\ telem'[q] = "cancelled" /\ q = r
        BY <3>1 DEF CancelEffects, SetTelemetry, TypeOK
      <3> QED
        BY <1>0, <2>0, <3>2, <3>3 DEF Recorded, RunFacts
    <2>13. CASE RestartInFinalize(r) \/ RestartInFailure(r)
      BY <2>13 DEF RestartInFinalize, RestartInFailure, LoseMemory
    <2> QED
      BY <1>1, <2>3, <2>4, <2>5, <2>6, <2>7, <2>8, <2>9, <2>10, <2>11, <2>12,
         <2>13 DEF RunStep
  <1>2. ASSUME NEW s \in Scenarios, ScenarioStep(s) PROVE Recorded(q)'
    <2>1. ASSUME NEW r \in Runs, StartSimulation(s, r) \/ BatchQueue(s, r)
          PROVE  Recorded(q)'
      <3>1. q # r /\ owner'[q] = owner[q]
        BY <2>1 DEF StartSimulation, BatchQueue, TypeOK
      <3>2. Exists(owner[q]) \/ Unused(q)
        BY <3>1, DeletedStays DEF Exists, Unused, TypeOK
      <3> QED
        BY <1>0, <2>1, <3>1, <3>2
        DEF StartSimulation, BatchQueue, Recorded, RunFacts, TypeOK, files
    <2>2. CASE ResetStatus(s) \/ DeleteDatabase(s)
      <3>1. owner' = owner
        BY <2>2 DEF ResetStatus, DeleteDatabase
      <3>2. Exists(owner[q]) \/ Unused(q)
        BY <3>1, DeletedStays DEF Exists, Unused, TypeOK
      <3> QED
        BY <1>0, <2>2, <3>2
        DEF ResetStatus, DeleteDatabase, Recorded, RunFacts, memory
    <2>3. CASE DeleteScenario(s)
      <3>1. owner[q] # s
        BY <2>3 DEF DeleteScenario, Exists, TypeOK
      <3>2. Exists(owner[q]) \/ Unused(q)
        BY <2>3, DeletedStays DEF DeleteScenario, Exists, Unused, TypeOK
      <3> QED
        BY <1>0, <2>3, <3>1, <3>2 DEF DeleteScenario, Recorded, RunFacts, memory
    <2>4. CASE RestartInDelete(s)
      BY <2>4 DEF RestartInDelete, LoseMemory
    <2> QED
      BY <1>2, <2>1, <2>2, <2>3, <2>4 DEF ScenarioStep
  <1>3. CASE Restart
    BY <1>3 DEF Restart, LoseMemory
  <1>4. CASE UNCHANGED vars
    BY <1>4 DEF vars, files, memory, Recorded, Exists
  <1> QED
    BY <1>1, <1>2, <1>3, <1>4 DEF Next

(* The run history keeps every attempt whose CLI was started: once its       *)
(* coroutine is past settling it, run_metadata.json has the true ending, as  *)
(* long as no write of the metadata of a failed run fails.                   *)
THEOREM HistoryIsKept ==
  ASSUME "record" \notin Environment
  PROVE  Spec => []SettledRunIsInHistory
  <1>1. Init => \A r \in Runs : Recorded(r)
    BY DEF Init, Recorded
  <1>2. /\ TypeOK /\ Bookkeeping /\ (\A r \in Runs : Recorded(r)) /\ [Next]_vars
        => (\A r \in Runs : Recorded(r))'
    BY NextRecorded
  <1>3. (\A r \in Runs : Recorded(r)) => SettledRunIsInHistory
    BY DEF Recorded, SettledRunIsInHistory
  <1> QED
    BY <1>1, <1>2, <1>3, BookkeepingCorrect, PTL DEF Spec

(* The dashboard and the run history never disagree about the end of a run,  *)
(* except that a run cancelled too late may be shown as cancelled, as long   *)
(* as no write of the metadata of a failed run fails.                        *)
THEOREM DashboardIsTruthful ==
  ASSUME "record" \notin Environment
  PROVE  Spec => []DashboardAgreesWithHistory
  <1>1. Init => \A r \in Runs : Recorded(r)
    BY DEF Init, Recorded
  <1>2. /\ TypeOK /\ Bookkeeping /\ (\A r \in Runs : Recorded(r)) /\ [Next]_vars
        => (\A r \in Runs : Recorded(r))'
    BY NextRecorded
  <1>3. (\A r \in Runs : Recorded(r)) => DashboardAgreesWithHistory
    BY DEF Recorded, DashboardAgreesWithHistory
  <1> QED
    BY <1>1, <1>2, <1>3, BookkeepingCorrect, PTL DEF Spec

(***************************************************************************)
(* Stuck scenarios.                                                        *)
(***************************************************************************)

LastIsOwned(s) == last[s] # NoRun => owner[last[s]] = s

\* Of scenario s: what the reset endpoint needs to find.
NotStuck(s) ==
  status[s] \in {"queued", "running"} =>
    \/ \E r \in Runs : owner[r] = s /\ task[r] \in Waiting
    \/ last[s] = NoRun
    \/ registry[last[s]] = "absent"

\* A step of a run of another scenario, or of none, leaves s as it was.
LEMMA NotStuckElsewhere ==
  ASSUME TypeOK, NEW s \in Scenarios, LastIsOwned(s), NotStuck(s), NEW r \in Runs,
         status'[s] = status[s], last'[s] = last[s], owner[r] # s, owner' = owner,
         \A q \in Runs \ {r} : task'[q] = task[q] /\ registry'[q] = registry[q]
  PROVE  LastIsOwned(s)' /\ NotStuck(s)'
  BY DEF TypeOK, LastIsOwned, NotStuck

\* Settling a run takes its scenario out of the statuses that can be stuck.
LEMMA NotStuckSettled ==
  ASSUME TypeOK, NEW s \in Scenarios, LastIsOwned(s), NotStuck(s), NEW r \in Runs,
         NEW st \in Terminal,
         status' = SetStatus(owner[r], st), last' = SetLast(owner[r], r),
         owner' = owner,
         \A q \in Runs \ {r} : task'[q] = task[q] /\ registry'[q] = registry[q]
  PROVE  LastIsOwned(s)' /\ NotStuck(s)'
  <1>1. CASE owner[r] = s
    BY <1>1 DEF SetStatus, SetLast, LastIsOwned, NotStuck, Terminal, TypeOK, Exists
  <1>2. CASE owner[r] # s
    <2>1. status'[s] = status[s] /\ last'[s] = last[s]
      BY <1>2 DEF SetStatus, SetLast, TypeOK
    <2> QED
      BY <1>2, <2>1, NotStuckElsewhere
  <1> QED
    BY <1>1, <1>2

LEMMA NextNotStuck ==
  ASSUME TypeOK, Bookkeeping, [Next]_vars,
         NEW s \in Scenarios, LastIsOwned(s), NotStuck(s)
  PROVE  LastIsOwned(s)' /\ NotStuck(s)'
  <1> DEFINE Goal == LastIsOwned(s)' /\ NotStuck(s)'
  <1>0. last'[s] \in Runs \cup {NoRun} /\ s # NoScenario
    BY NextType, ConstantsAssumption DEF TypeOK
  <1>1. ASSUME NEW r \in Runs, RunStep(r) PROVE Goal
    <2> telem \in [Runs -> {"absent", "running"} \cup Terminal]
      BY DEF TypeOK
    <2>1. ASSUME NEW cur, NEW met, MetaBefore(r, met),
                 NEW tel \in [Runs -> {"absent", "running"} \cup Terminal],
                 HandleFailure(owner[r], r, cur, met, tel), owner' = owner
          PROVE  Goal
      <3>1. \E st \in Terminal :
              status' = SetStatus(owner[r], st) /\ last' = SetLast(owner[r], r)
        BY <2>1 DEF HandleFailure, Terminal
      <3>2. \A q \in Runs \ {r} : task'[q] = task[q] /\ registry'[q] = registry[q]
        BY <2>1, FailureFacts
      <3> QED
        BY <2>1, <3>1, <3>2, NotStuckSettled
    <2>2. ASSUME Prepared(owner[r], r) \/ PrepareFails(owner[r], r), owner' = owner
          PROVE  Goal
      <3>1. CASE Prepared(owner[r], r)
        <4>1. CASE owner[r] = s
          BY <2>2, <3>1, <4>1
          DEF Prepared, SetLast, LastIsOwned, NotStuck, Waiting, TypeOK
        <4>2. CASE owner[r] # s
          <5>1. status'[s] = status[s] /\ last'[s] = last[s]
            BY <3>1, <4>2 DEF Prepared, SetStatus, SetLast, TypeOK
          <5>2. \A q \in Runs \ {r} : task'[q] = task[q] /\ registry'[q] = registry[q]
            BY <3>1, PreparedFacts
          <5> QED
            BY <2>2, <4>2, <5>1, <5>2, NotStuckElsewhere
        <4> QED
          BY <4>1, <4>2
      <3>2. CASE PrepareFails(owner[r], r)
        <4>1. owner[r] \in Scenarios \cup {NoScenario}
          BY DEF TypeOK
        <4>2. StartTelemetry(owner[r], r)
                \in [Runs -> {"absent", "running"} \cup Terminal]
          BY <4>1, StatusUpdates DEF Terminal
        <4> QED
          BY <2>1, <2>2, <3>2, <4>2, RecordsAreBefore DEF PrepareFails
      <3> QED
        BY <2>2, <3>1, <3>2
    <2>3. CASE ExecuteReserved(r)
      BY <2>2, <2>3 DEF ExecuteReserved
    <2>4. CASE ExecuteBatch(r)
      <3>1. CASE Readable(owner[r])
        BY <2>2, <2>4, <3>1 DEF ExecuteBatch
      <3>2. CASE ~Readable(owner[r])
        <4>1. /\ UNCHANGED <<status, last, registry, owner>>
              /\ \A q \in Runs \ {r} : task'[q] = task[q]
          BY <2>4, <3>2 DEF ExecuteBatch, TypeOK
        <4>2. CASE owner[r] = s
          BY <3>2, <4>1, <4>2 DEF Readable, ModelStatuses, LastIsOwned, NotStuck
        <4>3. CASE owner[r] # s
          BY <4>1, <4>3, NotStuckElsewhere
        <4> QED
          BY <4>2, <4>3
      <3> QED
        BY <3>1, <3>2
    <2>5. CASE Spawn(r)
      BY <2>5 DEF Spawn, files, LastIsOwned, NotStuck, Waiting, TypeOK
    <2>6. CASE SpawnFails(r) \/ StreamFails(r)
      BY <2>1, <2>6, RecordsAreBefore DEF SpawnFails, StreamFails
    <2>7. CASE ProcessWrites(r) \/ ProcessExits(r)
      BY <2>7 DEF ProcessWrites, ProcessExits, files, memory, LastIsOwned, NotStuck
    <2>8. CASE FinishRun(r)
      <3>1. CASE Finalize(owner[r], r)
        <4>1. \A q \in Runs \ {r} : task'[q] = task[q] /\ registry'[q] = registry[q]
          BY <3>1, FinalizeFacts
        <4> QED
          BY <2>8, <3>1, <4>1, NotStuckSettled DEF FinishRun, Finalize, Terminal
      <3> QED
        BY <2>1, <2>8, <3>1, RecordsAreBefore DEF FinishRun
    <2>9. CASE ExportDone(r)
      BY <2>9 DEF ExportDone, files, LastIsOwned, NotStuck, Waiting, TypeOK
    <2>10. CASE CancelBegin(r)
      BY <2>10 DEF CancelBegin, files, LastIsOwned, NotStuck
    <2>11. CASE CancelExited(r) \/ CancelFinish(r)
      <3>1. CancelEffects(owner[r], r)
        BY <2>11 DEF CancelExited, CancelFinish
      <3>2. /\ UNCHANGED <<last, task, owner>>
            /\ \A q \in Runs \ {r} : registry'[q] = registry[q]
        BY <3>1 DEF CancelEffects, TypeOK
      <3>3. CASE owner[r] = s
        BY <3>1, <3>2, <3>3 DEF CancelEffects, SetStatus, Exists, Readable,
           ModelStatuses, Terminal, LastIsOwned, NotStuck, TypeOK
      <3>4. CASE owner[r] # s
        <4>1. status'[s] = status[s]
          BY <3>1, <3>4 DEF CancelEffects, SetStatus, TypeOK
        <4> QED
          BY <3>2, <3>4, <4>1, NotStuckElsewhere
      <3> QED
        BY <3>3, <3>4
    <2>12. CASE RestartInFinalize(r) \/ RestartInFailure(r)
      BY <1>0, <2>12 DEF RestartInFinalize, RestartInFailure, LoseMemory, SetLast,
         LastIsOwned, NotStuck, TypeOK
    <2> QED
      BY <1>1, <2>3, <2>4, <2>5, <2>6, <2>7, <2>8, <2>9, <2>10, <2>11, <2>12
      DEF RunStep
  <1>2. ASSUME NEW z \in Scenarios, ScenarioStep(z) PROVE Goal
    <2>1. ASSUME NEW r \in Runs, StartSimulation(z, r) PROVE Goal
      BY <1>0, <2>1
      DEF StartSimulation, Unused, LastIsOwned, NotStuck, Waiting, TypeOK
    <2>2. ASSUME NEW r \in Runs, BatchQueue(z, r) PROVE Goal
      BY <1>0, <2>2
      DEF BatchQueue, Unused, LastIsOwned, NotStuck, Waiting, TypeOK, files
    <2>3. CASE ResetStatus(z)
      BY <2>3 DEF ResetStatus, LastIsOwned, NotStuck, TypeOK, memory
    <2>4. CASE DeleteDatabase(z) \/ DeleteScenario(z)
      BY <2>4
      DEF DeleteDatabase, DeleteScenario, LastIsOwned, NotStuck, TypeOK, memory
    <2>5. CASE RestartInDelete(z)
      BY <1>0, <2>5 DEF RestartInDelete, LoseMemory, LastIsOwned, NotStuck
    <2> QED
      BY <1>2, <2>1, <2>2, <2>3, <2>4, <2>5 DEF ScenarioStep
  <1>3. CASE Restart
    BY <1>0, <1>3 DEF Restart, LoseMemory, files, LastIsOwned, NotStuck
  <1>4. CASE UNCHANGED vars
    BY <1>4 DEF vars, files, memory, LastIsOwned, NotStuck
  <1> QED
    BY <1>1, <1>2, <1>3, <1>4 DEF Next

(* A scenario is never stuck for good in queued or running: a coroutine will *)
(* settle it, or POST /{scenario}/run/reset accepts it.                      *)
THEOREM StuckCanBeReset == Spec => []StuckIsResettable
  <1> DEFINE Inv == \A s \in Scenarios : LastIsOwned(s) /\ NotStuck(s)
  <1>1. Init => Inv
    BY DEF Init, LastIsOwned, NotStuck
  <1>2. TypeOK /\ Bookkeeping /\ Inv /\ [Next]_vars => Inv'
    BY NextNotStuck
  <1>3. Inv => StuckIsResettable
    BY DEF NotStuck, StuckIsResettable, Resettable, RunsOf, Executing
  <1> QED
    BY <1>1, <1>2, <1>3, BookkeepingCorrect, PTL DEF Spec

(***************************************************************************)
(* What scenario.json says of the newest attempt.  The documentation       *)
(* promises NewestAttemptIsDescribed without a condition; a cancellation,  *)
(* a batch run and a deletion each break it.  Nothing else does.           *)
(***************************************************************************)

\* Of run r, while nothing is cancelled, run in a batch or deleted.
Described(r) ==
  /\ ~IsBatch(r)
  /\ r \notin cancelledRuns
  /\ r \notin cancelling
  /\ task[r] \in Waiting => registry[r] \in NonTerminal
  /\ registry[r] \in NonTerminal =>
       /\ owner[r] \in Scenarios
       /\ status[owner[r]] \in {"queued", "running"}
       /\ last[owner[r]] = r

\* The run that writes scenario.json holds the reservation of its scenario, so
\* the other runs that are described belong to other scenarios.
LEMMA DescribedElsewhere ==
  ASSUME TypeOK, OneReservation, NEW r \in Runs, registry[r] \in NonTerminal,
         Described(r), NEW q \in Runs \ {r}, Described(q),
         registry'[q] = registry[q], task'[q] = task[q], outcome'[q] = outcome[q],
         UNCHANGED <<cancelledRuns, cancelling, owner>>,
         \A z \in Scenarios \ {owner[r]} : /\ status'[z] = status[z]
                                           /\ last'[z] = last[z]
  PROVE  Described(q)'
  <1>1. registry[q] \in NonTerminal => owner[q] # owner[r]
    BY DEF OneReservation
  <1> QED
    BY <1>1 DEF Described, IsBatch

LEMMA NextDescribed ==
  ASSUME TypeOK, Bookkeeping, OneReservation, [Next]_vars,
         Environment \cap {"cancel", "batch", "delete"} = {},
         \A r \in Runs : Described(r), NEW q \in Runs
  PROVE  Described(q)'
  <1> USE DEF Described
  <1>0. Described(q)
    OBVIOUS
  <1>1. ASSUME NEW r \in Runs, RunStep(r) PROVE Described(q)'
    <2>0. /\ Described(r)
          /\ RunFacts(r)
          /\ telem \in [Runs -> {"absent", "running"} \cup Terminal]
      BY DEF Bookkeeping, TypeOK
    <2>1. ASSUME NEW st, task[r] \in Waiting,
                 status' = SetStatus(owner[r], st), last' = SetLast(owner[r], r),
                 UNCHANGED <<cancelledRuns, cancelling, owner>>,
                 \A p \in Runs \ {r} : /\ registry'[p] = registry[p]
                                       /\ task'[p] = task[p]
                                       /\ outcome'[p] = outcome[p],
                 outcome'[r] = outcome[r],
                 task'[r] \in Waiting => registry'[r] \in NonTerminal,
                 registry'[r] \in NonTerminal => st = "running"
          PROVE  Described(q)'
      <3>1. /\ registry[r] \in NonTerminal
            /\ owner[r] \in Scenarios
            /\ Exists(owner[r])
        BY <2>0, <2>1 DEF Exists
      <3>2. /\ status'[owner[r]] = st
            /\ last'[owner[r]] = r
            /\ \A z \in Scenarios \ {owner[r]} : /\ status'[z] = status[z]
                                                 /\ last'[z] = last[z]
        BY <2>1, <3>1 DEF SetStatus, SetLast, TypeOK
      <3>3. CASE q = r
        BY <2>0, <2>1, <3>1, <3>2, <3>3 DEF IsBatch
      <3>4. CASE q # r
        BY <1>0, <2>0, <2>1, <3>1, <3>2, <3>4, DescribedElsewhere
      <3> QED
        BY <3>3, <3>4
    <2>2. ASSUME NEW cur, NEW met, MetaBefore(r, met),
                 NEW tel \in [Runs -> {"absent", "running"} \cup Terminal],
                 HandleFailure(owner[r], r, cur, met, tel), task[r] \in Waiting,
                 UNCHANGED <<cancelledRuns, cancelling, owner>>
          PROVE  Described(q)'
      <3>1. /\ \A p \in Runs \ {r} : /\ registry'[p] = registry[p]
                                     /\ task'[p] = task[p]
                                     /\ outcome'[p] = outcome[p]
            /\ registry'[r] \notin NonTerminal
            /\ task'[r] \notin Waiting
        BY <2>2, FailureFacts DEF NonTerminal, Waiting
      <3>2. outcome'[r] = outcome[r]
        BY <2>0, <2>2 DEF HandleFailure
      <3>3. PICK st : status' = SetStatus(owner[r], st) /\ last' = SetLast(owner[r], r)
        BY <2>2 DEF HandleFailure
      <3> QED
        BY <2>1, <2>2, <3>1, <3>2, <3>3
    <2>3. ASSUME task[r] = "queued",
                 Prepared(owner[r], r) \/ PrepareFails(owner[r], r),
                 UNCHANGED <<cancelledRuns, cancelling, owner>>
          PROVE  Described(q)'
      <3>0. task[r] \in Waiting
        BY <2>3 DEF Waiting
      <3>1. CASE Prepared(owner[r], r)
        <4>1. /\ \A p \in Runs \ {r} : /\ registry'[p] = registry[p]
                                       /\ task'[p] = task[p]
                                       /\ outcome'[p] = outcome[p]
              /\ registry'[r] = "running"
          BY <2>0, <3>0, <3>1, PreparedFacts DEF NonTerminal
        <4>2. /\ outcome'[r] = outcome[r]
              /\ status' = SetStatus(owner[r], "running")
              /\ last' = SetLast(owner[r], r)
          BY <2>0, <3>1 DEF Prepared
        <4>3. registry'[r] \in NonTerminal
          BY <4>1 DEF NonTerminal
        <4> QED
          BY <2>1, <2>3, <3>0, <4>1, <4>2, <4>3
      <3>2. CASE PrepareFails(owner[r], r)
        <4>1. owner[r] \in Scenarios \cup {NoScenario}
          BY DEF TypeOK
        <4>2. StartTelemetry(owner[r], r)
                \in [Runs -> {"absent", "running"} \cup Terminal]
          BY <4>1, StatusUpdates DEF Terminal
        <4> QED
          BY <2>2, <2>3, <3>0, <3>2, <4>2, RecordsAreBefore DEF PrepareFails
      <3> QED
        BY <2>3, <3>1, <3>2
    <2>4. CASE ExecuteReserved(r)
      BY <2>3, <2>4 DEF ExecuteReserved
    <2>5. CASE ExecuteBatch(r)
      BY <2>0, <2>5 DEF ExecuteBatch
    <2>6. CASE Spawn(r)
      BY <1>0, <2>0, <2>6 DEF Spawn, files, IsBatch, Waiting, TypeOK
    <2>7. CASE SpawnFails(r) \/ StreamFails(r)
      BY <2>0, <2>2, <2>7, RecordsAreBefore DEF SpawnFails, StreamFails, Waiting
    <2>8. CASE ProcessWrites(r) \/ ProcessExits(r)
      BY <1>0, <2>8 DEF ProcessWrites, ProcessExits, files, memory, IsBatch
    <2>9. CASE FinishRun(r)
      <3>0. task[r] \in Waiting /\ UNCHANGED <<cancelledRuns, cancelling, owner>>
        BY <2>9 DEF FinishRun, Waiting
      <3>1. CASE Finalize(owner[r], r)
        <4>1. /\ \A p \in Runs \ {r} : /\ registry'[p] = registry[p]
                                       /\ task'[p] = task[p]
                                       /\ outcome'[p] = outcome[p]
              /\ registry'[r] \notin NonTerminal
              /\ task'[r] \notin Waiting
              /\ outcome'[r] = outcome[r]
          BY <3>1, FinalizeFacts DEF NonTerminal, Waiting
        <4>2. /\ status' = SetStatus(owner[r], "completed")
              /\ last' = SetLast(owner[r], r)
          BY <3>1 DEF Finalize
        <4> QED
          BY <2>1, <3>0, <4>1, <4>2
      <3> QED
        BY <2>0, <2>2, <2>9, <3>0, <3>1, RecordsAreBefore DEF FinishRun
    <2>10. CASE ExportDone(r)
      BY <1>0, <2>0, <2>10 DEF ExportDone, files, IsBatch, Waiting, TypeOK
    <2>11. CASE CancelBegin(r) \/ CancelExited(r) \/ CancelFinish(r)
      BY <2>0, <2>11 DEF CancelBegin, CancelExited, CancelFinish, MayCancel
    <2>12. CASE RestartInFinalize(r) \/ RestartInFailure(r)
      BY <2>12 DEF RestartInFinalize, RestartInFailure, LoseMemory, IsBatch,
         Waiting, NonTerminal
    <2> QED
      BY <1>1, <2>4, <2>5, <2>6, <2>7, <2>8, <2>9, <2>10, <2>11, <2>12
      DEF RunStep
  <1>2. ASSUME NEW z \in Scenarios, ScenarioStep(z) PROVE Described(q)'
    <2>1. ASSUME NEW r \in Runs, StartSimulation(z, r) PROVE Described(q)'
      <3>1. registry[q] \in NonTerminal => owner[q] # z
        BY <2>1 DEF StartSimulation, MayReserve, RunsOf
      <3>2. CASE q = r
        BY <1>0, <2>1, <3>2 DEF StartSimulation, IsBatch, NonTerminal, TypeOK
      <3>3. CASE q # r
        BY <1>0, <2>1, <3>1, <3>3 DEF StartSimulation, IsBatch, TypeOK
      <3> QED
        BY <3>2, <3>3
    <2>2. CASE ResetStatus(z)
      <3>1. registry[q] \in NonTerminal => owner[q] # z
        BY <1>0, <2>2, ConstantsAssumption
        DEF ResetStatus, Resettable, NonTerminal
      <3> QED
        BY <1>0, <2>2, <3>1 DEF ResetStatus, memory, IsBatch, TypeOK
    <2>3. ~(\E r \in Runs : BatchQueue(z, r))
      BY DEF BatchQueue
    <2>4. ~(DeleteDatabase(z) \/ DeleteScenario(z) \/ RestartInDelete(z))
      BY DEF DeleteDatabase, DeleteScenario, RestartInDelete
    <2> QED
      BY <1>2, <2>1, <2>2, <2>3, <2>4 DEF ScenarioStep
  <1>3. CASE Restart
    BY <1>3 DEF Restart, LoseMemory, IsBatch, Waiting, NonTerminal
  <1>4. CASE UNCHANGED vars
    BY <1>0, <1>4 DEF vars, files, memory, IsBatch
  <1> QED
    BY <1>1, <1>2, <1>3, <1>4 DEF Next

(* As long as nothing is cancelled, run in a batch or deleted, scenario.json *)
(* describes the newest attempt: the run that is pending or running is its   *)
(* last_run_id, and its status is queued or running, whatever fails and      *)
(* however often the API restarts.                                           *)
THEOREM NewestAttemptStaysDescribed ==
  ASSUME Environment \cap {"cancel", "batch", "delete"} = {}
  PROVE  Spec => []NewestAttemptIsDescribed
  <1> DEFINE Inv == \A r \in Runs : Described(r)
  <1>1. Init => Inv
    BY DEF Init, Described, IsBatch, Waiting, NonTerminal
  <1>2. TypeOK /\ Bookkeeping /\ OneReservation /\ Inv /\ [Next]_vars => Inv'
    BY NextDescribed
  <1>3. Inv => NewestAttemptIsDescribed
    BY DEF Described, NewestAttemptIsDescribed
  <1> QED
    BY <1>1, <1>2, <1>3, BookkeepingCorrect, ReservationsAreExclusive, PTL DEF Spec

(***************************************************************************)
(* A run ends once.                                                        *)
(***************************************************************************)

\* What a run has become it stays: its entry of _active_runs never goes back
\* to pending or running, and run_metadata.json is written once and goes only
\* with its scenario.
RunsEndOnce ==
  [][\A r \in Runs :
       /\ registry[r] \in Terminal => registry'[r] \notin NonTerminal
       /\ meta[r] \in Terminal =>
            \/ meta'[r] = meta[r]
            \/ meta'[r] = "none" /\ status'[owner[r]] = "deleted"]_vars

LEMMA RegistryEndsOnce ==
  ASSUME TypeOK, Bookkeeping, [Next]_vars, NEW q \in Runs, registry[q] \in Terminal
  PROVE  registry'[q] \notin NonTerminal
  <1>1. registry[q] \notin NonTerminal /\ registry[q] # "absent"
    BY DEF Terminal, NonTerminal
  <1>2. ~(\E s \in Scenarios : StartSimulation(s, q))
    BY <1>1 DEF StartSimulation, Bookkeeping, RunFacts
  <1> QED
    BY <1>1, <1>2, RegistryStep

LEMMA HistoryIsWrittenOnce ==
  ASSUME TypeOK, Bookkeeping, [Next]_vars, NEW q \in Runs, meta[q] \in Terminal
  PROVE  \/ meta'[q] = meta[q]
         \/ meta'[q] = "none" /\ status'[owner[q]] = "deleted"
  <1>1. task[q] \notin Waiting
    BY DEF Bookkeeping, RunFacts, Terminal
  <1>2. ASSUME NEW r \in Runs, RunStep(r) PROVE meta'[q] = meta[q]
    <2>1. ASSUME NEW z, NEW cur, NEW met, MetaBefore(r, met), NEW tel,
                 HandleFailure(z, r, cur, met, tel), task[r] \in Waiting
          PROVE  meta'[q] = meta[q]
      BY <1>1, <2>1 DEF HandleFailure, MetaBefore
    <2>2. ASSUME NEW z, Prepared(z, r) \/ PrepareFails(z, r), task[r] = "queued"
          PROVE  meta'[q] = meta[q]
      BY <2>1, <2>2, RecordsAreBefore DEF Prepared, PrepareFails, Waiting
    <2>3. CASE ExecuteReserved(r)
      BY <2>2, <2>3 DEF ExecuteReserved
    <2>4. CASE ExecuteBatch(r)
      BY <2>2, <2>4 DEF ExecuteBatch
    <2>5. CASE SpawnFails(r) \/ StreamFails(r)
      BY <2>1, <2>5, RecordsAreBefore DEF SpawnFails, StreamFails, Waiting
    <2>6. CASE FinishRun(r)
      <3>1. task[r] \in Waiting
        BY <2>6 DEF FinishRun, Waiting
      <3>2. CASE Finalize(owner[r], r)
        BY <1>1, <3>1, <3>2 DEF Finalize, TypeOK
      <3> QED
        BY <2>1, <2>6, <3>1, <3>2, RecordsAreBefore DEF FinishRun
    <2>7. CASE Spawn(r) \/ ProcessWrites(r) \/ ProcessExits(r) \/ ExportDone(r)
      BY <2>7 DEF Spawn, ProcessWrites, ProcessExits, ExportDone, files
    <2>8. CASE CancelBegin(r) \/ CancelExited(r) \/ CancelFinish(r)
      BY <2>8 DEF CancelBegin, CancelExited, CancelFinish, CancelEffects, files
    <2>9. CASE RestartInFinalize(r) \/ RestartInFailure(r)
      BY <1>1, <2>9 DEF RestartInFinalize, RestartInFailure, Waiting, TypeOK
    <2> QED
      BY <1>2, <2>3, <2>4, <2>5, <2>6, <2>7, <2>8, <2>9 DEF RunStep
  <1>3. ASSUME NEW z \in Scenarios, DeleteScenario(z)
        PROVE  \/ meta'[q] = meta[q]
               \/ meta'[q] = "none" /\ status'[owner[q]] = "deleted"
    BY <1>3 DEF DeleteScenario, TypeOK
  <1>4. ASSUME NEW z \in Scenarios, ScenarioStep(z), ~DeleteScenario(z)
        PROVE  meta'[q] = meta[q]
    BY <1>4 DEF ScenarioStep, StartSimulation, BatchQueue, ResetStatus,
       DeleteDatabase, RestartInDelete, files
  <1>5. CASE Restart \/ UNCHANGED vars
    BY <1>5 DEF Restart, files, vars
  <1> QED
    BY <1>2, <1>3, <1>4, <1>5 DEF Next

(* A run ends once, however its coroutine, a cancel request and restarts     *)
(* interleave: it never looks alive again in _active_runs, and what the run  *)
(* history says of it is never rewritten, only deleted with the scenario.    *)
THEOREM RunsEndOnlyOnce == Spec => RunsEndOnce
  <1>1. TypeOK /\ Bookkeeping /\ [Next]_vars =>
          [\A r \in Runs :
             /\ registry[r] \in Terminal => registry'[r] \notin NonTerminal
             /\ meta[r] \in Terminal =>
                  \/ meta'[r] = meta[r]
                  \/ meta'[r] = "none" /\ status'[owner[r]] = "deleted"]_vars
    BY RegistryEndsOnce, HistoryIsWrittenOnce
  <1> QED
    BY <1>1, BookkeepingCorrect, PTL DEF Spec, RunsEndOnce

(***************************************************************************)
(* The reset endpoint.                                                     *)
(***************************************************************************)

\* A reset never declares a scenario failed while a run of it executes.
ResetSparesRuns ==
  \A s \in Scenarios : Resettable(s) => RunsOf(s) \cap Executing = {}

\* Without batch runs every coroutine is of a run that _active_runs knows ...
Registered(r) == ~IsBatch(r) /\ (task[r] \in Waiting => registry[r] # "absent")

\* ... and so is last_run_id while a run of the scenario executes.
LastIsRegistered(s) ==
  Exists(s) /\ (\E r \in Runs : owner[r] = s /\ task[r] \in Waiting) =>
    last[s] # NoRun /\ registry[last[s]] # "absent"

\* A step of a run, unless the API dies in it, forgets no run and starts none,
\* and sets last_run_id to no run but its own, while that executes.
LEMMA RunStepRegisters ==
  ASSUME TypeOK, Bookkeeping, NEW r \in Runs, RunStep(r), ~IsBatch(r),
         ~(RestartInFinalize(r) \/ RestartInFailure(r))
  PROVE  /\ \A q \in Runs : registry[q] # "absent" => registry'[q] # "absent"
         /\ \A q \in Runs : task'[q] \in Waiting => task[q] \in Waiting
         /\ UNCHANGED <<outcome, owner>>
         /\ \/ last' = last
            \/ last' = SetLast(owner[r], r) /\ task[r] \in Waiting
  <1> DEFINE Goal ==
        /\ \A q \in Runs : registry[q] # "absent" => registry'[q] # "absent"
        /\ \A q \in Runs : task'[q] \in Waiting => task[q] \in Waiting
        /\ UNCHANGED <<outcome, owner>>
        /\ \/ last' = last
           \/ last' = SetLast(owner[r], r) /\ task[r] \in Waiting
  <1>1. ASSUME NEW cur, NEW met, NEW tel,
               HandleFailure(owner[r], r, cur, met, tel),
               task[r] \in Waiting, UNCHANGED owner
        PROVE  Goal
    BY <1>1 DEF HandleFailure, SetRegistry, Waiting, TypeOK
  <1>2. ASSUME Prepared(owner[r], r) \/ PrepareFails(owner[r], r),
               task[r] = "queued", UNCHANGED owner
        PROVE  Goal
    <2>1. task[r] \in Waiting
      BY <1>2 DEF Waiting
    <2>2. CASE Prepared(owner[r], r)
      BY <1>2, <2>1, <2>2 DEF Prepared, SetRegistry, Waiting, TypeOK
    <2> QED
      BY <1>1, <1>2, <2>1, <2>2 DEF PrepareFails
  <1>3. CASE ExecuteReserved(r)
    BY <1>2, <1>3 DEF ExecuteReserved
  <1>4. ~ExecuteBatch(r)
    BY DEF ExecuteBatch
  <1>5. CASE Spawn(r)
    BY <1>5 DEF Spawn, files, Waiting, TypeOK
  <1>6. CASE SpawnFails(r) \/ StreamFails(r)
    BY <1>1, <1>6 DEF SpawnFails, StreamFails, Waiting
  <1>7. CASE ProcessWrites(r) \/ ProcessExits(r) \/ CancelBegin(r)
    BY <1>7 DEF ProcessWrites, ProcessExits, CancelBegin, files, memory
  <1>8. CASE FinishRun(r)
    <2>1. task[r] \in Waiting /\ UNCHANGED owner
      BY <1>8 DEF FinishRun, Waiting
    <2>2. CASE Finalize(owner[r], r)
      BY <2>1, <2>2 DEF Finalize, SetRegistry, Waiting, TypeOK
    <2> QED
      BY <1>1, <1>8, <2>1, <2>2 DEF FinishRun
  <1>9. CASE ExportDone(r)
    BY <1>9 DEF ExportDone, files, Waiting, TypeOK
  <1>10. CASE CancelExited(r) \/ CancelFinish(r)
    BY <1>10 DEF CancelExited, CancelFinish, CancelEffects, TypeOK
  <1> QED
    BY <1>3, <1>4, <1>5, <1>6, <1>7, <1>8, <1>9, <1>10 DEF RunStep

LEMMA NextRegistered ==
  ASSUME TypeOK, Bookkeeping, [Next]_vars, "batch" \notin Environment,
         \A r \in Runs : Registered(r), \A s \in Scenarios : LastIsRegistered(s)
  PROVE  /\ \A r \in Runs : Registered(r)'
         /\ \A s \in Scenarios : LastIsRegistered(s)'
  <1> DEFINE Goal == /\ \A r \in Runs : Registered(r)'
                     /\ \A s \in Scenarios : LastIsRegistered(s)'
  <1>0. TypeOK'
    BY NextType
  <1>1. CASE LoseMemory
    BY <1>1 DEF LoseMemory, Registered, LastIsRegistered, IsBatch, Waiting
  <1>2. ASSUME NEW r \in Runs, RunStep(r),
               ~(RestartInFinalize(r) \/ RestartInFailure(r))
        PROVE  Goal
    <2>1. /\ \A q \in Runs : registry[q] # "absent" => registry'[q] # "absent"
          /\ \A q \in Runs : task'[q] \in Waiting => task[q] \in Waiting
          /\ UNCHANGED <<outcome, owner>>
          /\ \/ last' = last
             \/ last' = SetLast(owner[r], r) /\ task[r] \in Waiting
      BY <1>2, RunStepRegisters DEF Registered
    <2>2. \A q \in Runs : Registered(q)'
      BY <2>1 DEF Registered, IsBatch
    <2>3. ASSUME NEW s \in Scenarios, Exists(s)',
                 NEW q \in Runs, owner'[q] = s, task'[q] \in Waiting
          PROVE  last'[s] # NoRun /\ registry'[last'[s]] # "absent"
      <3>1. Exists(s)
        BY <2>3, DeletedStays DEF Exists
      <3>2. last[s] \in Runs /\ registry[last[s]] # "absent"
        BY <2>1, <2>3, <3>1 DEF LastIsRegistered, TypeOK
      <3>3. last'[s] \in {last[s], r} /\ (last'[s] # last[s] => task[r] \in Waiting)
        BY <2>1 DEF SetLast, TypeOK
      <3> QED
        BY <2>1, <3>2, <3>3, ConstantsAssumption DEF Registered
    <2> QED
      BY <2>2, <2>3 DEF LastIsRegistered
  <1>3. ASSUME NEW z \in Scenarios, ScenarioStep(z), ~LoseMemory PROVE Goal
    <2>1. ASSUME NEW r \in Runs, StartSimulation(z, r) PROVE Goal
      <3>1. \A q \in Runs : Registered(q)'
        BY <2>1 DEF StartSimulation, Registered, IsBatch, TypeOK
      <3>2. ASSUME NEW s \in Scenarios PROVE LastIsRegistered(s)'
        <4>1. CASE s = z
          BY <2>1, <4>1, ConstantsAssumption
          DEF StartSimulation, LastIsRegistered, TypeOK
        <4>2. CASE s # z
          <5>1. /\ last'[s] = last[s]
                /\ Exists(s)' = Exists(s)
                /\ \A q \in Runs : registry[q] # "absent" => registry'[q] # "absent"
                /\ \A q \in Runs : owner'[q] = s /\ task'[q] \in Waiting
                                     => owner[q] = s /\ task[q] \in Waiting
            BY <2>1, <4>2 DEF StartSimulation, Exists, TypeOK
          <5>2. Exists(s)' /\ (\E q \in Runs : owner'[q] = s /\ task'[q] \in Waiting)
                  => last[s] \in Runs /\ registry[last[s]] # "absent"
            BY <5>1 DEF LastIsRegistered, TypeOK
          <5> QED
            BY <5>1, <5>2, ConstantsAssumption DEF LastIsRegistered
        <4> QED
          BY <4>1, <4>2
      <3> QED
        BY <3>1, <3>2
    <2>2. CASE ResetStatus(z) \/ DeleteDatabase(z)
      BY <2>2 DEF ResetStatus, Resettable, DeleteDatabase, Readable, ModelStatuses,
         Terminal, memory, Registered, LastIsRegistered, IsBatch, Exists, TypeOK
    <2>3. CASE DeleteScenario(z)
      BY <2>3 DEF DeleteScenario, memory, Registered, LastIsRegistered, IsBatch,
         Exists, TypeOK
    <2>4. ~RestartInDelete(z) /\ ~(\E r \in Runs : BatchQueue(z, r))
      BY <1>3 DEF RestartInDelete, BatchQueue
    <2> QED
      BY <1>3, <2>1, <2>2, <2>3, <2>4 DEF ScenarioStep
  <1>4. CASE UNCHANGED vars
    BY <1>4 DEF vars, files, memory, Registered, LastIsRegistered, IsBatch, Exists
  <1> QED
    BY <1>1, <1>2, <1>3, <1>4 DEF Next, Restart, RestartInFinalize, RestartInFailure

(* The reset endpoint only looks for a process in _active_runs.  As long as  *)
(* no batch run, which has no entry there, is started, that is enough: it    *)
(* never accepts a scenario with a run that executes, however a late end of  *)
(* an earlier run, a cancellation or a restart changed last_run_id.          *)
THEOREM ResetSparesLiveRuns ==
  ASSUME "batch" \notin Environment
  PROVE  Spec => []ResetSparesRuns
  <1> DEFINE Inv == /\ \A r \in Runs : Registered(r)
                    /\ \A s \in Scenarios : LastIsRegistered(s)
  <1>1. Init => Inv
    BY DEF Init, Registered, LastIsRegistered, IsBatch, Waiting
  <1>2. TypeOK /\ Bookkeeping /\ Inv /\ [Next]_vars => Inv'
    BY NextRegistered
  <1>3. Inv => ResetSparesRuns
    BY DEF LastIsRegistered, ResetSparesRuns, Resettable, RunsOf, Executing, Exists
  <1> QED
    BY <1>1, <1>2, <1>3, BookkeepingCorrect, PTL DEF Spec

(***************************************************************************)
(* The status of a run and its history.                                    *)
(***************************************************************************)

\* GET run status, which reads _active_runs, and the run history, which reads
\* run_metadata.json, agree on how a run ended, but for a cancel request that
\* succeeded when the run was over.
StatusAgrees(r) ==
  registry[r] \in Terminal /\ meta[r] # "none" =>
    \/ registry[r] = meta[r]
    \/ registry[r] = "cancelled" /\ r \in cancelledRuns

StatusAgreesWithHistory == \A r \in Runs : StatusAgrees(r)

LEMMA NextStatusAgrees ==
  ASSUME TypeOK, Bookkeeping, [Next]_vars, NEW q \in Runs, StatusAgrees(q),
         "record" \notin Environment
  PROVE  StatusAgrees(q)'
  <1> USE DEF StatusAgrees
  <1>1. ASSUME NEW r \in Runs, RunStep(r) PROVE StatusAgrees(q)'
    <2> telem \in [Runs -> {"absent", "running"} \cup Terminal]
      BY DEF TypeOK
    <2>1. ASSUME NEW z, NEW cur, NEW met, MetaBefore(r, met),
                 NEW tel \in [Runs -> {"absent", "running"} \cup Terminal],
                 HandleFailure(z, r, cur, met, tel), UNCHANGED cancelledRuns
          PROVE  StatusAgrees(q)'
      <3>1. CASE q = r
        <4>1. registry'[r] \in {"absent", meta'[r]}
          BY <2>1 DEF HandleFailure, MetaBefore, SetRegistry, TypeOK
        <4> QED
          BY <3>1, <4>1 DEF Terminal
      <3>2. CASE q # r
        BY <2>1, <3>2, FailureFacts
      <3> QED
        BY <3>1, <3>2
    <2>2. ASSUME Prepared(owner[r], r) \/ PrepareFails(owner[r], r),
                 UNCHANGED cancelledRuns
          PROVE  StatusAgrees(q)'
      <3>1. CASE Prepared(owner[r], r)
        BY <2>2, <3>1, PreparedFacts DEF Terminal
      <3>2. CASE PrepareFails(owner[r], r)
        <4>1. owner[r] \in Scenarios \cup {NoScenario}
          BY DEF TypeOK
        <4>2. StartTelemetry(owner[r], r)
                \in [Runs -> {"absent", "running"} \cup Terminal]
          BY <4>1, StatusUpdates DEF Terminal
        <4> QED
          BY <2>1, <2>2, <3>2, <4>2, RecordsAreBefore DEF PrepareFails
      <3> QED
        BY <2>2, <3>1, <3>2
    <2>3. CASE ExecuteReserved(r)
      BY <2>2, <2>3 DEF ExecuteReserved
    <2>4. CASE ExecuteBatch(r)
      BY <2>2, <2>4 DEF ExecuteBatch
    <2>5. CASE SpawnFails(r) \/ StreamFails(r)
      BY <2>1, <2>5, RecordsAreBefore DEF SpawnFails, StreamFails
    <2>6. CASE FinishRun(r)
      <3>1. CASE Finalize(owner[r], r)
        BY <2>6, <3>1, FinalizeFacts DEF FinishRun, Terminal
      <3> QED
        BY <2>1, <2>6, <3>1, RecordsAreBefore DEF FinishRun
    <2>7. CASE Spawn(r) \/ ProcessWrites(r) \/ ProcessExits(r) \/ ExportDone(r)
               \/ CancelBegin(r)
      BY <2>7 DEF Spawn, ProcessWrites, ProcessExits, ExportDone, CancelBegin,
         files, memory
    <2>8. CASE CancelExited(r) \/ CancelFinish(r)
      BY <2>8 DEF CancelExited, CancelFinish, CancelEffects, TypeOK
    <2>9. CASE RestartInFinalize(r) \/ RestartInFailure(r)
      BY <2>9 DEF RestartInFinalize, RestartInFailure, LoseMemory, Terminal
    <2> QED
      BY <1>1, <2>3, <2>4, <2>5, <2>6, <2>7, <2>8, <2>9 DEF RunStep
  <1>2. ASSUME NEW z \in Scenarios, ScenarioStep(z) PROVE StatusAgrees(q)'
    <2>1. ASSUME NEW r \in Runs, StartSimulation(z, r) \/ BatchQueue(z, r)
          PROVE  StatusAgrees(q)'
      BY <2>1 DEF StartSimulation, BatchQueue, files, TypeOK, Terminal
    <2>2. CASE ResetStatus(z) \/ DeleteDatabase(z)
      BY <2>2 DEF ResetStatus, DeleteDatabase, memory
    <2>3. CASE DeleteScenario(z)
      BY <2>3 DEF DeleteScenario, memory, TypeOK
    <2>4. CASE RestartInDelete(z)
      BY <2>4 DEF RestartInDelete, LoseMemory, Terminal
    <2> QED
      BY <1>2, <2>1, <2>2, <2>3, <2>4 DEF ScenarioStep
  <1>3. CASE Restart
    BY <1>3 DEF Restart, LoseMemory, Terminal
  <1>4. CASE UNCHANGED vars
    BY <1>4 DEF vars, files, memory
  <1> QED
    BY <1>1, <1>2, <1>3, <1>4 DEF Next

(* What _active_runs and run_metadata.json say of the end of a run differ    *)
(* only when a cancel request that was waiting for the subprocess returned   *)
(* after the run had ended: the status is then "cancelled" and the history   *)
(* keeps what happened, "completed" if the result was published.  (No write  *)
(* of the metadata of a failed run fails.)                                   *)
THEOREM StatusIsTruthful ==
  ASSUME "record" \notin Environment
  PROVE  Spec => []StatusAgreesWithHistory
  <1>1. Init => StatusAgreesWithHistory
    BY DEF Init, StatusAgreesWithHistory, StatusAgrees
  <1>2. TypeOK /\ Bookkeeping /\ StatusAgreesWithHistory /\ [Next]_vars
        => StatusAgreesWithHistory'
    BY NextStatusAgrees DEF StatusAgreesWithHistory
  <1> QED
    BY <1>1, <1>2, BookkeepingCorrect, PTL DEF Spec
=============================================================================
