------------------------ MODULE ExecutionMutexProofs ------------------------
(***************************************************************************)
(* Theorems about ExecutionMutex, for every number of processes, every     *)
(* timeout and every choice of the lock files that grow old.               *)
(***************************************************************************)
EXTENDS ExecutionMutex, TLAPS

----------------------------------------------------------------------------
\* A process that looks at an existing lock file has polls left.
Inv1 == TypeOK /\ \A p \in Procs : pc[p] = "look" => left[p] > 0

LEMMA InitInv1 == Init => Inv1
  <1> SUFFICES ASSUME Init PROVE Inv1
    OBVIOUS
  <1>1. name \in [Procs -> Names] /\ Timeout \in 0..Timeout
    BY MutexAssumption DEF Init
  <1>2. left \in [Procs -> 0..Timeout]
    BY <1>1 DEF Init
  <1>3. pc \in [Procs -> {"start"}] /\ \A p \in Procs : pc[p] # "look"
    BY DEF Init
  <1>4. /\ file \in [Names -> {NoProc}] /\ stale = {} /\ aged = FALSE
        /\ acquired = {} /\ logged = {}
    BY DEF Init
  <1> QED
    BY <1>1, <1>2, <1>3, <1>4 DEF Inv1, TypeOK, Acquiring

LEMMA NextInv1 == Inv1 /\ [Next]_vars => Inv1'
  <1> SUFFICES ASSUME Inv1, [Next]_vars PROVE Inv1'
    OBVIOUS
  <1> USE MutexAssumption DEF Inv1, TypeOK, Acquiring, GoTo
  <1>1. ASSUME NEW p \in Procs, Enter(p) PROVE Inv1'
    BY <1>1 DEF Enter
  <1>2. ASSUME NEW p \in Procs, TryCreate(p) PROVE Inv1'
    BY <1>2 DEF TryCreate, Create, Own
  <1>3. ASSUME NEW p \in Procs, Look(p) PROVE Inv1'
    BY <1>3 DEF Look
  <1>4. ASSUME NEW p \in Procs, Reap(p) PROVE Inv1'
    BY <1>4 DEF Reap, Unlink, Own
  <1>5. ASSUME NEW p \in Procs, GiveUp(p) PROVE Inv1'
    BY <1>5 DEF GiveUp
  <1>6. ASSUME NEW p \in Procs, Leave(p) PROVE Inv1'
    BY <1>6 DEF Leave
  <1>7. ASSUME NEW p \in Procs, Release(p) PROVE Inv1'
    BY <1>7 DEF Release, Unlink, Own
  <1>8. ASSUME NEW p \in Procs, Die(p) PROVE Inv1'
    BY <1>8 DEF Die
  <1>9. ASSUME NEW n \in Names, Age(n) PROVE Inv1'
    BY <1>9 DEF Age
  <1>10. CASE UNCHANGED vars
    BY <1>10 DEF vars
  <1>11. ASSUME NEW p \in Procs, CreateFails(p) PROVE Inv1'
    BY <1>11 DEF CreateFails, Logs, Create, Own
  <1>12. ASSUME NEW p \in Procs, PollFails(p) PROVE Inv1'
    BY <1>12 DEF PollFails, Logs
  <1>13. ASSUME NEW p \in Procs, ReleaseFails(p) PROVE Inv1'
    BY <1>13 DEF ReleaseFails, Logs
  <1> QED
    BY <1>1, <1>2, <1>3, <1>4, <1>5, <1>6, <1>7, <1>8, <1>9, <1>10, <1>11, <1>12,
       <1>13 DEF Next, Step, Fault

(* Every process stands at a point of acquire or release that the code has,  *)
(* and never polls more often than the timeout allows.                       *)
THEOREM MutexTypeCorrect == Spec => []TypeOK
  <1>1. Spec => []Inv1
    BY InitInv1, NextInv1, PTL DEF Spec
  <1>2. Inv1 => TypeOK
    BY DEF Inv1
  <1> QED
    BY <1>1, <1>2, PTL

----------------------------------------------------------------------------
\* Whoever is inside knows it, and a lock file bears its creator's name.
Inv2 ==
  /\ \A p \in Procs : pc[p] = "inside" => p \in acquired
  /\ \A n \in Names : ~Free(n) => Own(file[n]) = n
  /\ LockIsNotLeaked

LEMMA NextInv2 == TypeOK /\ Inv2 /\ [Next]_vars => Inv2'
  <1> SUFFICES ASSUME TypeOK, Inv2, [Next]_vars PROVE Inv2'
    OBVIOUS
  <1> USE MutexAssumption DEF Inv2, TypeOK, LockIsNotLeaked, Free, Own, GoTo
  <1>1. ASSUME NEW p \in Procs, Enter(p) PROVE Inv2'
    BY <1>1 DEF Enter
  <1>2. ASSUME NEW p \in Procs, TryCreate(p) PROVE Inv2'
    BY <1>2 DEF TryCreate, Create
  <1>3. ASSUME NEW p \in Procs, Look(p) PROVE Inv2'
    BY <1>3 DEF Look
  <1>4. ASSUME NEW p \in Procs, Reap(p) PROVE Inv2'
    BY <1>4 DEF Reap, Unlink
  <1>5. ASSUME NEW p \in Procs, GiveUp(p) PROVE Inv2'
    BY <1>5 DEF GiveUp
  <1>6. ASSUME NEW p \in Procs, Leave(p) PROVE Inv2'
    BY <1>6 DEF Leave
  <1>7. ASSUME NEW p \in Procs, Release(p) PROVE Inv2'
    BY <1>7 DEF Release, Unlink
  <1>8. ASSUME NEW p \in Procs, Die(p) PROVE Inv2'
    BY <1>8 DEF Die
  <1>9. ASSUME NEW n \in Names, Age(n) PROVE Inv2'
    BY <1>9 DEF Age
  <1>10. CASE UNCHANGED vars
    BY <1>10 DEF vars
  <1>11. ASSUME NEW p \in Procs, CreateFails(p) PROVE Inv2'
    BY <1>11 DEF CreateFails, Logs, Create
  <1>12. ASSUME NEW p \in Procs, PollFails(p) PROVE Inv2'
    BY <1>12 DEF PollFails, Logs
  <1>13. ASSUME NEW p \in Procs, ReleaseFails(p) PROVE Inv2'
    BY <1>13 DEF ReleaseFails, Logs
  <1> QED
    BY <1>1, <1>2, <1>3, <1>4, <1>5, <1>6, <1>7, <1>8, <1>9, <1>10, <1>11, <1>12,
       <1>13 DEF Next, Step, Fault

(* No lock file is leaked in silence: its creator is in the guarded block,   *)
(* or releasing it, or was killed, or has logged a failed file operation,    *)
(* however stale locks are removed in between.                               *)
THEOREM LocksAreNotLeaked == Spec => []LockIsNotLeaked
  <1>1. Init => Inv2
    BY DEF Init, Inv2, LockIsNotLeaked, Free
  <1>2. Inv2 => LockIsNotLeaked
    BY DEF Inv2
  <1> QED
    BY <1>1, <1>2, NextInv2, MutexTypeCorrect, PTL DEF Spec

----------------------------------------------------------------------------
\* As long as no lock file has been an hour old, the file of a name is that of the
\* process of that name that is inside or releasing, and every other living process
\* knows that it has acquired nothing.
Inv3 ==
  ~aged =>
    /\ stale = {}
    /\ \A p \in Procs :
         /\ pc[p] # "reap"
         /\ pc[p] \in {"inside", "release"} => p \in acquired /\ file[Own(p)] = p
         /\ p \in acquired => pc[p] \in {"inside", "release", "dead"}

LEMMA NextInv3 == TypeOK /\ Inv3 /\ [Next]_vars => Inv3'
  <1> SUFFICES ASSUME TypeOK, Inv3, [Next]_vars PROVE Inv3'
    OBVIOUS
  <1> USE MutexAssumption DEF Inv3, TypeOK, Free, Own, GoTo
  <1>1. ASSUME NEW p \in Procs, Enter(p) PROVE Inv3'
    BY <1>1 DEF Enter
  <1>2. ASSUME NEW p \in Procs, TryCreate(p) PROVE Inv3'
    BY <1>2 DEF TryCreate, Create
  <1>3. ASSUME NEW p \in Procs, Look(p) PROVE Inv3'
    BY <1>3 DEF Look
  <1>4. ASSUME NEW p \in Procs, Reap(p) PROVE Inv3'
    BY <1>4 DEF Reap
  <1>5. ASSUME NEW p \in Procs, GiveUp(p) PROVE Inv3'
    BY <1>5 DEF GiveUp
  <1>6. ASSUME NEW p \in Procs, Leave(p) PROVE Inv3'
    BY <1>6 DEF Leave
  <1>7. ASSUME NEW p \in Procs, Release(p) PROVE Inv3'
    BY <1>7 DEF Release, Unlink
  <1>8. ASSUME NEW p \in Procs, Die(p) PROVE Inv3'
    BY <1>8 DEF Die
  <1>9. ASSUME NEW n \in Names, Age(n) PROVE Inv3'
    BY <1>9 DEF Age
  <1>10. CASE UNCHANGED vars
    BY <1>10 DEF vars
  <1>11. ASSUME NEW p \in Procs, CreateFails(p) PROVE Inv3'
    BY <1>11 DEF CreateFails, Logs, Create
  <1>12. ASSUME NEW p \in Procs, PollFails(p) PROVE Inv3'
    BY <1>12 DEF PollFails, Logs
  <1>13. ASSUME NEW p \in Procs, ReleaseFails(p) PROVE Inv3'
    BY <1>13 DEF ReleaseFails, Logs
  <1> QED
    BY <1>1, <1>2, <1>3, <1>4, <1>5, <1>6, <1>7, <1>8, <1>9, <1>10, <1>11, <1>12,
       <1>13 DEF Next, Step, Fault

LEMMA FreshInvariant == Spec => []Inv3
  <1>1. Init => Inv3
    BY DEF Init, Inv3
  <1> QED
    BY <1>1, NextInv3, MutexTypeCorrect, PTL DEF Spec

\* A process that is inside has its lock file in place, and shares the inside with
\* no process of the same lock name.
ExclusiveByName ==
  /\ \A p \in Procs : pc[p] = "inside" => file[Own(p)] = p
  /\ \A p, q \in Procs :
       pc[p] = "inside" /\ pc[q] = "inside" /\ Own(p) = Own(q) => p = q

(* However the processes name their lock files, as long as none gets an hour *)
(* old those that agree on a name exclude each other: who takes another name *)
(* never gets in their way, and what the hashed names of the pipeline lose   *)
(* is exclusion between names only.                                          *)
THEOREM NamesExclude == Spec => [](~aged => ExclusiveByName)
  <1>1. Inv3 => (~aged => ExclusiveByName)
    BY DEF Inv3, ExclusiveByName
  <1> QED
    BY <1>1, FreshInvariant, PTL

\* The names of the lock files never change.
LEMMA NamesStay == Spec => [](name \in Namings)
  <1>1. Init => name \in Namings
    BY DEF Init
  <1>2. name \in Namings /\ [Next]_vars => (name \in Namings)'
    BY DEF Next, Step, Fault, CreateFails, PollFails, ReleaseFails, Enter, TryCreate, Look, Reap, GiveUp, Leave, Release, Die,
           Age, vars
  <1> QED
    BY <1>1, <1>2, PTL DEF Spec

(* Processes that use the same lock name exclude each other as long as no    *)
(* lock file gets an hour old, whoever gives up, leaves or is killed.        *)
THEOREM FreshLocksExclude ==
  ASSUME \A f \in Namings : \A p, q \in Procs : f[p] = f[q]
  PROVE  Spec => []ExclusiveWhileFresh
  <1>1. Inv3 /\ name \in Namings => ExclusiveWhileFresh
    BY DEF Inv3, ExclusiveWhileFresh, MutualExclusion, Own
  <1> QED
    BY <1>1, FreshInvariant, NamesStay, PTL

----------------------------------------------------------------------------
\* A process that will not be inside any more.
Past(p) == pc[p] \in {"outside", "gone", "dead"}

\* Only orphans grow old: what is stale was left by a process that is past, and a
\* process removes a stale file only when another one is.
OrphansOnly ==
  /\ \A n \in stale : ~Free(n) /\ Past(file[n])
  /\ \A n \in Names : ~Free(n) => pc[file[n]] \in {"inside", "release"} \/ Past(file[n])
  /\ \A p \in Procs : pc[p] = "reap" => \E d \in Procs : d # p /\ Past(d)
  /\ \A p \in Procs : pc[p] \in {"inside", "release"} => file[Own(p)] = p
  /\ \A p \in acquired : pc[p] \in {"inside", "release", "dead"}

LEMMA NextOrphansOnly ==
  ASSUME Ageing \subseteq {"orphan"},
         \A p, q, d \in Procs : p = q \/ q = d \/ p = d
  PROVE  TypeOK /\ OrphansOnly /\ [Next]_vars => OrphansOnly'
  <1> SUFFICES ASSUME TypeOK, OrphansOnly, [Next]_vars PROVE OrphansOnly'
    OBVIOUS
  <1> USE MutexAssumption DEF OrphansOnly, Past, TypeOK, Free, Own, GoTo
  <1>1. ASSUME NEW p \in Procs, Enter(p) PROVE OrphansOnly'
    BY <1>1 DEF Enter
  <1>2. ASSUME NEW p \in Procs, TryCreate(p) PROVE OrphansOnly'
    BY <1>2 DEF TryCreate, Create
  <1>3. ASSUME NEW p \in Procs, Look(p) PROVE OrphansOnly'
    <2>1. Own(p) \in stale => Past(file[Own(p)]) /\ file[Own(p)] \in Procs
      BY DEF OrphansOnly
    <2> QED
      BY <1>3, <2>1 DEF Look
  <1>4. ASSUME NEW p \in Procs, Reap(p) PROVE OrphansOnly'
    \* Whoever is inside would be a third process.
    <2>1. PICK d \in Procs : d # p /\ Past(d)
      BY <1>4 DEF Reap
    <2>2. \A q \in Procs : pc[q] \notin {"inside", "release"}
      BY <1>4, <2>1 DEF Reap
    <2> QED
      BY <1>4, <2>2 DEF Reap, Unlink
  <1>5. ASSUME NEW p \in Procs, GiveUp(p) PROVE OrphansOnly'
    BY <1>5 DEF GiveUp
  <1>6. ASSUME NEW p \in Procs, Leave(p) PROVE OrphansOnly'
    BY <1>6 DEF Leave
  <1>7. ASSUME NEW p \in Procs, Release(p) PROVE OrphansOnly'
    BY <1>7 DEF Release, Unlink
  <1>8. ASSUME NEW p \in Procs, Die(p) PROVE OrphansOnly'
    BY <1>8 DEF Die
  <1>9. ASSUME NEW n \in Names, Age(n) PROVE OrphansOnly'
    BY <1>9 DEF Age
  <1>10. CASE UNCHANGED vars
    BY <1>10 DEF vars
  <1>11. ASSUME NEW p \in Procs, CreateFails(p) PROVE OrphansOnly'
    BY <1>11 DEF CreateFails, Logs, Create
  <1>12. ASSUME NEW p \in Procs, PollFails(p) PROVE OrphansOnly'
    BY <1>12 DEF PollFails, Logs
  <1>13. ASSUME NEW p \in Procs, ReleaseFails(p) PROVE OrphansOnly'
    BY <1>13 DEF ReleaseFails, Logs
  <1> QED
    BY <1>1, <1>2, <1>3, <1>4, <1>5, <1>6, <1>7, <1>8, <1>9, <1>10, <1>11, <1>12,
       <1>13 DEF Next, Step, Fault

(* Two processes that use the same lock name exclude each other, as long as  *)
(* neither stays inside for an hour: the lock file that a process left when  *)
(* it was killed, or could not remove it, is removed by the other one and by *)
(* nobody else.  With a third process this is no longer so, since two of     *)
(* them may see the same stale file and the second one removes what the      *)
(* first one has created.                                                    *)
THEOREM TwoProcessesExclude ==
  ASSUME Ageing \subseteq {"orphan"},
         \A p, q, d \in Procs : p = q \/ q = d \/ p = d,
         \A f \in Namings : \A p, q \in Procs : f[p] = f[q]
  PROVE  Spec => []MutualExclusion
  <1>1. Init => OrphansOnly
    BY DEF Init, OrphansOnly, Free
  <1>2. TypeOK /\ OrphansOnly /\ [Next]_vars => OrphansOnly'
    BY NextOrphansOnly
  <1>3. OrphansOnly /\ name \in Namings => MutualExclusion
    BY DEF OrphansOnly, MutualExclusion, Own
  <1> QED
    BY <1>1, <1>2, <1>3, NamesStay, MutexTypeCorrect, PTL DEF Spec

(* Without aged locks, processes that use the same lock name exclude each    *)
(* other whatever their number.                                              *)
THEOREM MutexExcludes ==
  ASSUME Ageing = {},
         \A f \in Namings : \A p, q \in Procs : f[p] = f[q]
  PROVE  Spec => []MutualExclusion
  <1>1. Init => ~aged
    BY DEF Init
  <1>2. ~aged /\ [Next]_vars => (~aged)'
    BY DEF Next, Step, Fault, CreateFails, PollFails, ReleaseFails, Enter, TryCreate, Look, Reap, GiveUp, Leave, Release, Die,
           Age, vars
  <1>3. ~aged /\ ExclusiveWhileFresh => MutualExclusion
    BY DEF ExclusiveWhileFresh
  <1> QED
    BY <1>1, <1>2, <1>3, FreshLocksExclude, PTL DEF Spec
=============================================================================
