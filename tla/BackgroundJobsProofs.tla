------------------------- MODULE BackgroundJobsProofs -------------------------
(* Proofs about BackgroundJobs: its type, that builds do not overlap, that     *)
(* locks and directories are held by jobs at work, that live jobs stay known,  *)
(* and that what is forgotten or removed made place for enough newer ones.     *)
EXTENDS BackgroundJobs, FiniteSetTheorems, TLAPS

----------------------------------------------------------------------------
(* Types *)

Threads == {"queued", "running", "named", "pruning", "pruned", "building",
            "exported", "recorded", "ended", "done"}

\* What is known of a job when it is registered: everything known of the jobs
\* before it, and nothing else.
LEMMA RegisterAdds ==
  ASSUME TypeOK, NEW r \in Calibrations \cup Searches, Register(r)
  PROVE  /\ count \in Nat /\ count' = count + 1 /\ count' \in 0..MaxJobs
         /\ Known' = Known \cup {count + 1} /\ count + 1 \notin Known
         /\ request' \in [Known' -> Calibrations \cup Searches]
         /\ thread' \in [Known' -> Threads]
         /\ status' \in [Known' -> Statuses \cup {"lost"}]
         /\ result' \in [Known' -> BOOLEAN]
         /\ copy' \in [Known' -> 0..clock]
         /\ excess' \in [Known' -> SUBSET (0..clock)]
         /\ \A j \in Known : /\ request'[j] = request[j] /\ thread'[j] = thread[j]
                             /\ status'[j] = status[j] /\ result'[j] = result[j]
                             /\ copy'[j] = copy[j] /\ excess'[j] = excess[j]
         /\ excess'[count + 1] = {}
         /\ request'[count + 1] = r /\ thread'[count + 1] = "queued"
         /\ status'[count + 1] = "queued"
<1>1. count \in Nat /\ MaxJobs \in Nat
  BY JobsAssumption DEF TypeOK
<1>2. count' = count + 1 /\ count' \in 0..MaxJobs
  BY <1>1 DEF Register, TypeOK
<1>3. Known' = Known \cup {count + 1} /\ count + 1 \notin Known
  BY <1>1, <1>2 DEF Known
<1>4. clock \in Nat
  BY JobsAssumption DEF TypeOK
<1>5. request' \in [Known' -> Calibrations \cup Searches]
  BY <1>3 DEF Register, TypeOK
<1>6. thread' \in [Known' -> Threads]
  BY <1>3 DEF Register, TypeOK, Threads
<1>7. status' \in [Known' -> Statuses \cup {"lost"}]
  BY <1>3 DEF Register, TypeOK, Statuses
<1>8. result' \in [Known' -> BOOLEAN]
  BY <1>3 DEF Register, TypeOK
<1>9. copy' \in [Known' -> 0..clock]
  BY <1>3, <1>4 DEF Register, TypeOK
<1>10. \A j \in Known : /\ request'[j] = request[j] /\ thread'[j] = thread[j]
                        /\ status'[j] = status[j] /\ result'[j] = result[j]
                        /\ copy'[j] = copy[j] /\ excess'[j] = excess[j]
  BY DEF Register
<1>12. /\ excess' \in [Known' -> SUBSET (0..clock)]
       /\ excess'[count + 1] = {}
  BY <1>3 DEF Register, TypeOK
<1>11. /\ request'[count + 1] = r /\ thread'[count + 1] = "queued"
       /\ status'[count + 1] = "queued"
  BY <1>3 DEF Register
<1> QED
  BY <1>1, <1>2, <1>3, <1>5, <1>6, <1>7, <1>8, <1>9, <1>10, <1>11, <1>12

\* A registration keeps the types.
LEMMA RegisterTyped ==
  ASSUME TypeOK, NEW r \in Calibrations \cup Searches, Register(r),
         posting' \subseteq Searches, reserved' \subseteq Directories,
         leaked' \subseteq Directories
  PROVE  TypeOK'
<1>1. /\ count' \in 0..MaxJobs /\ count' = count + 1 /\ count \in Nat
      /\ Known' = Known \cup {count + 1} /\ count + 1 \notin Known
      /\ request' \in [Known' -> Calibrations \cup Searches]
      /\ thread' \in [Known' -> Threads]
      /\ status' \in [Known' -> Statuses \cup {"lost"}]
      /\ result' \in [Known' -> BOOLEAN] /\ copy' \in [Known' -> 0..clock]
      /\ excess' \in [Known' -> SUBSET (0..clock)]
      /\ \A j \in Known : status'[j] = status[j]
      /\ status'[count + 1] = "queued"
  BY RegisterAdds
<1>2. jobs' \subseteq jobs \cup {count + 1}
  BY DEF Register
<1>3. jobs' \subseteq Known' /\ \A j \in jobs' : status'[j] \in Statuses
  BY <1>1, <1>2 DEF TypeOK, Statuses
<1>4. holder' \in [Databases -> 0..count']
  BY <1>1 DEF Register, TypeOK
<1>5. contents' \in [Directories -> SUBSET Known']
  BY <1>1 DEF Register, TypeOK
<1>6. /\ copies' \subseteq 0..clock' /\ clock' \in 1..MaxSecond
      /\ restarts' \in 0..MaxRestarts /\ clock' = clock
  BY DEF Register, TypeOK
<1>7. /\ removed' \subseteq 0..clock' /\ spared' \subseteq 0..clock'
      /\ overlap' \subseteq Known'
  BY <1>1 DEF Register, TypeOK
<1> QED
  BY <1>1, <1>3, <1>4, <1>5, <1>6, <1>7 DEF TypeOK, Threads

\* What an update of the registry does to a job, and leaves of the others.
LEMMA UpdateTyped ==
  ASSUME TypeOK, NEW j \in Known, NEW s, j \in jobs => s \in Statuses,
         NEW r \in BOOLEAN, Update(j, s, r), UNCHANGED registry
  PROVE  /\ Known' = Known /\ jobs' = jobs /\ count' = count
         /\ request' = request
         /\ status' \in [Known' -> Statuses \cup {"lost"}]
         /\ \A k \in jobs' : status'[k] \in Statuses
         /\ result' \in [Known' -> BOOLEAN]
         /\ \A k \in Known : k # j => status'[k] = status[k] /\ result'[k] = result[k]
         /\ j \in jobs => status'[j] = s /\ result'[j] = r
         /\ j \notin jobs => UNCHANGED <<status, result>>
BY DEF TypeOK, Update, registry, Known

\* A step of a thread moves that thread alone.
LEMMA StepTyped ==
  ASSUME TypeOK, NEW j \in Known, NEW from, NEW to \in Threads,
         Step(j, from, to), UNCHANGED count
  PROVE  /\ thread' \in [Known' -> Threads] /\ Known' = Known
         /\ thread[j] = from /\ thread'[j] = to
         /\ \A k \in Known : k # j => thread'[k] = thread[k]
BY DEF TypeOK, Step, Threads, Known

\* What a thread does to the copies keeps their types.
LEMMA SeedsTyped ==
  ASSUME TypeOK, NEW j \in Known, Run(j)
  PROVE  /\ copy' \in [Known -> 0..clock] /\ copies' \subseteq 0..clock
         /\ excess' \in [Known -> SUBSET (0..clock)]
         /\ removed' \subseteq 0..clock /\ spared' \subseteq 0..clock
         /\ overlap' \subseteq Known
<1>1. /\ copy \in [Known -> 0..clock] /\ copies \subseteq 0..clock
      /\ excess \in [Known -> SUBSET (0..clock)]
      /\ removed \subseteq 0..clock /\ spared \subseteq 0..clock
      /\ overlap \subseteq Known /\ clock \in 0..clock
  BY JobsAssumption DEF TypeOK
<1>2. CASE Name(j)
  BY <1>1, <1>2 DEF Name
<1>3. CASE FindExcess(j)
  BY <1>1, <1>3 DEF FindExcess
<1>4. CASE Prune(j)
  BY <1>1, <1>4 DEF Prune
<1>5. CASE Seed(j) \/ Fail(j)
  <2>1. copies' \in {copies, copies \cup {copy[j]}}
    BY <1>5 DEF Seed, Fail
  <2> QED
    BY <1>1, <1>5, <2>1 DEF Seed, Fail
<1>6. CASE \/ Begin(j) \/ Resolve(j) \/ Evaluate(j) \/ Export(j)
           \/ Record(j) \/ Complete(j) \/ Finish(j)
  <2>1. UNCHANGED seeds
    BY <1>6 DEF Begin, Resolve, Evaluate, Export, Record, Complete, Finish, files
  <2> QED
    BY <1>1, <2>1 DEF seeds
<1> QED
  BY <1>2, <1>3, <1>4, <1>5, <1>6 DEF Run

\* A step of a thread keeps the types.
LEMMA RunTyped ==
  ASSUME TypeOK, NEW j \in Known, Run(j)
  PROVE  TypeOK'
<1>0. /\ clock \in Nat /\ count \in Nat /\ j \in 0..count /\ 0 \in 0..count
      /\ clock \in 1..clock
      /\ thread \in [Known -> Threads]
  BY JobsAssumption DEF TypeOK, Known, Threads
<1>s. /\ copy' \in [Known -> 0..clock] /\ copies' \subseteq 0..clock
      /\ excess' \in [Known -> SUBSET (0..clock)]
      /\ removed' \subseteq 0..clock /\ spared' \subseteq 0..clock
      /\ overlap' \subseteq Known
  BY SeedsTyped
<1>1. CASE Begin(j)
  <2>1. UNCHANGED <<registry, claims, files, clock, restarts>>
    BY <1>1 DEF Begin
  <2>2. thread' \in [Known' -> Threads] /\ Known' = Known
    BY <1>1, <2>1, StepTyped DEF Begin, Threads, registry
  <2>3. /\ status' \in [Known' -> Statuses \cup {"lost"}]
        /\ \A k \in jobs' : status'[k] \in Statuses
        /\ result' \in [Known' -> BOOLEAN]
    <3>1. "running" \in Statuses
      BY DEF Statuses
    <3> QED
      BY <1>1, <2>1, <3>1, UpdateTyped DEF Begin
  <2>4. holder' \in [Databases -> 0..count']
    BY <1>0, <1>1, <2>1 DEF Begin, TypeOK, registry
  <2> QED
    BY <1>s, <2>1, <2>2, <2>3, <2>4
       DEF TypeOK, registry, claims, files, Threads, Known
<1>2. CASE Resolve(j) \/ Name(j) \/ FindExcess(j) \/ Prune(j) \/ Seed(j)
  <2>1. UNCHANGED <<registry, status, result, holder, claims, contents, clock,
                    restarts>>
    BY <1>2 DEF Resolve, Name, FindExcess, Prune, Seed, files
  <2>2. thread' \in [Known' -> Threads] /\ Known' = Known
    BY <1>2, <2>1, StepTyped
       DEF Resolve, Name, FindExcess, Prune, Seed, Threads, registry
  <2> QED
    BY <1>s, <2>1, <2>2 DEF TypeOK, registry, claims, Threads, Known
<1>3. CASE Evaluate(j) \/ Export(j)
  <2>1. UNCHANGED <<registry, status, result, holder, claims, seeds, clock,
                    restarts>>
    BY <1>3 DEF Evaluate, Export
  <2>2. thread' \in [Known' -> Threads] /\ Known' = Known
    BY <1>3, <2>1, StepTyped DEF Evaluate, Export, Threads, registry
  <2>3. contents' \in [Directories -> SUBSET Known]
    BY <1>3 DEF Evaluate, Export, TypeOK, IsSearch, Searches
  <2> QED
    BY <1>s, <2>1, <2>2, <2>3 DEF TypeOK, registry, claims, Threads, Known
<1>4. CASE Record(j) \/ Complete(j) \/ Fail(j)
  <2>1. UNCHANGED <<registry, holder, claims, contents, clock, restarts>>
    BY <1>4 DEF Record, Complete, Fail, files
  <2>2. thread' \in [Known' -> Threads] /\ Known' = Known
    BY <1>4, <2>1, StepTyped DEF Record, Complete, Fail, Threads, registry
  <2>3. /\ status' \in [Known' -> Statuses \cup {"lost"}]
        /\ \A k \in jobs' : status'[k] \in Statuses
        /\ result' \in [Known' -> BOOLEAN]
    <3>1. result[j] \in BOOLEAN /\ (j \in jobs => status[j] \in Statuses)
      BY DEF TypeOK
    <3>2. {"completed", "failed"} \subseteq Statuses
      BY DEF Statuses
    <3>3. CASE Record(j)
      BY <2>1, <3>1, <3>3, UpdateTyped DEF Record
    <3>4. CASE Complete(j)
      BY <2>1, <3>1, <3>2, <3>4, UpdateTyped DEF Complete
    <3>5. CASE Fail(j)
      BY <2>1, <3>1, <3>2, <3>5, UpdateTyped DEF Fail
    <3> QED
      BY <1>4, <3>3, <3>4, <3>5
  <2> QED
    BY <1>s, <2>1, <2>2, <2>3 DEF TypeOK, registry, claims, files, Threads, Known
<1>5. CASE Finish(j)
  <2>1. UNCHANGED <<registry, status, result, posting, leaked, files, clock,
                    restarts>>
    BY <1>5 DEF Finish
  <2>2. thread' \in [Known' -> Threads] /\ Known' = Known
    BY <1>5, <2>1, StepTyped DEF Finish, Threads, registry
  <2>3. holder' \in [Databases -> 0..count]
    BY <1>0, <1>5 DEF Finish, Unlocked, TypeOK
  <2>4. reserved' \subseteq Directories
    BY <1>5 DEF Finish, TypeOK
  <2> QED
    BY <1>s, <2>1, <2>2, <2>3, <2>4
       DEF TypeOK, registry, files, Threads, Known
<1> QED
  BY <1>1, <1>2, <1>3, <1>4, <1>5 DEF Run

\* Every reachable state is typed: no step of a request, of a thread, of the clock
\* or of a restart leaves a value outside its set, in particular no status of a
\* registered job that clients do not know.
THEOREM JobsTypeCorrect == Spec => []TypeOK
<1>1. Init => TypeOK
  BY JobsAssumption DEF Init, TypeOK, Known, Statuses
<1>2. TypeOK /\ [Next]_vars => TypeOK'
  <2> SUFFICES ASSUME TypeOK, [Next]_vars
               PROVE  TypeOK'
    OBVIOUS
  <2>1. CASE PostCalibration
    BY <2>1, RegisterTyped DEF PostCalibration, claims, TypeOK
  <2>2. CASE Reserve
    BY <2>2 DEF Reserve, TypeOK, registry, files, seeds, Known, Targets, Searches
  <2>3. CASE Accept
    <3>1. PICK r \in posting : /\ Register(r)
                               /\ posting' = posting \ {r}
                               /\ UNCHANGED <<reserved, leaked>>
      BY <2>3 DEF Accept
    <3>2. r \in Calibrations \cup Searches
      BY DEF TypeOK
    <3> QED
      BY <3>1, <3>2, RegisterTyped DEF TypeOK
  <2>4. CASE Reject
    BY <2>4 DEF Reject, TypeOK, registry, files, seeds, Known
  <2>5. CASE Raise
    BY <2>5 DEF Raise, TypeOK, registry, files, seeds, Known, Targets, Searches
  <2>6. CASE \E j \in Known : Run(j)
    BY <2>6, RunTyped
  <2>7. CASE Tick
    BY <2>7, JobsAssumption DEF Tick, TypeOK, registry, claims, files, seeds,
                               Known
  <2>8. CASE Restart
    <3>1. /\ Pending \cap copies \subseteq 0..clock
          /\ Known' = Known
      BY <2>8 DEF Restart, TypeOK, Known
    <3>2. /\ spared' \subseteq 0..clock'
          /\ excess' \in [Known' -> SUBSET (0..clock')]
          /\ copies' \subseteq 0..clock' /\ removed' \subseteq 0..clock'
          /\ overlap' \subseteq Known'
      BY <2>8, <3>1 DEF Restart, TypeOK
    <3> HIDE DEF Pending
    <3> QED
      BY <2>8, <3>1, <3>2, JobsAssumption DEF Restart, TypeOK
  <2>9. CASE UNCHANGED vars
    BY <2>9 DEF vars, TypeOK, registry, claims, files, seeds, Known
  <2> QED
    BY <2>1, <2>2, <2>3, <2>4, <2>5, <2>6, <2>7, <2>8, <2>9 DEF Next
<1> QED
  BY <1>1, <1>2, PTL DEF Spec

----------------------------------------------------------------------------
(* The inductive invariant *)

\* The directories of a request, and whether it names a database.
DirsOf(r) == IF r \in Searches THEN Targets(r) ELSE {}
Names(r)  == r \notin Searches /\ r.database # Default

\* A job that has the lock of its database, if it needs one.
Inside == Threads \ {"queued", "done"}

\* The lock of a database and the jobs at work on it agree, both ways.
LockInv ==
  /\ LocksAreHeldByLiveJobs
  /\ \A j \in Known : Names(request[j]) /\ thread[j] \in Inside =>
       holder[request[j].database] = j

\* ReservationsAreInFlight, by elements.
InFlight ==
  \A p \in reserved :
    \/ p \in leaked
    \/ \E r \in posting : p \in Targets(r)
    \/ \E j \in Known : thread[j] # "done" /\ p \in DirsOf(request[j])

\* The directories of a search or of a request being handled are its own, and
\* reserved.
ClaimInv ==
  /\ InFlight
  /\ \A j \in Known : thread[j] # "done" => DirsOf(request[j]) \subseteq reserved
  /\ \A r \in posting : Targets(r) \subseteq reserved
  /\ \A j, k \in Known : j # k /\ thread[j] # "done" /\ thread[k] # "done" =>
       DirsOf(request[j]) \cap DirsOf(request[k]) = {}
  /\ \A j \in Known, r \in posting : thread[j] # "done" =>
       DirsOf(request[j]) \cap Targets(r) = {}
  /\ \A r, s \in posting : r # s => Targets(r) \cap Targets(s) = {}

\* A directory that is claimed holds nothing of another search.
FreshInv ==
  /\ \A p \in Directories : contents[p] = {} \/ \E j \in Known : contents[p] = {j}
  /\ \A j \in Known : thread[j] # "done" =>
       \A p \in DirsOf(request[j]) : contents[p] \subseteq {j}
  /\ \A r \in posting : \A p \in Targets(r) : contents[p] = {}

\* What is recorded of a job keeps up with its thread.
KnownInv ==
  /\ LiveJobsAreKnown
  /\ \A j \in Known : thread[j] = "recorded" => result[j]

JobsInv == LockInv /\ ClaimInv /\ FreshInv /\ KnownInv

LEMMA JobsInit == Init => JobsInv
<1> SUFFICES ASSUME Init PROVE JobsInv
  OBVIOUS
<1>1. Known = {}
  BY DEF Init, Known
<1> QED
  BY <1>1 DEF Init, JobsInv, LockInv, ClaimInv, FreshInv, KnownInv,
     LocksAreHeldByLiveJobs, InFlight, LiveJobsAreKnown

\* Both speak of what the specification calls Dirs and Explicit.
LEMMA RequestOnly ==
  /\ \A j : Dirs(j) = DirsOf(request[j])
  /\ \A j : Explicit(j) <=> Names(request[j])
BY DEF Dirs, DirsOf, Explicit, Names, IsSearch

----------------------------------------------------------------------------
(* Registration *)

LEMMA RegisterKeepsLocks ==
  ASSUME TypeOK, LockInv, NEW r \in Calibrations \cup Searches, Register(r)
  PROVE  LockInv'
<1>1. /\ Known' = Known \cup {count + 1} /\ count + 1 \notin Known
      /\ thread'[count + 1] = "queued" /\ count \in Nat
      /\ \A j \in Known : request'[j] = request[j] /\ thread'[j] = thread[j]
  BY RegisterAdds
<1>2. holder' = holder
  BY DEF Register
<1>3. \A d \in Databases : holder[d] # 0 => holder[d] \in Known
  BY <1>1 DEF TypeOK, Known
<1>4. LocksAreHeldByLiveJobs'
  BY <1>1, <1>2, <1>3 DEF LockInv, LocksAreHeldByLiveJobs
<1>5. \A j \in Known : Names(request'[j]) = Names(request[j])
  BY <1>1 DEF Names
<1> QED
  BY <1>1, <1>2, <1>4, <1>5 DEF LockInv, Inside

\* A request that is registered either claims nothing or was being handled with
\* its directories reserved.
LEMMA RegisterKeepsClaims ==
  ASSUME TypeOK, ClaimInv, FreshInv,
         NEW r \in Calibrations \cup Searches, Register(r),
         \/ r \notin Searches /\ UNCHANGED claims
         \/ /\ r \in posting /\ posting' = posting \ {r}
            /\ UNCHANGED <<reserved, leaked>>
  PROVE  ClaimInv' /\ FreshInv'
<1>1. /\ Known' = Known \cup {count + 1} /\ count + 1 \notin Known
      /\ thread'[count + 1] = "queued" /\ request'[count + 1] = r
      /\ \A j \in Known : request'[j] = request[j] /\ thread'[j] = thread[j]
  BY RegisterAdds
<1>2. contents' = contents /\ reserved' = reserved /\ leaked' = leaked
  BY DEF Register, claims
<1>3. \A j \in Known : DirsOf(request'[j]) = DirsOf(request[j])
  BY <1>1 DEF DirsOf
<1>4. DirsOf(request'[count + 1]) = IF r \in Searches THEN Targets(r) ELSE {}
  BY <1>1 DEF DirsOf
<1>5. posting' \subseteq posting /\ (r \notin Searches => posting' = posting)
  BY DEF claims, TypeOK
<1>6. r \in Searches => /\ r \in posting /\ posting' = posting \ {r}
                        /\ Targets(r) \subseteq reserved
                        /\ \A p \in Targets(r) : contents[p] = {}
                        /\ \A s \in posting' : Targets(r) \cap Targets(s) = {}
                        /\ \A j \in Known : thread[j] # "done" =>
                             DirsOf(request[j]) \cap Targets(r) = {}
  BY DEF ClaimInv, FreshInv
<1>7. InFlight'
  <2> SUFFICES ASSUME NEW p \in reserved, p \notin leaked,
                      \A s \in posting' : p \notin Targets(s)
               PROVE  \E k \in Known' : thread'[k] # "done" /\ p \in DirsOf(request'[k])
    BY <1>2 DEF InFlight
  <2>1. CASE r \in Searches /\ p \in Targets(r)
    BY <1>1, <1>4, <2>1
  <2>2. CASE ~(r \in Searches /\ p \in Targets(r))
    <3>1. \A s \in posting : p \notin Targets(s)
      BY <1>5, <1>6, <2>2
    <3>2. PICK k \in Known : thread[k] # "done" /\ p \in DirsOf(request[k])
      BY <3>1 DEF ClaimInv, InFlight
    <3> QED
      BY <1>1, <1>3, <3>2
  <2> QED
    BY <2>1, <2>2
<1>8. \A j \in Known' : thread'[j] # "done" => DirsOf(request'[j]) \subseteq reserved'
  BY <1>1, <1>2, <1>3, <1>4, <1>6 DEF ClaimInv
<1>9. \A j, k \in Known' : j # k /\ thread'[j] # "done" /\ thread'[k] # "done" =>
        DirsOf(request'[j]) \cap DirsOf(request'[k]) = {}
  <2>1. \A j \in Known : thread[j] # "done" => DirsOf(request'[j]) \cap DirsOf(request'[count + 1]) = {}
    BY <1>3, <1>4, <1>6
  <2>2. \A j, k \in Known : j # k /\ thread[j] # "done" /\ thread[k] # "done" =>
          DirsOf(request'[j]) \cap DirsOf(request'[k]) = {}
    BY <1>3 DEF ClaimInv
  <2> QED
    BY <1>1, <2>1, <2>2
<1>10. \A j \in Known', s \in posting' : thread'[j] # "done" =>
         DirsOf(request'[j]) \cap Targets(s) = {}
  BY <1>1, <1>3, <1>4, <1>5, <1>6 DEF ClaimInv
<1>11. /\ \A s \in posting' : Targets(s) \subseteq reserved'
       /\ \A s, t \in posting' : s # t => Targets(s) \cap Targets(t) = {}
  BY <1>2, <1>5 DEF ClaimInv
<1>12. ClaimInv'
  BY <1>7, <1>8, <1>9, <1>10, <1>11 DEF ClaimInv, Targets
<1>13. \A j \in Known' : thread'[j] # "done" =>
         \A p \in DirsOf(request'[j]) : contents'[p] \subseteq {j}
  <2>1. \A p \in DirsOf(request'[count + 1]) : contents'[p] \subseteq {count + 1}
    BY <1>2, <1>4, <1>6
  <2>2. \A j \in Known : thread[j] # "done" =>
          \A p \in DirsOf(request'[j]) : contents'[p] \subseteq {j}
    BY <1>2, <1>3 DEF FreshInv
  <2> QED
    BY <1>1, <2>1, <2>2
<1>14. FreshInv'
  BY <1>1, <1>2, <1>5, <1>13 DEF FreshInv, Targets
<1> QED
  BY <1>12, <1>14

\* Only finished jobs are pruned.
LEMMA RegisterKeepsKnown ==
  ASSUME TypeOK, KnownInv, NEW r \in Calibrations \cup Searches, Register(r)
  PROVE  KnownInv'
<1>1. /\ Known' = Known \cup {count + 1} /\ count + 1 \notin Known
      /\ thread'[count + 1] = "queued" /\ status'[count + 1] = "queued"
      /\ \A j \in Known : /\ thread'[j] = thread[j] /\ status'[j] = status[j]
                          /\ result'[j] = result[j]
  BY RegisterAdds
<1>2. \A j \in Known : j \in jobs /\ ~Finished(j) => j \in jobs'
  BY DEF Register, Pruned
<1>3. count + 1 \in jobs' /\ jobs' \ {count + 1} \subseteq jobs
  BY DEF Register
<1> QED
  BY <1>1, <1>2, <1>3 DEF KnownInv, LiveJobsAreKnown, Finished

----------------------------------------------------------------------------
(* Requests, the clock and restarts *)

LEMMA ReserveKeeps ==
  ASSUME TypeOK, JobsInv, Reserve
  PROVE  JobsInv'
<1>1. PICK r \in Searches :
        /\ Targets(r) \cap reserved = {}
        /\ \A p \in Targets(r) : contents[p] = {}
        /\ reserved' = reserved \cup Targets(r)
        /\ posting' = posting \cup {r}
  BY DEF Reserve
<1>2. UNCHANGED <<registry, thread, status, result, holder, leaked, files>>
  BY DEF Reserve
<1>3. LockInv'
  BY <1>2 DEF JobsInv, LockInv, LocksAreHeldByLiveJobs, Names, registry, Known
<1>4. \A j \in Known : thread[j] # "done" =>
        DirsOf(request[j]) \cap Targets(r) = {}
  BY <1>1 DEF JobsInv, ClaimInv
<1>5. \A s \in posting : Targets(s) \cap Targets(r) = {}
  BY <1>1 DEF JobsInv, ClaimInv
<1>6. ClaimInv'
  BY <1>1, <1>2, <1>4, <1>5 DEF JobsInv, ClaimInv, InFlight, Known, registry
<1>7. FreshInv'
  BY <1>1, <1>2 DEF JobsInv, FreshInv, Known, registry, files
<1>8. KnownInv'
  BY <1>2 DEF JobsInv, KnownInv, LiveJobsAreKnown, Finished, Known, registry
<1> QED
  BY <1>3, <1>6, <1>7, <1>8 DEF JobsInv

\* A request that is refused gives back what it reserved; one that raises leaves
\* it behind.
LEMMA RefuseKeeps ==
  ASSUME TypeOK, JobsInv, Reject \/ Raise
  PROVE  JobsInv'
<1>1. PICK r \in posting :
        /\ posting' = posting \ {r}
        /\ \/ reserved' = reserved \ Targets(r) /\ leaked' = leaked
           \/ reserved' = reserved /\ leaked' = leaked \cup Targets(r)
  BY DEF Reject, Raise
<1>2. UNCHANGED <<registry, thread, status, result, holder, files>>
  BY DEF Reject, Raise
<1>3. LockInv'
  BY <1>2 DEF JobsInv, LockInv, LocksAreHeldByLiveJobs, Names, registry, Known
<1>4. /\ \A j \in Known : thread[j] # "done" =>
           DirsOf(request[j]) \cap Targets(r) = {}
      /\ \A s \in posting' : Targets(s) \cap Targets(r) = {}
  BY <1>1 DEF JobsInv, ClaimInv
<1>5. InFlight'
  BY <1>1, <1>2 DEF JobsInv, ClaimInv, InFlight, Known, registry
<1>6. ClaimInv'
  BY <1>1, <1>2, <1>4, <1>5 DEF JobsInv, ClaimInv, Known, registry
<1>7. FreshInv'
  BY <1>1, <1>2 DEF JobsInv, FreshInv, Known, registry, files
<1>8. KnownInv'
  BY <1>2 DEF JobsInv, KnownInv, LiveJobsAreKnown, Finished, Known, registry
<1> QED
  BY <1>3, <1>6, <1>7, <1>8 DEF JobsInv

LEMMA RestartKeeps ==
  ASSUME TypeOK, JobsInv, Restart
  PROVE  JobsInv'
<1>1. /\ thread' = [j \in Known |-> "done"] /\ Known' = Known /\ jobs' = {}
      /\ holder' = [d \in Databases |-> 0]
      /\ posting' = {} /\ reserved' = {} /\ contents' = contents
  BY DEF Restart, files, Known
<1>2. LockInv'
  BY <1>1 DEF LockInv, LocksAreHeldByLiveJobs, Inside
<1>3. ClaimInv'
  BY <1>1 DEF ClaimInv, InFlight
<1>4. FreshInv'
  BY <1>1 DEF JobsInv, FreshInv
<1>5. KnownInv'
  BY <1>1 DEF KnownInv, LiveJobsAreKnown
<1> QED
  BY <1>2, <1>3, <1>4, <1>5 DEF JobsInv

LEMMA IdleKeeps ==
  ASSUME JobsInv,
         UNCHANGED <<registry, thread, status, result, holder, claims, files>>
  PROVE  JobsInv'
BY DEF JobsInv, LockInv, LocksAreHeldByLiveJobs, ClaimInv, InFlight, FreshInv,
       KnownInv, LiveJobsAreKnown, Finished, registry, claims, files, Known, Names

----------------------------------------------------------------------------
(* Threads *)

\* A thread that moves without taking or releasing anything keeps the claims, and
\* the locks if it has its own already.
LEMMA MoveKeepsClaims ==
  ASSUME TypeOK, ClaimInv, NEW j \in Known, NEW from \in Threads \ {"done"},
         NEW to \in Threads \ {"done"}, Step(j, from, to),
         UNCHANGED <<registry, claims>>
  PROVE  ClaimInv'
<1>1. \A k \in Known : thread'[k] # "done" <=> thread[k] # "done"
  BY StepTyped DEF registry
<1>2. Known' = Known /\ request' = request
  BY DEF registry, Known
<1> QED
  BY <1>1, <1>2 DEF ClaimInv, InFlight, claims

LEMMA MoveKeepsLocks ==
  ASSUME TypeOK, LockInv, NEW j \in Known, NEW from \in Inside, NEW to \in Inside,
         Step(j, from, to), UNCHANGED <<registry, holder>>
  PROVE  LockInv'
<1>1. \A k \in Known : thread'[k] \in Inside <=> thread[k] \in Inside
  BY StepTyped DEF registry, Inside, Threads
<1>2. Known' = Known /\ request' = request
  BY DEF registry, Known
<1>3. \A d \in Databases : holder[d] # 0 => holder[d] \in Known
  BY JobsAssumption DEF TypeOK, Known
<1>4. \A k \in Known : thread[k] \in Inside <=> thread[k] \notin {"queued", "done"}
  BY DEF TypeOK, Inside, Threads
<1>5. \A k \in Known : thread'[k] \in Inside => thread'[k] \notin {"queued", "done"}
  BY DEF Inside
<1> QED
  BY <1>1, <1>2, <1>3, <1>4, <1>5 DEF LockInv, LocksAreHeldByLiveJobs

\* A thread that moves and writes nothing keeps the directories as they are.
LEMMA MoveKeepsFresh ==
  ASSUME TypeOK, FreshInv, NEW j \in Known, NEW from \in Threads \ {"done"},
         NEW to \in Threads, Step(j, from, to),
         UNCHANGED <<registry, posting, contents>>
  PROVE  FreshInv'
<1>1. \A k \in Known : thread'[k] # "done" => thread[k] # "done"
  BY StepTyped DEF registry
<1>2. Known' = Known /\ request' = request
  BY DEF registry, Known
<1> QED
  BY <1>1, <1>2 DEF FreshInv

\* A search writes into a directory of its own.
LEMMA WriteKeepsFresh ==
  ASSUME TypeOK, ClaimInv, FreshInv, NEW j \in Known,
         NEW from \in Threads \ {"done"}, NEW to \in Threads, Step(j, from, to),
         NEW p \in DirsOf(request[j]), p \in Directories,
         contents' = [contents EXCEPT ![p] = @ \cup {j}],
         UNCHANGED <<registry, posting>>
  PROVE  FreshInv'
<1>1. /\ thread[j] # "done"
      /\ \A k \in Known : thread'[k] # "done" => thread[k] # "done"
  BY StepTyped DEF registry
<1>2. Known' = Known /\ request' = request
  BY DEF registry, Known
<1>3. contents[p] \subseteq {j}
  BY <1>1 DEF FreshInv
<1>4. contents'[p] = {j} /\ \A q \in Directories : q # p => contents'[q] = contents[q]
  BY <1>3 DEF TypeOK
<1>5. \A k \in Known : k # j /\ thread[k] # "done" => p \notin DirsOf(request[k])
  BY <1>1 DEF ClaimInv
<1>6. \A r \in posting : p \notin Targets(r)
  BY <1>1 DEF ClaimInv
<1>7. /\ \A k \in Known : DirsOf(request[k]) \subseteq Directories
      /\ \A r \in posting : Targets(r) \subseteq Directories
  BY DEF TypeOK, DirsOf, Targets, Searches
<1>8. \A k \in Known' : thread'[k] # "done" =>
        \A q \in DirsOf(request'[k]) : contents'[q] \subseteq {k}
  <2> SUFFICES ASSUME NEW k \in Known, thread'[k] # "done",
                      NEW q \in DirsOf(request[k])
               PROVE  contents'[q] \subseteq {k}
    BY <1>2
  <2>1. thread[k] # "done" /\ q \in Directories /\ contents[q] \subseteq {k}
    BY <1>1, <1>7 DEF FreshInv
  <2>2. CASE q = p
    BY <1>4, <1>5, <2>1, <2>2
  <2>3. CASE q # p
    BY <1>4, <2>1, <2>3
  <2> QED
    BY <2>2, <2>3
<1>9. \A r \in posting' : \A q \in Targets(r) : contents'[q] = {}
  BY <1>4, <1>6, <1>7 DEF FreshInv
<1>10. \A q \in Directories : contents'[q] = {} \/ \E k \in Known' : contents'[q] = {k}
  BY <1>2, <1>4 DEF FreshInv
<1> QED
  BY <1>8, <1>9, <1>10 DEF FreshInv

\* A thread records what it has come to.
LEMMA RunKeepsKnown ==
  ASSUME TypeOK, KnownInv, NEW j \in Known, Run(j)
  PROVE  KnownInv'
<1>1. CASE Begin(j)
  <2>1. UNCHANGED registry /\ thread[j] = "queued" /\ Update(j, "running", FALSE)
    BY <1>1 DEF Begin, Step
  <2>2. /\ thread'[j] = "running"
        /\ \A k \in Known : k # j => thread'[k] = thread[k]
    BY <1>1, <2>1, StepTyped DEF Begin, Threads, registry
  <2>3. /\ Known' = Known /\ jobs' = jobs
        /\ \A k \in Known : k # j => status'[k] = status[k] /\ result'[k] = result[k]
        /\ j \in jobs => status'[j] = "running"
    BY <2>1, UpdateTyped DEF Statuses
  <2>4. j \in jobs
    BY <2>1 DEF KnownInv, LiveJobsAreKnown
  <2> QED
    BY <2>2, <2>3, <2>4 DEF KnownInv, LiveJobsAreKnown, Finished
<1>2. CASE \/ Resolve(j) \/ Name(j) \/ FindExcess(j) \/ Prune(j) \/ Seed(j)
           \/ Evaluate(j) \/ Export(j)
  <2>1. UNCHANGED <<registry, status, result>>
    BY <1>2 DEF Resolve, Name, FindExcess, Prune, Seed, Evaluate, Export
  <2>2. /\ thread[j] \notin {"ended", "done"} /\ thread'[j] # "recorded"
        /\ \A k \in Known : k # j => thread'[k] = thread[k]
    BY <1>2, <2>1, StepTyped
       DEF Resolve, Name, FindExcess, Prune, Seed, Evaluate, Export, Threads, registry
  <2> QED
    BY <2>1, <2>2 DEF KnownInv, LiveJobsAreKnown, Finished, registry, Known
<1>3. CASE Record(j)
  <2>1. UNCHANGED registry /\ Update(j, status[j], TRUE)
    BY <1>3 DEF Record
  <2>2. /\ thread[j] \notin {"ended", "done"}
        /\ \A k \in Known : k # j => thread'[k] = thread[k]
    BY <1>3, <2>1, StepTyped DEF Record, Threads, registry
  <2>3. j \in jobs /\ ~Finished(j) /\ status[j] \in Statuses
    BY <2>2 DEF KnownInv, LiveJobsAreKnown, TypeOK
  <2>4. /\ Known' = Known /\ jobs' = jobs
        /\ \A k \in Known : k # j => status'[k] = status[k] /\ result'[k] = result[k]
        /\ status'[j] = status[j] /\ result'[j] = TRUE
    BY <2>1, <2>3, UpdateTyped
  <2> QED
    BY <2>2, <2>3, <2>4 DEF KnownInv, LiveJobsAreKnown, Finished
<1>4. CASE Complete(j)
  <2>1. UNCHANGED registry /\ Update(j, "completed", result[j])
    BY <1>4 DEF Complete
  <2>2. /\ thread[j] = "recorded" /\ thread'[j] = "ended"
        /\ \A k \in Known : k # j => thread'[k] = thread[k]
    BY <1>4, <2>1, StepTyped DEF Complete, Threads, registry
  <2>3. j \in jobs /\ result[j] /\ result[j] \in BOOLEAN
    BY <2>2 DEF KnownInv, LiveJobsAreKnown, TypeOK
  <2>4. /\ Known' = Known /\ jobs' = jobs
        /\ \A k \in Known : k # j => status'[k] = status[k] /\ result'[k] = result[k]
        /\ result'[j] = result[j]
    BY <2>1, <2>3, UpdateTyped DEF Statuses
  <2> QED
    BY <2>2, <2>3, <2>4 DEF KnownInv, LiveJobsAreKnown, Finished
<1>5. CASE Fail(j)
  <2>1. UNCHANGED registry /\ Update(j, "failed", result[j])
    BY <1>5 DEF Fail
  <2>2. /\ thread[j] \notin {"ended", "done"} /\ thread'[j] = "ended"
        /\ \A k \in Known : k # j => thread'[k] = thread[k]
    BY <1>5, <2>1, StepTyped DEF Fail, Threads, registry
  <2>3. j \in jobs /\ result[j] \in BOOLEAN
    BY <2>2 DEF KnownInv, LiveJobsAreKnown, TypeOK
  <2>4. /\ Known' = Known /\ jobs' = jobs
        /\ \A k \in Known : k # j => status'[k] = status[k] /\ result'[k] = result[k]
        /\ status'[j] = "failed"
    BY <2>1, <2>3, UpdateTyped DEF Statuses
  <2> QED
    BY <2>2, <2>3, <2>4 DEF KnownInv, LiveJobsAreKnown, Finished
<1>6. CASE Finish(j)
  <2>1. UNCHANGED <<registry, status, result>>
    BY <1>6 DEF Finish
  <2>2. /\ thread'[j] = "done"
        /\ \A k \in Known : k # j => thread'[k] = thread[k]
    BY <1>6, <2>1, StepTyped DEF Finish, Threads, registry
  <2> QED
    BY <2>1, <2>2 DEF KnownInv, LiveJobsAreKnown, Finished, registry, Known
<1> QED
  BY <1>1, <1>2, <1>3, <1>4, <1>5, <1>6 DEF Run

\* A thread that has to wait for the lock of its database begins with it.
LEMMA BeginKeepsLocks ==
  ASSUME TypeOK, LockInv, NEW j \in Known, Begin(j)
  PROVE  LockInv'
<1>1. /\ UNCHANGED registry /\ Known' = Known /\ request' = request
      /\ thread[j] = "queued" /\ thread'[j] = "running"
      /\ \A k \in Known : k # j => thread'[k] = thread[k]
  BY StepTyped DEF Begin, Threads, registry, Known
<1>2. /\ j # 0
      /\ \A d \in Databases : holder[d] # 0 => holder[d] \in Known /\ holder[d] # j
  <2>1. /\ 0 \notin Known
        /\ \A d \in Databases : holder[d] # 0 => holder[d] \in Known
    BY JobsAssumption DEF TypeOK, Known
  <2>2. \A d \in Databases : holder[d] # 0 => holder[d] # j
    BY <1>1 DEF LockInv, LocksAreHeldByLiveJobs
  <2> QED
    BY <2>1, <2>2
<1>3. CASE Names(request[j])
  <2> DEFINE d == request[j].database
  <2>1. d \in Databases /\ request[j] = [database |-> d]
    BY <1>3 DEF Names, TypeOK, Calibrations
  <2>2. /\ holder[d] = 0 /\ holder'[d] = j
        /\ \A e \in Databases : e # d => holder'[e] = holder[e]
    BY <1>3, <2>1, RequestOnly DEF Begin, TypeOK
  <2>3. LocksAreHeldByLiveJobs'
    BY <1>1, <1>2, <2>1, <2>2 DEF LockInv, LocksAreHeldByLiveJobs
  <2>4. \A k \in Known : Names(request[k]) => request[k].database \in Databases
    BY DEF Names, TypeOK, Calibrations
  <2>5. ASSUME NEW k \in Known', Names(request'[k]), thread'[k] \in Inside
        PROVE  holder'[request'[k].database] = k
    <3>1. k \in Known /\ Names(request[k]) /\ request[k].database \in Databases
      BY <1>1, <2>4, <2>5
    <3>2. CASE k = j
      BY <1>1, <2>2, <3>2
    <3>3. CASE k # j
      <4>1. holder[request[k].database] = k
        BY <1>1, <2>5, <3>1, <3>3 DEF LockInv
      <4>2. k # 0
        BY JobsAssumption, <3>1 DEF TypeOK, Known
      <4> QED
        BY <1>1, <2>2, <3>1, <4>1, <4>2
    <3> QED
      BY <3>2, <3>3
  <2> QED
    BY <2>3, <2>5 DEF LockInv
<1>4. CASE ~Names(request[j])
  <2>1. holder' = holder
    BY <1>4, RequestOnly DEF Begin
  <2> QED
    BY <1>1, <1>2, <1>4, <2>1 DEF LockInv, LocksAreHeldByLiveJobs, Inside
<1> QED
  BY <1>3, <1>4

LEMMA FinishKeepsLocks ==
  ASSUME TypeOK, LockInv, NEW j \in Known, Finish(j)
  PROVE  LockInv'
<1>1. /\ Known' = Known /\ request' = request /\ thread'[j] = "done"
      /\ thread[j] = "ended"
      /\ \A k \in Known : k # j => thread'[k] = thread[k]
      /\ \A d \in Databases : holder'[d] = IF holder[d] = j THEN 0 ELSE holder[d]
  BY StepTyped DEF Finish, Threads, registry, Known, Unlocked
<1>2. \A d \in Databases : holder[d] # 0 => holder[d] \in Known
  BY JobsAssumption DEF TypeOK, Known
<1>3. \A k \in Known : Names(request[k]) => request[k].database \in Databases
  BY DEF Names, TypeOK, Calibrations
<1>4. LocksAreHeldByLiveJobs'
  BY <1>1, <1>2 DEF LockInv, LocksAreHeldByLiveJobs
<1> QED
  BY <1>1, <1>3, <1>4 DEF LockInv, Inside

\* What a thread releases at its end is its own.
LEMMA FinishKeepsClaims ==
  ASSUME TypeOK, ClaimInv, NEW j \in Known, Finish(j)
  PROVE  ClaimInv'
<1>1. /\ Known' = Known /\ request' = request /\ thread'[j] = "done"
      /\ thread[j] # "done"
      /\ \A k \in Known : k # j => thread'[k] = thread[k]
      /\ posting' = posting /\ leaked' = leaked
      /\ reserved' = reserved \ DirsOf(request[j])
  BY StepTyped, RequestOnly DEF Finish, Threads, registry, Known
<1>2. /\ \A k \in Known : k # j /\ thread[k] # "done" =>
           DirsOf(request[k]) \cap DirsOf(request[j]) = {}
      /\ \A r \in posting : DirsOf(request[j]) \cap Targets(r) = {}
  BY <1>1 DEF ClaimInv
<1>3. InFlight'
  BY <1>1 DEF ClaimInv, InFlight
<1>4. /\ \A k \in Known' : thread'[k] # "done" => DirsOf(request'[k]) \subseteq reserved'
      /\ \A r \in posting' : Targets(r) \subseteq reserved'
  BY <1>1, <1>2 DEF ClaimInv
<1> QED
  BY <1>1, <1>3, <1>4 DEF ClaimInv

LEMMA RunKeeps ==
  ASSUME TypeOK, JobsInv, NEW j \in Known, Run(j)
  PROVE  JobsInv'
<1>1. KnownInv'
  BY RunKeepsKnown DEF JobsInv
<1>2. CASE Begin(j)
  <2>1. LockInv'
    BY <1>2, BeginKeepsLocks DEF JobsInv
  <2>2. ClaimInv' /\ FreshInv'
    BY <1>2, MoveKeepsClaims, MoveKeepsFresh
       DEF JobsInv, Begin, Threads, claims, files
  <2> QED
    BY <1>1, <2>1, <2>2 DEF JobsInv
<1>3. CASE Resolve(j) \/ Name(j) \/ FindExcess(j) \/ Prune(j) \/ Seed(j)
  <2>1. PICK from \in {"running", "named", "pruning", "pruned"},
             to \in {"named", "pruning", "pruned", "building"} : Step(j, from, to)
    BY <1>3 DEF Resolve, Name, FindExcess, Prune, Seed
  <2>2. UNCHANGED <<registry, holder, claims, contents>>
    BY <1>3 DEF Resolve, Name, FindExcess, Prune, Seed, files
  <2> QED
    BY <1>1, <2>1, <2>2, MoveKeepsLocks, MoveKeepsClaims, MoveKeepsFresh
       DEF JobsInv, Threads, Inside, claims
<1>4. CASE Evaluate(j)
  <2>1. LockInv' /\ ClaimInv'
    BY <1>4, MoveKeepsLocks, MoveKeepsClaims DEF JobsInv, Evaluate, Threads, Inside
  <2>2. /\ request[j].database_dir \in DirsOf(request[j])
        /\ request[j].database_dir \in Directories
    BY <1>4 DEF Evaluate, IsSearch, DirsOf, Targets, Searches
  <2>3. FreshInv'
    BY <1>4, <2>2, WriteKeepsFresh DEF JobsInv, Evaluate, Threads, claims
  <2> QED
    BY <1>1, <2>1, <2>3 DEF JobsInv
<1>5. CASE Export(j)
  <2>1. LockInv' /\ ClaimInv'
    BY <1>5, MoveKeepsLocks, MoveKeepsClaims DEF JobsInv, Export, Threads, Inside
  <2>2. /\ request[j].output_dir \in DirsOf(request[j])
        /\ request[j].output_dir \in Directories
    BY <1>5 DEF Export, IsSearch, DirsOf, Targets, Searches
  <2>3. FreshInv'
    BY <1>5, <2>2, WriteKeepsFresh DEF JobsInv, Export, Threads, claims
  <2> QED
    BY <1>1, <2>1, <2>3 DEF JobsInv
<1>6. CASE Record(j) \/ Complete(j) \/ Fail(j)
  <2>1. PICK from \in {"running", "named", "pruned", "building", "exported",
                       "recorded"},
             to \in {"recorded", "ended"} : Step(j, from, to)
    BY <1>6 DEF Record, Complete, Fail
  <2>2. UNCHANGED <<registry, holder, claims, contents>>
    BY <1>6 DEF Record, Complete, Fail, files
  <2> QED
    BY <1>1, <2>1, <2>2, MoveKeepsLocks, MoveKeepsClaims, MoveKeepsFresh
       DEF JobsInv, Threads, Inside, claims
<1>7. CASE Finish(j)
  <2>1. LockInv' /\ ClaimInv'
    BY <1>7, FinishKeepsLocks, FinishKeepsClaims DEF JobsInv
  <2>2. FreshInv'
    BY <1>7, MoveKeepsFresh DEF JobsInv, Finish, Threads, files
  <2> QED
    BY <1>1, <2>1, <2>2 DEF JobsInv
<1> QED
  BY <1>2, <1>3, <1>4, <1>5, <1>6, <1>7 DEF Run

----------------------------------------------------------------------------
(* Theorems *)

\* The invariant holds in every reachable state.
THEOREM JobsInvariant == Spec => [](TypeOK /\ JobsInv)
<1>1. Init => JobsInv
  BY JobsInit
<1>2. TypeOK /\ TypeOK' /\ JobsInv /\ [Next]_vars => JobsInv'
  <2> SUFFICES ASSUME TypeOK, JobsInv, [Next]_vars
               PROVE  JobsInv'
    OBVIOUS
  <2>1. CASE PostCalibration
    <3>1. PICK r \in Calibrations : Register(r) /\ UNCHANGED claims
      BY <2>1 DEF PostCalibration
    <3>2. r \notin Searches
      BY DEF Calibrations, Searches
    <3> QED
      BY <3>1, <3>2, RegisterKeepsLocks, RegisterKeepsClaims, RegisterKeepsKnown
         DEF JobsInv
  <2>2. CASE Reserve
    BY <2>2, ReserveKeeps
  <2>3. CASE Accept
    <3>1. PICK r \in posting : /\ Register(r) /\ posting' = posting \ {r}
                               /\ UNCHANGED <<reserved, leaked>>
      BY <2>3 DEF Accept
    <3>2. r \in Searches
      BY DEF TypeOK
    <3> QED
      BY <3>1, <3>2, RegisterKeepsLocks, RegisterKeepsClaims, RegisterKeepsKnown
         DEF JobsInv
  <2>4. CASE Reject \/ Raise
    BY <2>4, RefuseKeeps
  <2>5. CASE \E j \in Known : Run(j)
    BY <2>5, RunKeeps
  <2>6. CASE Tick \/ UNCHANGED vars
    BY <2>6, IdleKeeps DEF Tick, vars
  <2>7. CASE Restart
    BY <2>7, RestartKeeps
  <2> QED
    BY <2>1, <2>2, <2>3, <2>4, <2>5, <2>6, <2>7 DEF Next
<1> QED
  BY <1>1, <1>2, JobsTypeCorrect, PTL DEF Spec

\* However many calibrations and searches run, two builds never work on one
\* explicit database or in one directory.
THEOREM BuildsStayApart == Spec => []BuildsDoNotOverlap
<1>1. TypeOK /\ JobsInv => BuildsDoNotOverlap
  <2> SUFFICES ASSUME TypeOK, JobsInv, NEW i \in Known, NEW j \in Known, i # j,
                      Building(i), Building(j)
               PROVE  /\ Names(request[i]) /\ Names(request[j]) =>
                           request[i].database # request[j].database
                      /\ DirsOf(request[i]) \cap DirsOf(request[j]) = {}
    BY RequestOnly DEF BuildsDoNotOverlap
  <2>1. /\ thread[i] \in Inside /\ thread[j] \in Inside
        /\ thread[i] # "done" /\ thread[j] # "done"
    BY DEF Building, Inside, Threads, TypeOK
  <2> QED
    BY <2>1 DEF JobsInv, LockInv, ClaimInv
<1> QED
  BY <1>1, JobsInvariant, PTL

\* Whoever holds the lock of a database is at work on it.
THEOREM LocksComeFree == Spec => []LocksAreHeldByLiveJobs
<1>1. JobsInv => LocksAreHeldByLiveJobs
  BY DEF JobsInv, LockInv
<1> QED
  BY <1>1, JobsInvariant, PTL

\* A reserved directory is one of a request or search that is not over, or was
\* left by a request that raised.
THEOREM ReservationsComeFree == Spec => []ReservationsAreInFlight
<1>1. JobsInv => ReservationsAreInFlight
  <2> DEFINE Posted == UNION {Targets(r) : r \in posting}
             AtWork == UNION {Dirs(j) : j \in {k \in Known : thread[k] # "done"}}
  <2> SUFFICES ASSUME JobsInv
               PROVE  reserved \subseteq Posted \cup AtWork \cup leaked
    BY DEF ReservationsAreInFlight
  <2>1. ASSUME NEW p \in reserved
        PROVE  p \in Posted \cup AtWork \cup leaked
    <3>1. \/ p \in leaked
          \/ \E r \in posting : p \in Targets(r)
          \/ \E j \in Known : thread[j] # "done" /\ p \in DirsOf(request[j])
      BY DEF JobsInv, ClaimInv, InFlight
    <3>2. ASSUME NEW r \in posting, p \in Targets(r)
          PROVE  p \in Posted
      BY <3>2
    <3>3. ASSUME NEW j \in Known, thread[j] # "done", p \in DirsOf(request[j])
          PROVE  p \in AtWork
      <4>1. p \in Dirs(j)
        BY <3>3, RequestOnly
      <4> QED
        BY <3>3, <4>1
    <3> QED
      BY <3>1, <3>2, <3>3
  <2> QED
    BY <2>1
<1> QED
  BY <1>1, JobsInvariant, PTL

\* No directory ever holds the work of two searches.
THEOREM SearchesStayApart == Spec => []OneSearchPerDirectory
<1>1. TypeOK /\ JobsInv => OneSearchPerDirectory
  <2> SUFFICES ASSUME JobsInv, NEW p \in Directories
               PROVE  Cardinality(contents[p]) <= 1
    BY DEF OneSearchPerDirectory
  <2>1. CASE contents[p] = {}
    <3>1. Cardinality({}) = 0
      BY FS_EmptySet
    <3> QED
      BY <2>1, <3>1
  <2>2. CASE \E j \in Known : contents[p] = {j}
    <3>1. PICK j \in Known : contents[p] = {j}
      BY <2>2
    <3>2. Cardinality({j}) = 1
      BY FS_Singleton
    <3> QED
      BY <3>1, <3>2
  <2> QED
    BY <2>1, <2>2 DEF JobsInv, FreshInv
<1> QED
  BY <1>1, JobsInvariant, PTL

\* A job that is not over can be polled, and what shows as completed has a result.
THEOREM LiveJobsStayKnown == Spec => []LiveJobsAreKnown
<1>1. JobsInv => LiveJobsAreKnown
  BY DEF JobsInv, KnownInv
<1> QED
  BY <1>1, JobsInvariant, PTL

----------------------------------------------------------------------------
(* What is forgotten and what is kept *)

\* Of a finite set of numbers: those above a number, and the N greatest.
Newer(S, c)  == {d \in S : d > c}
Newest(S, N) == {c \in S : Cardinality(Newer(S, c)) < N}

\* The number of greater elements tells the elements of a finite set apart, and
\* is smaller than the size of the set.
LEMMA RankInjects ==
  ASSUME NEW S \in SUBSET Nat, IsFiniteSet(S)
  PROVE  /\ \A c \in S : /\ Cardinality(Newer(S, c)) \in Nat
                         /\ Cardinality(Newer(S, c)) \in 0..(Cardinality(S) - 1)
         /\ \A c, d \in S : c # d =>
              Cardinality(Newer(S, c)) # Cardinality(Newer(S, d))
<1>1. ASSUME NEW T \in SUBSET S
      PROVE  /\ IsFiniteSet(T) /\ Cardinality(T) \in Nat
  BY <1>1, FS_Subset, FS_CardinalityType
<1>2. ASSUME NEW T \in SUBSET S, NEW R \in SUBSET T, R # T
      PROVE  Cardinality(R) < Cardinality(T)
  <2>1. IsFiniteSet(T) /\ Cardinality(T) \in Nat /\ Cardinality(R) \in Nat
    BY <1>1, <1>2
  <2>2. /\ Cardinality(R) <= Cardinality(T)
        /\ Cardinality(T) = Cardinality(R) => T = R
    BY <2>1, FS_Subset
  <2> QED
    BY <1>2, <2>1, <2>2
<1>3. ASSUME NEW c \in S
      PROVE  /\ Cardinality(Newer(S, c)) \in Nat
             /\ Cardinality(Newer(S, c)) \in 0..(Cardinality(S) - 1)
  <2>1. Newer(S, c) \in SUBSET S /\ Newer(S, c) # S /\ S \in SUBSET S
    BY <1>3 DEF Newer
  <2>2. /\ Cardinality(Newer(S, c)) < Cardinality(S)
        /\ Cardinality(Newer(S, c)) \in Nat /\ Cardinality(S) \in Nat
    BY <1>1, <1>2, <2>1
  <2> QED
    BY <2>2
<1>4. ASSUME NEW c \in S, NEW d \in S, c < d
      PROVE  Cardinality(Newer(S, d)) < Cardinality(Newer(S, c))
  <2>1. Newer(S, c) \in SUBSET S
    BY DEF Newer
  <2>2. Newer(S, d) \in SUBSET Newer(S, c)
    <3>1. \A e \in S : e > d => e > c
      BY <1>4
    <3> QED
      BY <3>1 DEF Newer
  <2>3. d \in Newer(S, c) /\ d \notin Newer(S, d)
    BY <1>4 DEF Newer
  <2> QED
    BY <1>2, <2>1, <2>2, <2>3
<1>5. ASSUME NEW c \in S, NEW d \in S, c # d
      PROVE  Cardinality(Newer(S, c)) # Cardinality(Newer(S, d))
  <2>1. c < d \/ d < c
    BY <1>5
  <2>2. Cardinality(Newer(S, c)) \in Nat /\ Cardinality(Newer(S, d)) \in Nat
    BY <1>3
  <2> QED
    BY <1>4, <2>1, <2>2
<1> QED
  BY <1>3, <1>5

\* Whoever keeps the N greatest keeps N at most.
LEMMA NewestAreFew ==
  ASSUME NEW S \in SUBSET Nat, IsFiniteSet(S), NEW N \in Nat
  PROVE  IsFiniteSet(Newest(S, N)) /\ Cardinality(Newest(S, N)) <= N
<1> DEFINE K == Newest(S, N)
           f == [c \in K |-> Cardinality(Newer(S, c))]
<1>1. K \subseteq S /\ \A c \in K : Cardinality(Newer(S, c)) < N
  BY DEF Newest
<1>2. \A c \in K : Cardinality(Newer(S, c)) \in 0..(N - 1)
  <2>1. \A c \in K : Cardinality(Newer(S, c)) \in Nat
    BY <1>1, RankInjects
  <2> QED
    BY <1>1, <2>1
<1>3. f \in Injection(K, 0..(N - 1))
  BY <1>1, <1>2, RankInjects DEF Injection, IsInjective
<1>4. IsFiniteSet(0..(N - 1)) /\ Cardinality(0..(N - 1)) = N
  BY FS_Interval
<1> HIDE DEF f, K
<1>5. IsFiniteSet(K) /\ Cardinality(K) <= Cardinality(0..(N - 1))
  BY <1>3, <1>4, FS_Injection
<1> QED
  BY <1>4, <1>5 DEF K

\* Whoever keeps the N greatest keeps N elements above each one that goes, and
\* above anything else that N elements were above.
LEMMA NewestAreEnough ==
  ASSUME NEW S \in SUBSET Nat, IsFiniteSet(S), NEW N \in Nat, NEW c \in Nat,
         N <= Cardinality(Newer(S, c))
  PROVE  N <= Cardinality(Newer(Newest(S, N), c))
<1> DEFINE U == Newer(S, c)
           K == Newer(Newest(S, N), c)
           f == [d \in U |-> Cardinality(Newer(U, d))]
           g == [d \in K |-> Cardinality(Newer(U, d))]
<1>1. U \in SUBSET Nat /\ U \in SUBSET S /\ IsFiniteSet(U) /\ Cardinality(U) \in Nat
  <2>1. U \in SUBSET Nat /\ U \in SUBSET S
    BY DEF Newer
  <2> HIDE DEF U
  <2> QED
    BY <2>1, FS_Subset, FS_CardinalityType
<1>2. /\ K = {d \in U : Cardinality(Newer(U, d)) < N}
  <2>1. ASSUME NEW d \in U
        PROVE  Newer(U, d) = Newer(S, d)
    <3>1. d \in Nat /\ d > c
      BY DEF Newer
    <3>2. \A e \in S : e > d => e > c
      BY <3>1
    <3> QED
      BY <3>2 DEF Newer
  <2>2. K = {d \in U : Cardinality(Newer(S, d)) < N}
    BY DEF Newer, Newest
  <2> QED
    BY <2>1, <2>2
<1>3. /\ f \in Injection(U, 0..(Cardinality(U) - 1))
  <2> HIDE DEF U
  <2> QED
    BY <1>1, RankInjects DEF Injection, IsInjective
<1>4. /\ IsFiniteSet(0..(Cardinality(U) - 1))
      /\ Cardinality(0..(Cardinality(U) - 1)) = Cardinality(U)
      /\ IsFiniteSet(0..(N - 1)) /\ Cardinality(0..(N - 1)) = N
  <2> DEFINE n == Cardinality(U)
  <2>1. n \in Nat
    BY <1>1
  <2> HIDE DEF n
  <2>2. /\ IsFiniteSet(0..(n - 1)) /\ Cardinality(0..(n - 1)) = n
        /\ IsFiniteSet(0..(N - 1)) /\ Cardinality(0..(N - 1)) = N
    BY <2>1, FS_Interval
  <2> QED
    BY <2>2 DEF n
<1>5. f \in Surjection(U, 0..(Cardinality(U) - 1))
  <2> HIDE DEF U, f
  <2> QED
    BY <1>3, <1>4, FS_Injection
<1>6. \A n \in 0..(Cardinality(U) - 1) : \E d \in U : Cardinality(Newer(U, d)) = n
  BY <1>5 DEF Surjection
<1>7. \A n \in 0..(N - 1) : \E d \in K : Cardinality(Newer(U, d)) = n
  <2> SUFFICES ASSUME NEW n \in 0..(N - 1)
               PROVE  \E d \in K : Cardinality(Newer(U, d)) = n
    OBVIOUS
  <2> HIDE DEF U, K
  <2>1. n < N /\ n \in 0..(Cardinality(U) - 1)
    BY <1>1 DEF U
  <2> QED
    BY <1>2, <1>6, <2>1
<1>8. g \in Surjection(K, 0..(N - 1))
  <2> HIDE DEF U, K
  <2>1. \A d \in K : Cardinality(Newer(U, d)) \in 0..(N - 1)
    <3>1. \A d \in U : Cardinality(Newer(U, d)) \in Nat
      BY <1>1, RankInjects
    <3> QED
      BY <1>2, <3>1
  <2> QED
    BY <1>7, <2>1 DEF Surjection
<1>9. IsFiniteSet(K)
  <2> HIDE DEF U, K
  <2>1. K \in SUBSET U
    BY <1>2
  <2> QED
    BY <1>1, <2>1, FS_Subset
<1> HIDE DEF g, K
<1> QED
  BY <1>4, <1>8, <1>9, FS_Surjection DEF K

\* The finished jobs of the registry that a request belongs to.
FinishedOf(r) == {k \in jobs : Finished(k) /\ (IsSearch(k) <=> r \in Searches)}

\* The finished jobs of its registry that are newer than a job, as FinishedAreKept
\* counts them.
NewerFinished(j) ==
  {k \in jobs : k > j /\ Finished(k) /\ (IsSearch(k) <=> IsSearch(j))}

\* A registration forgets only jobs that enough newer ones stay behind of, and
\* leaves enough of them for the jobs that were forgotten before.
LEMMA RegisterKeepsFinished ==
  ASSUME TypeOK, FinishedAreKept, NEW r \in Calibrations \cup Searches, Register(r)
  PROVE  FinishedAreKept'
<1> DEFINE F == FinishedOf(r)
           mine == {j \in jobs : IsSearch(j) <=> r \in Searches}
<1>1. /\ Known' = Known \cup {count + 1} /\ status'[count + 1] = "queued"
      /\ \A j \in Known : request'[j] = request[j] /\ status'[j] = status[j]
      /\ count \in Nat
  BY RegisterAdds
<1>2. /\ jobs' = (jobs \ Pruned(mine)) \cup {count + 1}
      /\ jobs \subseteq Known /\ Known \subseteq Nat /\ IsFiniteSet(Known)
  <2>1. IsFiniteSet(1..count)
    BY <1>1, FS_Interval
  <2> QED
    BY <1>1, <2>1 DEF Register, TypeOK, Known
<1>3. /\ F \in SUBSET Nat /\ IsFiniteSet(F) /\ IsFiniteSet(jobs')
  <2>1. F \in SUBSET Known
    BY <1>2 DEF FinishedOf
  <2>2. jobs' \in SUBSET (Known \cup {count + 1}) /\ IsFiniteSet(Known \cup {count + 1})
    BY <1>2, FS_AddElement
  <2> HIDE DEF F
  <2> QED
    BY <1>2, <2>1, <2>2, FS_Subset
<1>4. MaxFinished \in Nat
  BY JobsAssumption
<1>5. \A k \in jobs : Cardinality({i \in mine : i > k /\ Finished(i)})
                        = Cardinality(Newer(F, k))
  <2>1. ASSUME NEW k \in jobs
        PROVE  {i \in mine : i > k /\ Finished(i)} = Newer(F, k)
    BY DEF FinishedOf, Newer
  <2> QED
    BY <2>1
<1>6. \A k \in Pruned(mine) :
         k \in F /\ MaxFinished <= Cardinality(Newer(F, k))
  BY <1>5 DEF Pruned, FinishedOf
<1>7. Newest(F, MaxFinished) \subseteq jobs'
  <2>1. ASSUME NEW k \in F, Cardinality(Newer(F, k)) < MaxFinished
        PROVE  k \notin Pruned(mine)
    <3>1. Newer(F, k) \in SUBSET F
      BY DEF Newer
    <3>2. Cardinality(Newer(F, k)) \in Nat
      <4> HIDE DEF F
      <4> QED
        BY <1>3, <3>1, FS_Subset, FS_CardinalityType
    <3> HIDE DEF F
    <3> QED
      BY <1>4, <1>6, <2>1, <3>2
  <2>2. F \subseteq jobs
    BY DEF FinishedOf
  <2> QED
    BY <1>2, <2>1, <2>2 DEF Newest
<1> SUFFICES ASSUME NEW j \in Known', Finished(j)', j \notin jobs'
             PROVE  MaxFinished <= Cardinality(NewerFinished(j)')
  BY DEF FinishedAreKept, NewerFinished
<1>8. j \in Known /\ Finished(j) /\ j \in Nat /\ (IsSearch(j)' <=> IsSearch(j))
  BY <1>1, <1>2 DEF Finished, IsSearch
<1>9. ASSUME NEW T \in SUBSET NewerFinished(j)', MaxFinished <= Cardinality(T)
      PROVE  MaxFinished <= Cardinality(NewerFinished(j)')
  <2>1. NewerFinished(j)' \in SUBSET jobs'
    BY DEF NewerFinished
  <2>2. IsFiniteSet(NewerFinished(j)')
    BY <1>3, <2>1, FS_Subset
  <2>3. /\ IsFiniteSet(T) /\ Cardinality(T) <= Cardinality(NewerFinished(j)')
    BY <1>9, <2>2, FS_Subset
  <2>4. Cardinality(T) \in Nat /\ Cardinality(NewerFinished(j)') \in Nat
    BY <2>2, <2>3, FS_CardinalityType
  <2> QED
    BY <1>4, <1>9, <2>3, <2>4
<1>10. ASSUME j \notin jobs
       PROVE  MaxFinished <= Cardinality(NewerFinished(j))
  BY <1>8, <1>10 DEF FinishedAreKept, NewerFinished
<1>11. CASE IsSearch(j) <=> r \in Searches
  <2>1. Newer(F, j) = NewerFinished(j)
    BY <1>11 DEF Newer, NewerFinished, FinishedOf
  <2>2. MaxFinished <= Cardinality(Newer(F, j))
    BY <1>2, <1>6, <1>10, <2>1
  <2>3. MaxFinished <= Cardinality(Newer(Newest(F, MaxFinished), j))
    <3> HIDE DEF F
    <3> QED
      BY <1>3, <1>4, <1>8, <2>2, NewestAreEnough
  <2>4. Newer(Newest(F, MaxFinished), j) \in SUBSET NewerFinished(j)'
    <3>1. ASSUME NEW k \in Newest(F, MaxFinished), k > j
          PROVE  k \in NewerFinished(j)'
      <4>1. k \in F /\ k \in jobs' /\ k \in Known
        BY <1>2, <1>7 DEF Newest, FinishedOf
      <4>2. Finished(k)' /\ (IsSearch(k)' <=> IsSearch(k))
        BY <1>1, <4>1 DEF FinishedOf, Finished, IsSearch
      <4> QED
        BY <1>8, <1>11, <3>1, <4>1, <4>2 DEF NewerFinished, FinishedOf
    <3> QED
      BY <3>1 DEF Newer
  <2> QED
    BY <1>9, <2>3, <2>4
<1>12. CASE ~(IsSearch(j) <=> r \in Searches)
  <2>1. j \notin jobs
    BY <1>2, <1>6, <1>12 DEF FinishedOf
  <2>2. NewerFinished(j) \in SUBSET NewerFinished(j)'
    <3>1. ASSUME NEW k \in NewerFinished(j)
          PROVE  k \in NewerFinished(j)'
      <4>1. k \in jobs' /\ k \in Known
        BY <1>2, <1>6, <1>12 DEF NewerFinished, FinishedOf
      <4>2. Finished(k)' /\ (IsSearch(k)' <=> IsSearch(k))
        BY <1>1, <4>1 DEF NewerFinished, Finished, IsSearch
      <4> QED
        BY <1>8, <4>1, <4>2 DEF NewerFinished
    <3> QED
      BY <3>1
  <2> QED
    BY <1>9, <1>10, <2>1, <2>2
<1> QED
  BY <1>11, <1>12

\* A thread never takes a status away that shows its job as over, and a job that is
\* forgotten keeps the status it had.
LEMMA RunOnlyFinishes ==
  ASSUME TypeOK, KnownInv, NEW j \in Known, Run(j)
  PROVE  /\ Known' = Known /\ jobs' = jobs /\ request' = request
         /\ \A k \in Known : Finished(k) => status'[k] \in {"completed", "failed"}
         /\ \A k \in Known \ jobs : status'[k] = status[k]
<1>1. ASSUME NEW s, NEW b, Update(j, s, b), UNCHANGED registry,
             j \in jobs /\ Finished(j) => s \in {"completed", "failed"}
      PROVE  /\ \A k \in Known : Finished(k) => status'[k] \in {"completed", "failed"}
             /\ \A k \in Known \ jobs : status'[k] = status[k]
  BY <1>1 DEF Update, Finished, TypeOK
<1>2. Known' = Known /\ jobs' = jobs /\ request' = request /\ UNCHANGED registry
  BY DEF Run, Begin, Resolve, Name, FindExcess, Prune, Seed, Evaluate, Export, Record,
         Complete, Fail, Finish, registry, Known
<1>3. CASE Begin(j)
  <2>1. Update(j, "running", FALSE) /\ ~Finished(j)
    BY <1>3 DEF Begin, Step, KnownInv, LiveJobsAreKnown
  <2> QED
    BY <1>1, <1>2, <2>1
<1>4. CASE \/ Resolve(j) \/ Name(j) \/ FindExcess(j) \/ Prune(j) \/ Seed(j)
           \/ Evaluate(j) \/ Export(j) \/ Finish(j)
  <2>1. status' = status
    BY <1>4 DEF Resolve, Name, FindExcess, Prune, Seed, Evaluate, Export, Finish
  <2> QED
    BY <1>2, <2>1 DEF Finished
<1>5. CASE Record(j)
  <2>1. Update(j, status[j], TRUE)
    BY <1>5 DEF Record
  <2> QED
    BY <1>1, <1>2, <2>1 DEF Finished
<1>6. CASE Complete(j) \/ Fail(j)
  <2>1. \E s \in {"completed", "failed"} : Update(j, s, result[j])
    BY <1>6 DEF Complete, Fail
  <2> QED
    BY <1>1, <1>2, <2>1
<1> QED
  BY <1>2, <1>3, <1>4, <1>5, <1>6 DEF Run

LEMMA RunKeepsFinished ==
  ASSUME TypeOK, KnownInv, FinishedAreKept, NEW j \in Known, Run(j)
  PROVE  FinishedAreKept'
<1>1. /\ Known' = Known /\ jobs' = jobs /\ request' = request
      /\ \A k \in Known : Finished(k) => Finished(k)'
      /\ \A k \in Known : k \notin jobs => (Finished(k)' <=> Finished(k))
  BY RunOnlyFinishes DEF Finished
<1>2. jobs \subseteq Known /\ IsFiniteSet(jobs) /\ MaxFinished \in Nat
  <2>1. IsFiniteSet(1..count)
    BY FS_Interval DEF TypeOK
  <2> QED
    BY <2>1, FS_Subset, JobsAssumption DEF TypeOK, Known
<1> SUFFICES ASSUME NEW i \in Known', Finished(i)', i \notin jobs'
             PROVE  MaxFinished <= Cardinality(NewerFinished(i)')
  BY DEF FinishedAreKept, NewerFinished
<1>3. MaxFinished <= Cardinality(NewerFinished(i))
  BY <1>1 DEF FinishedAreKept, NewerFinished
<1>4. NewerFinished(i) \in SUBSET NewerFinished(i)' /\ NewerFinished(i)' \in SUBSET jobs
  <2>1. ASSUME NEW k \in NewerFinished(i)
        PROVE  k \in NewerFinished(i)'
    <3>1. k \in jobs /\ k \in Known /\ Finished(k)'
      BY <1>1, <1>2 DEF NewerFinished
    <3> QED
      BY <1>1, <3>1 DEF NewerFinished, IsSearch
  <2> QED
    BY <1>1, <2>1 DEF NewerFinished
<1>5. IsFiniteSet(NewerFinished(i)')
  BY <1>2, <1>4, FS_Subset
<1>6. /\ IsFiniteSet(NewerFinished(i))
      /\ Cardinality(NewerFinished(i)) <= Cardinality(NewerFinished(i)')
  BY <1>4, <1>5, FS_Subset
<1>7. Cardinality(NewerFinished(i)) \in Nat /\ Cardinality(NewerFinished(i)') \in Nat
  BY <1>5, <1>6, FS_CardinalityType
<1> QED
  BY <1>2, <1>3, <1>6, <1>7

\* However many jobs come and go, a client loses sight of a finished job only for
\* MaxFinished newer finished ones of the same registry that it can still see.
THEOREM FinishedStayKept == Spec => []FinishedAreKept
<1>1. Init => FinishedAreKept
  <2>1. 1..0 = {}
    OBVIOUS
  <2> QED
    BY <2>1 DEF Init, FinishedAreKept, Known
<1>2. TypeOK /\ JobsInv /\ FinishedAreKept /\ [Next]_vars => FinishedAreKept'
  <2> SUFFICES ASSUME TypeOK, JobsInv, FinishedAreKept, [Next]_vars
               PROVE  FinishedAreKept'
    OBVIOUS
  <2>1. CASE PostCalibration \/ Accept
    <3>1. PICK r \in Calibrations \cup Searches : Register(r)
      BY <2>1 DEF PostCalibration, Accept, TypeOK
    <3> QED
      BY <3>1, RegisterKeepsFinished
  <2>2. CASE \E j \in Known : Run(j)
    BY <2>2, RunKeepsFinished DEF JobsInv
  <2>3. CASE Reserve \/ Reject \/ Raise \/ Tick \/ UNCHANGED vars
    <3>1. UNCHANGED <<registry, status>>
      BY <2>3 DEF Reserve, Reject, Raise, Tick, vars
    <3> QED
      BY <3>1 DEF registry, FinishedAreKept, Known, Finished, IsSearch
  <2>4. CASE Restart
    <3>1. Known' = Known /\ \A j \in Known : status'[j] = "lost"
      BY <2>4 DEF Restart, Known
    <3> QED
      BY <3>1 DEF FinishedAreKept, Finished
  <2> QED
    BY <2>1, <2>2, <2>3, <2>4 DEF Next
<1> QED
  BY <1>1, <1>2, JobsInvariant, PTL DEF Spec


----------------------------------------------------------------------------
(* The copies *)

\* Of two finite sets, the greater has more elements above a number.
LEMMA NewerGrows ==
  ASSUME NEW T \in SUBSET Nat, IsFiniteSet(T), NEW S \in SUBSET T, NEW c
  PROVE  /\ Cardinality(Newer(S, c)) \in Nat /\ Cardinality(Newer(T, c)) \in Nat
         /\ Cardinality(Newer(S, c)) <= Cardinality(Newer(T, c))
<1>1. Newer(T, c) \in SUBSET T /\ Newer(S, c) \in SUBSET Newer(T, c)
  BY DEF Newer
<1>2. IsFiniteSet(Newer(T, c))
  BY <1>1, FS_Subset
<1>3. /\ IsFiniteSet(Newer(S, c))
      /\ Cardinality(Newer(S, c)) <= Cardinality(Newer(T, c))
  BY <1>1, <1>2, FS_Subset
<1> QED
  BY <1>2, <1>3, FS_CardinalityType

\* Whatever goes of those with N elements above, N stay above all with N above.
LEMMA RemovalLeavesNewer ==
  ASSUME NEW S \in SUBSET Nat, IsFiniteSet(S), NEW N \in Nat, NEW G \in SUBSET S,
         \A g \in G : N <= Cardinality(Newer(S, g)),
         NEW c \in Nat, N <= Cardinality(Newer(S, c))
  PROVE  N <= Cardinality(Newer(S \ G, c))
<1> DEFINE K == Newest(S, N)
<1>1. N <= Cardinality(Newer(K, c))
  BY NewestAreEnough
<1>2. K \in SUBSET (S \ G)
  <2>1. ASSUME NEW d \in K, d \in G
        PROVE  FALSE
    <3>1. Cardinality(Newer(S, d)) \in Nat /\ Cardinality(Newer(S, d)) < N
      BY RankInjects DEF Newest
    <3>2. N <= Cardinality(Newer(S, d))
      BY <2>1
    <3> HIDE DEF K
    <3> QED
      BY <3>1, <3>2
  <2> QED
    BY <2>1 DEF Newest
<1>3. (S \ G) \in SUBSET Nat /\ IsFiniteSet(S \ G)
  BY FS_Subset
<1> HIDE DEF K
<1>4. /\ Cardinality(Newer(K, c)) \in Nat /\ Cardinality(Newer(S \ G, c)) \in Nat
      /\ Cardinality(Newer(K, c)) <= Cardinality(Newer(S \ G, c))
  BY <1>2, <1>3, NewerGrows
<1> QED
  BY <1>1, <1>4

\* A set covered by N others and the copies of some jobs is no larger.
LEMMA CoverBounds ==
  ASSUME NEW S, NEW B, IsFiniteSet(B), NEW J, IsFiniteSet(J), NEW f,
         S \subseteq B \cup {f[j] : j \in J}
  PROVE  /\ IsFiniteSet(S)
         /\ Cardinality(S) <= Cardinality(B) + Cardinality(J)
<1> DEFINE I == {f[j] : j \in J}
           g == [j \in J |-> f[j]]
<1>1. g \in Surjection(J, I)
  BY DEF Surjection
<1> HIDE DEF I, g
<1>2. IsFiniteSet(I) /\ Cardinality(I) <= Cardinality(J)
  BY <1>1, FS_Surjection
<1>3. /\ IsFiniteSet(B \cup I)
      /\ Cardinality(B \cup I)
           = Cardinality(B) + Cardinality(I) - Cardinality(B \cap I)
  BY <1>2, FS_Union
<1>4. (B \cap I) \in SUBSET B
  OBVIOUS
<1>5. IsFiniteSet(B \cap I)
  BY <1>4, FS_Subset
<1>6. S \in SUBSET (B \cup I)
  BY DEF I
<1>7. IsFiniteSet(S) /\ Cardinality(S) <= Cardinality(B \cup I)
  BY <1>3, <1>6, FS_Subset
<1>8. /\ Cardinality(B) \in Nat /\ Cardinality(I) \in Nat /\ Cardinality(J) \in Nat
      /\ Cardinality(B \cap I) \in Nat /\ Cardinality(B \cup I) \in Nat
      /\ Cardinality(S) \in Nat
  BY <1>2, <1>3, <1>5, <1>7, FS_CardinalityType
<1> QED
  BY <1>2, <1>3, <1>7, <1>8

\* Newer copies stay for what was removed and for what a job is about to remove.
RoomInv ==
  /\ \A c \in removed : Retention - 1 <= Cardinality(Newer(copies, c))
  /\ \A j \in Known : \A c \in excess[j] :
       Retention - 1 <= Cardinality(Newer(copies, c))

\* Where the copies come from: what the last pruning kept, and the jobs that were
\* between pruning and copying.
OriginInv ==
  /\ \A j \in Known : thread[j] \in {"pruning", "pruned"} => j \in overlap
  /\ \A j \in overlap : thread[j] \notin {"queued", "running"}
  /\ \A j \in Known : excess[j] # {} => thread[j] = "pruning"
  /\ \E B \in SUBSET Nat :
       /\ IsFiniteSet(B) /\ Cardinality(B) <= Retention - 1
       /\ copies \ (spared \cup Pending) \subseteq B \cup {copy[j] : j \in overlap}

\* What the types say of the copies.
LEMMA SeedBounds ==
  ASSUME TypeOK
  PROVE  /\ Retention - 1 \in Nat /\ Retention \in Nat /\ clock \in Nat
         /\ copies \in SUBSET Nat /\ IsFiniteSet(copies)
         /\ removed \in SUBSET Nat /\ \A j \in Known : excess[j] \in SUBSET Nat
         /\ overlap \in SUBSET Known /\ IsFiniteSet(overlap)
<1>1. clock \in Nat /\ Retention - 1 \in Nat /\ Retention \in Nat /\ count \in Nat
  BY JobsAssumption DEF TypeOK
<1>2. IsFiniteSet(0..clock) /\ IsFiniteSet(1..count)
  BY <1>1, FS_Interval
<1>3. copies \in SUBSET (0..clock) /\ overlap \in SUBSET (1..count)
  BY DEF TypeOK, Known
<1>4. IsFiniteSet(copies) /\ IsFiniteSet(overlap)
  BY <1>2, <1>3, FS_Subset
<1>5. removed \in SUBSET Nat /\ \A j \in Known : excess[j] \in SUBSET Nat
  BY <1>1 DEF TypeOK
<1> QED
  BY <1>1, <1>3, <1>4, <1>5 DEF Known


\* As long as the copies do not shrink and nothing more is to go, room was made.
LEMMA GrowthKeepsRoom ==
  ASSUME TypeOK, TypeOK', RoomInv, copies \in SUBSET copies',
         removed' = removed,
         \A j \in Known' : \A c \in excess'[j] :
           \/ \E i \in Known : c \in excess[i]
           \/ Retention - 1 <= Cardinality(Newer(copies, c))
  PROVE  RoomInv'
<1>1. /\ Retention - 1 \in Nat /\ copies' \in SUBSET Nat /\ IsFiniteSet(copies')
  <2>1. clock' \in Nat /\ copies' \in SUBSET (0..clock') /\ Retention - 1 \in Nat
    BY JobsAssumption DEF TypeOK
  <2>2. IsFiniteSet(0..clock')
    BY <2>1, FS_Interval
  <2>3. IsFiniteSet(copies')
    BY <2>1, <2>2, FS_Subset
  <2> QED
    BY <2>1, <2>3
<1>2. ASSUME NEW c, Retention - 1 <= Cardinality(Newer(copies, c))
      PROVE  Retention - 1 <= Cardinality(Newer(copies', c))
  <2>1. /\ Cardinality(Newer(copies, c)) \in Nat
        /\ Cardinality(Newer(copies', c)) \in Nat
        /\ Cardinality(Newer(copies, c)) <= Cardinality(Newer(copies', c))
    BY <1>1, NewerGrows
  <2> QED
    BY <1>1, <1>2, <2>1
<1>3. ASSUME NEW c \in removed'
      PROVE  Retention - 1 <= Cardinality(Newer(copies, c)')
  <2>1. Retention - 1 <= Cardinality(Newer(copies, c))
    BY <1>3 DEF RoomInv
  <2> QED
    BY <1>2, <2>1 DEF Newer
<1>4. ASSUME NEW j \in Known', NEW c \in excess'[j]
      PROVE  Retention - 1 <= Cardinality(Newer(copies, c)')
  <2>1. Retention - 1 <= Cardinality(Newer(copies, c))
    BY <1>4 DEF RoomInv
  <2> QED
    BY <1>2, <2>1 DEF Newer
<1> QED
  BY <1>3, <1>4 DEF RoomInv

\* Pruning removes, of a list that may be old, what enough newer ones stay for.
LEMMA PruneKeepsRoom ==
  ASSUME TypeOK, RoomInv, NEW j \in Known, Prune(j)
  PROVE  RoomInv'
<1>1. PICK gone \in SUBSET (excess[j] \cap copies) :
        copies' = copies \ gone /\ removed' = removed \cup gone
  BY DEF Prune
<1>2. /\ Known' = Known
      /\ \A i \in Known : excess'[i] \in SUBSET excess[i]
  BY DEF Prune, TypeOK, registry, Known
<1>3. /\ Retention - 1 \in Nat /\ copies \in SUBSET Nat /\ IsFiniteSet(copies)
      /\ removed \in SUBSET Nat /\ \A i \in Known : excess[i] \in SUBSET Nat
  BY SeedBounds
<1>4. \A g \in gone : Retention - 1 <= Cardinality(Newer(copies, g))
  BY DEF RoomInv
<1>5. ASSUME NEW c \in Nat, Retention - 1 <= Cardinality(Newer(copies, c))
      PROVE  Retention - 1 <= Cardinality(Newer(copies, c)')
  <2> DEFINE N == Retention - 1
  <2>1. N \in Nat /\ gone \in SUBSET copies
    BY <1>3
  <2>2. N <= Cardinality(Newer(copies, c))
    BY <1>5
  <2>3. \A g \in gone : N <= Cardinality(Newer(copies, g))
    BY <1>4
  <2> HIDE DEF N
  <2>4. N <= Cardinality(Newer(copies \ gone, c))
    BY <1>3, <2>1, <2>2, <2>3, RemovalLeavesNewer
  <2>5. Newer(copies, c)' = Newer(copies \ gone, c)
    BY <1>1 DEF Newer
  <2> QED
    BY <2>4, <2>5 DEF N
<1>6. ASSUME NEW c \in removed'
      PROVE  Retention - 1 <= Cardinality(Newer(copies, c)')
  <2>1. c \in Nat /\ Retention - 1 <= Cardinality(Newer(copies, c))
    BY <1>1, <1>3, <1>4, <1>6 DEF RoomInv
  <2> QED
    BY <1>5, <2>1
<1>7. ASSUME NEW i \in Known', NEW c \in excess'[i]
      PROVE  Retention - 1 <= Cardinality(Newer(copies, c)')
  <2>1. i \in Known /\ c \in excess[i]
    BY <1>2, <1>7
  <2>2. c \in Nat /\ Retention - 1 <= Cardinality(Newer(copies, c))
    BY <1>3, <2>1 DEF RoomInv
  <2> QED
    BY <1>5, <2>2
<1> QED
  BY <1>6, <1>7 DEF RoomInv

\* A job that looks for the excess finds what enough newer ones are there for.
LEMMA ExcessIsOld ==
  ASSUME TypeOK, NEW c \in copies \ Kept(copies)
  PROVE  Retention - 1 <= Cardinality(Newer(copies, c))
<1>1. /\ Retention - 1 \in Nat /\ copies \in SUBSET Nat /\ IsFiniteSet(copies)
  BY SeedBounds
<1>2. Cardinality(Newer(copies, c)) \in Nat
  BY <1>1, RankInjects
<1>3. ~(Cardinality(Newer(copies, c)) < Retention - 1)
  BY DEF Kept, Newer
<1> QED
  BY <1>1, <1>2, <1>3


\* The threads that are not about the copies, and what they leave.
OtherRun(j) ==
  \/ Begin(j) \/ Resolve(j) \/ Evaluate(j) \/ Export(j)
  \/ Record(j) \/ Complete(j) \/ Finish(j)

LEMMA RunKeepsRoom ==
  ASSUME TypeOK, TypeOK', RoomInv, NEW j \in Known, Run(j)
  PROVE  RoomInv'
<1>1. Known' = Known
  BY DEF Run, Begin, Resolve, Name, FindExcess, Prune, Seed, Evaluate, Export, Record,
         Complete, Fail, Finish, registry, Known
<1>2. CASE Prune(j)
  BY <1>2, PruneKeepsRoom
<1>3. CASE FindExcess(j)
  <2>1. copies' = copies /\ removed' = removed
    BY <1>3 DEF FindExcess
  <2>2. \A i \in Known : i # j => excess'[i] = excess[i]
    BY <1>3 DEF FindExcess, TypeOK
  <2>3. excess'[j] = copies \ Kept(copies)
    BY <1>3 DEF FindExcess, TypeOK
  <2>4. \A i \in Known' : \A c \in excess'[i] :
          \/ \E k \in Known : c \in excess[k]
          \/ Retention - 1 <= Cardinality(Newer(copies, c))
    BY <1>1, <2>2, <2>3, ExcessIsOld
  <2> QED
    BY <2>1, <2>4, GrowthKeepsRoom
<1>4. CASE Name(j) \/ Seed(j) \/ Fail(j) \/ OtherRun(j)
  <2>1. excess' = excess /\ removed' = removed /\ copies \in SUBSET copies'
    <3>1. CASE Name(j) \/ Seed(j)
      BY <3>1 DEF Name, Seed
    <3>2. CASE Fail(j)
      <4>1. copies' \in {copies, copies \cup {copy[j]}}
        BY <3>2 DEF Fail
      <4> QED
        BY <3>2, <4>1 DEF Fail
    <3>3. CASE OtherRun(j)
      BY <3>3 DEF OtherRun, Begin, Resolve, Evaluate, Export, Record, Complete, Finish,
                  files, seeds
    <3> QED
      BY <1>4, <3>1, <3>2, <3>3
  <2>2. \A i \in Known' : \A c \in excess'[i] : \E k \in Known : c \in excess[k]
    BY <1>1, <2>1
  <2> QED
    BY <2>1, <2>2, GrowthKeepsRoom
<1> QED
  BY <1>2, <1>3, <1>4 DEF Run, OtherRun

LEMMA RegisterKeepsRoom ==
  ASSUME TypeOK, TypeOK', RoomInv, NEW r \in Calibrations \cup Searches, Register(r)
  PROVE  RoomInv'
<1>1. /\ Known' = Known \cup {count + 1} /\ excess'[count + 1] = {}
      /\ \A j \in Known : excess'[j] = excess[j]
  BY RegisterAdds
<1>2. copies' = copies /\ removed' = removed
  BY DEF Register
<1>3. \A i \in Known' : \A c \in excess'[i] : \E k \in Known : c \in excess[k]
  BY <1>1
<1> QED
  BY <1>2, <1>3, GrowthKeepsRoom

\* Once there is a set that covers the copies, OriginInv holds.
Covered(B) ==
  /\ IsFiniteSet(B) /\ Cardinality(B) <= Retention - 1
  /\ copies \ (spared \cup Pending) \subseteq B \cup {copy[j] : j \in overlap}

\* A step that moves no thread into or out of the pruning and leaves the copies
\* alone keeps their origin.
LEMMA IdleKeepsOrigin ==
  ASSUME TypeOK, OriginInv, Known \subseteq Known',
         UNCHANGED <<copies, spared, overlap>>,
         \A j \in Known : /\ excess'[j] = excess[j] /\ copy'[j] = copy[j]
                          /\ \/ thread'[j] = thread[j]
                             \/ /\ thread[j] # "pruning"
                                /\ thread'[j] \notin {"queued", "running", "pruning",
                                                      "pruned"}
                             \/ thread[j] = "queued" /\ thread'[j] = "running",
         \A j \in Known' \ Known : thread'[j] = "queued" /\ excess'[j] = {}
  PROVE  OriginInv'
<1>1. overlap \in SUBSET Known
  BY SeedBounds
<1>2. Pending' = Pending
  BY DEF Pending
<1>3. {copy'[j] : j \in overlap'} = {copy[j] : j \in overlap}
  BY <1>1
<1>4. /\ \A j \in Known' : thread'[j] \in {"pruning", "pruned"} => j \in overlap'
      /\ \A j \in overlap' : thread'[j] \notin {"queued", "running"}
      /\ \A j \in Known' : excess'[j] # {} => thread'[j] = "pruning"
  BY <1>1 DEF OriginInv
<1>5. \E B \in SUBSET Nat : Covered(B)
  BY DEF OriginInv, Covered
<1>6. \E B \in SUBSET Nat : Covered(B)'
  BY <1>2, <1>3, <1>5 DEF Covered
<1> QED
  BY <1>4, <1>6 DEF OriginInv, Covered


\* A job names its copy before it looks at the others, and is no part of the cover.
LEMMA NameKeepsOrigin ==
  ASSUME TypeOK, OriginInv, NEW j \in Known, Name(j)
  PROVE  OriginInv'
<1>1. /\ Known' = Known /\ thread[j] = "running" /\ thread'[j] = "named"
      /\ \A i \in Known : i # j => thread'[i] = thread[i] /\ copy'[i] = copy[i]
      /\ UNCHANGED <<copies, excess, spared, overlap>>
  BY DEF Name, Step, TypeOK, registry, Known
<1>2. overlap \in SUBSET Known /\ j \notin overlap
  BY <1>1, SeedBounds DEF OriginInv
<1>3. {copy'[i] : i \in overlap'} = {copy[i] : i \in overlap}
  BY <1>1, <1>2
<1>4. Pending' = Pending
  BY <1>1 DEF Pending
<1>5. PICK B \in SUBSET Nat : Covered(B)
  BY DEF OriginInv, Covered
<1>6. Covered(B)'
  BY <1>1, <1>3, <1>4, <1>5 DEF Covered
<1>7. /\ \A i \in Known' : thread'[i] \in {"pruning", "pruned"} => i \in overlap'
      /\ \A i \in overlap' : thread'[i] \notin {"queued", "running"}
      /\ \A i \in Known' : excess'[i] # {} => thread'[i] = "pruning"
  BY <1>1, <1>2 DEF OriginInv
<1> QED
  BY <1>6, <1>7 DEF OriginInv, Covered

\* When a job looks for the excess, the cover begins anew.
LEMMA FindExcessCovers ==
  ASSUME TypeOK, OriginInv, NEW j \in Known, FindExcess(j)
  PROVE  OriginInv'
<1>1. /\ Known' = Known /\ thread[j] = "named" /\ thread'[j] = "pruning"
      /\ \A i \in Known : i # j => thread'[i] = thread[i] /\ excess'[i] = excess[i]
      /\ excess'[j] = copies \ Kept(copies)
      /\ UNCHANGED <<copies, copy, spared>>
      /\ overlap' = {i \in Known : thread'[i] \in {"pruning", "pruned"}}
  BY DEF FindExcess, Step, TypeOK, registry, Known
<1>2. PICK B \in SUBSET Nat :
        B = Kept(copies) /\ IsFiniteSet(B) /\ Cardinality(B) <= Retention - 1
  <2> DEFINE K == Newest(copies, Retention - 1)
  <2>1. K = Kept(copies)
    BY DEF Newest, Newer, Kept
  <2>2. /\ Retention - 1 \in Nat /\ copies \in SUBSET Nat /\ IsFiniteSet(copies)
    BY SeedBounds
  <2>3. IsFiniteSet(K) /\ Cardinality(K) <= Retention - 1
    BY <2>2, NewestAreFew
  <2>4. K \in SUBSET Nat
    BY <2>2 DEF Newest
  <2> QED
    BY <2>1, <2>3, <2>4
<1>3. excess'[j] \subseteq Pending'
  BY <1>1 DEF Pending
<1>4. copies' \ (spared' \cup Pending') \subseteq B
  BY <1>1, <1>2, <1>3
<1>5. Covered(B)'
  BY <1>2, <1>4 DEF Covered
<1>6. /\ \A i \in Known' : thread'[i] \in {"pruning", "pruned"} => i \in overlap'
      /\ \A i \in overlap' : thread'[i] \notin {"queued", "running"}
      /\ \A i \in Known' : excess'[i] # {} => thread'[i] = "pruning"
  BY <1>1 DEF OriginInv
<1> QED
  BY <1>5, <1>6 DEF OriginInv, Covered

\* What a job could not remove is spared.
LEMMA PruneKeepsOrigin ==
  ASSUME TypeOK, OriginInv, NEW j \in Known, Prune(j)
  PROVE  OriginInv'
<1>1. PICK gone \in SUBSET (excess[j] \cap copies) :
        /\ copies' = copies \ gone
        /\ spared' = (spared \cup (excess[j] \cap copies)) \ gone
  BY DEF Prune
<1>2. /\ Known' = Known /\ thread[j] = "pruning" /\ thread'[j] = "pruned"
      /\ \A i \in Known : i # j => thread'[i] = thread[i] /\ excess'[i] = excess[i]
      /\ excess'[j] = {}
      /\ UNCHANGED <<copy, overlap>>
  BY DEF Prune, Step, TypeOK, registry, Known
<1>3. Pending \subseteq Pending' \cup excess[j]
  BY <1>2 DEF Pending
<1>4. PICK B \in SUBSET Nat : Covered(B)
  BY DEF OriginInv, Covered
<1>5. copies' \ (spared' \cup Pending') \subseteq copies \ (spared \cup Pending)
  BY <1>1, <1>3
<1>6. Covered(B)'
  BY <1>2, <1>4, <1>5 DEF Covered
<1>7. /\ \A i \in Known' : thread'[i] \in {"pruning", "pruned"} => i \in overlap'
      /\ \A i \in overlap' : thread'[i] \notin {"queued", "running"}
      /\ \A i \in Known' : excess'[i] # {} => thread'[i] = "pruning"
  BY <1>2, SeedBounds DEF OriginInv
<1> QED
  BY <1>6, <1>7 DEF OriginInv, Covered

\* A copy is made by a job that the cover counts, whole or in part.
LEMMA SeedKeepsOrigin ==
  ASSUME TypeOK, OriginInv, NEW j \in Known, thread[j] = "pruned",
         NEW to \in {"building", "ended"}, thread' = [thread EXCEPT ![j] = to],
         copies' = copies \cup {copy[j]},
         UNCHANGED <<count, copy, excess, spared, overlap>>
  PROVE  OriginInv'
<1>1. /\ Known' = Known /\ thread'[j] = to
      /\ \A i \in Known : i # j => thread'[i] = thread[i]
  BY DEF TypeOK, Known
<1>2. Pending' = Pending
  BY <1>1 DEF Pending
<1>3. j \in overlap
  BY DEF OriginInv
<1>4. PICK B \in SUBSET Nat : Covered(B)
  BY DEF OriginInv, Covered
<1>5. copies' \ (spared' \cup Pending')
        \subseteq (copies \ (spared \cup Pending)) \cup {copy[j]}
  BY <1>2
<1>6. copies' \ (spared' \cup Pending') \subseteq B \cup {copy[i] : i \in overlap}
  BY <1>3, <1>4, <1>5 DEF Covered
<1>7. Covered(B)'
  BY <1>4, <1>6 DEF Covered
<1>8. /\ \A i \in Known' : thread'[i] \in {"pruning", "pruned"} => i \in overlap'
      /\ \A i \in overlap' : thread'[i] \notin {"queued", "running"}
      /\ \A i \in Known' : excess'[i] # {} => thread'[i] = "pruning"
  BY <1>1, SeedBounds DEF OriginInv
<1> QED
  BY <1>7, <1>8 DEF OriginInv, Covered


\* A restart cuts short what was being removed.
LEMMA RestartKeepsOrigin ==
  ASSUME TypeOK, OriginInv, Restart
  PROVE  OriginInv'
<1>1. /\ Known' = Known /\ \A i \in Known : thread'[i] = "done" /\ excess'[i] = {}
      /\ spared' = spared \cup (Pending \cap copies)
      /\ UNCHANGED <<copy, copies, overlap>>
  BY DEF Restart, Known
<1>2. PICK B \in SUBSET Nat : Covered(B)
  BY DEF OriginInv, Covered
<1>3. copies' \ (spared' \cup Pending') \subseteq copies \ (spared \cup Pending)
  BY <1>1
<1>4. Covered(B)'
  BY <1>1, <1>2, <1>3 DEF Covered
<1>5. /\ \A i \in Known' : thread'[i] \in {"pruning", "pruned"} => i \in overlap'
      /\ \A i \in overlap' : thread'[i] \notin {"queued", "running"}
      /\ \A i \in Known' : excess'[i] # {} => thread'[i] = "pruning"
  BY <1>1, SeedBounds
<1> QED
  BY <1>4, <1>5 DEF OriginInv, Covered

LEMMA RunKeepsOrigin ==
  ASSUME TypeOK, OriginInv, NEW j \in Known, Run(j)
  PROVE  OriginInv'
<1>1. CASE Name(j)
  BY <1>1, NameKeepsOrigin
<1>2. CASE FindExcess(j)
  BY <1>2, FindExcessCovers
<1>3. CASE Prune(j)
  BY <1>3, PruneKeepsOrigin
<1>4. CASE Seed(j)
  BY <1>4, SeedKeepsOrigin DEF Seed, Step, registry
<1>5. CASE Fail(j) /\ copies' # copies
  <2>1. thread[j] = "pruned" /\ copies' = copies \cup {copy[j]}
    BY <1>5 DEF Fail
  <2>2. /\ thread' = [thread EXCEPT ![j] = "ended"]
        /\ UNCHANGED <<count, copy, excess, spared, overlap>>
    BY <1>5 DEF Fail, Step, registry
  <2> QED
    BY <2>1, <2>2, SeedKeepsOrigin
<1>6. CASE OtherRun(j) \/ (Fail(j) /\ copies' = copies)
  <2>1. /\ Known' = Known
        /\ UNCHANGED <<copies, copy, excess, spared, overlap>>
    BY <1>6 DEF OtherRun, Begin, Resolve, Evaluate, Export, Record, Complete, Fail,
                Finish, registry, files, seeds, Known
  <2>2. \/ Step(j, "queued", "running")
        \/ \E from \in {"running", "named", "pruned", "building", "exported",
                        "recorded", "ended"},
              to \in {"building", "exported", "recorded", "ended", "done"} :
             Step(j, from, to)
    <3>1. CASE Begin(j)
      BY <3>1 DEF Begin
    <3>2. CASE Resolve(j) \/ Evaluate(j) \/ Export(j)
      BY <3>2 DEF Resolve, Evaluate, Export
    <3>3. CASE Record(j)
      BY <3>3 DEF Record
    <3>4. CASE Complete(j) \/ Finish(j)
      BY <3>4 DEF Complete, Finish
    <3>5. CASE Fail(j)
      BY <3>5 DEF Fail
    <3> QED
      BY <1>6, <3>1, <3>2, <3>3, <3>4, <3>5 DEF OtherRun
  <2>3. /\ \A i \in Known : i # j => thread'[i] = thread[i]
        /\ \/ thread[j] = "queued" /\ thread'[j] = "running"
           \/ /\ thread[j] # "pruning"
              /\ thread'[j] \notin {"queued", "running", "pruning", "pruned"}
    BY <2>2 DEF Step, TypeOK
  <2> QED
    BY <2>1, <2>3, IdleKeepsOrigin
<1> QED
  BY <1>1, <1>2, <1>3, <1>4, <1>5, <1>6 DEF Run, OtherRun

\* The cover bounds the number of copies.
LEMMA OriginsAreFew ==
  ASSUME TypeOK, OriginInv
  PROVE  Cardinality(copies \ (spared \cup Pending))
           <= Retention - 1 + Cardinality(overlap)
<1>1. PICK B \in SUBSET Nat : Covered(B)
  BY DEF OriginInv, Covered
<1>2. Retention - 1 \in Nat /\ IsFiniteSet(overlap)
  BY SeedBounds
<1> DEFINE S == copies \ (spared \cup Pending)
<1>3. S \subseteq B \cup {copy[j] : j \in overlap} /\ IsFiniteSet(B)
  BY <1>1 DEF Covered
<1> HIDE DEF S
<1>4. IsFiniteSet(S) /\ Cardinality(S) <= Cardinality(B) + Cardinality(overlap)
  BY <1>2, <1>3, CoverBounds
<1>5. /\ Cardinality(S) \in Nat /\ Cardinality(B) \in Nat
      /\ Cardinality(overlap) \in Nat
  BY <1>2, <1>3, <1>4, FS_CardinalityType
<1>6. Cardinality(B) <= Retention - 1
  BY <1>1 DEF Covered
<1>7. Cardinality(S) <= Retention - 1 + Cardinality(overlap)
  BY <1>2, <1>4, <1>5, <1>6
<1> QED
  BY <1>7 DEF S

\* However prunings, copies, failures and restarts interleave: what a calibration
\* removes, of a list that may be old by then, is what Retention - 1 newer copies
\* stay for; and the copies outnumber the retention only by those that could not be
\* removed and by the jobs that were between pruning and copying together.
THEOREM CopiesStayKept == Spec => []CopiesAreKept
<1>1. Init => RoomInv /\ OriginInv
  <2> SUFFICES ASSUME Init
               PROVE  RoomInv /\ OriginInv
    OBVIOUS
  <2>1. Known = {} /\ copies = {} /\ removed = {} /\ overlap = {}
    BY DEF Init, Known
  <2>2. IsFiniteSet({}) /\ Cardinality({}) = 0
    BY FS_EmptySet
  <2>3. Covered({})
    BY <2>1, <2>2, JobsAssumption DEF Covered
  <2>4. \E B \in SUBSET Nat : Covered(B)
    BY <2>3
  <2> QED
    BY <2>1, <2>4 DEF RoomInv, OriginInv, Covered
<1>2. /\ TypeOK /\ TypeOK' /\ RoomInv /\ OriginInv /\ [Next]_vars
      => RoomInv' /\ OriginInv'
  <2> SUFFICES ASSUME TypeOK, TypeOK', RoomInv, OriginInv, [Next]_vars
               PROVE  RoomInv' /\ OriginInv'
    OBVIOUS
  <2>1. CASE PostCalibration \/ Accept
    <3>1. PICK r \in Calibrations \cup Searches : Register(r)
      BY <2>1 DEF PostCalibration, Accept, TypeOK
    <3>2. /\ Known' = Known \cup {count + 1}
          /\ \A i \in Known : /\ thread'[i] = thread[i] /\ copy'[i] = copy[i]
                              /\ excess'[i] = excess[i]
          /\ thread'[count + 1] = "queued" /\ excess'[count + 1] = {}
          /\ UNCHANGED <<copies, spared, overlap>>
      BY <3>1, RegisterAdds DEF Register
    <3>3. OriginInv'
      BY <3>2, IdleKeepsOrigin
    <3> QED
      BY <3>1, <3>3, RegisterKeepsRoom
  <2>2. CASE \E j \in Known : Run(j)
    BY <2>2, RunKeepsRoom, RunKeepsOrigin
  <2>3. CASE Reserve \/ Reject \/ Raise \/ Tick \/ UNCHANGED vars
    <3>1. UNCHANGED <<count, thread, seeds>>
      BY <2>3 DEF Reserve, Reject, Raise, Tick, vars, registry, files
    <3>2. UNCHANGED <<copy, copies, excess, removed, spared, overlap>> /\ Known' = Known
      BY <3>1 DEF seeds, Known
    <3>3. RoomInv'
      BY <3>2 DEF RoomInv, Newer
    <3>4. OriginInv'
      BY <3>1, <3>2, IdleKeepsOrigin
    <3> QED
      BY <3>3, <3>4
  <2>4. CASE Restart
    <3>1. OriginInv'
      BY <2>4, RestartKeepsOrigin
    <3>2. /\ copies' = copies /\ removed' = removed
          /\ \A i \in Known' : excess'[i] = {}
      BY <2>4 DEF Restart, Known
    <3>3. RoomInv'
      BY <3>2 DEF RoomInv, Newer
    <3> QED
      BY <3>1, <3>3
  <2> QED
    BY <2>1, <2>2, <2>3, <2>4 DEF Next
<1>3. TypeOK /\ RoomInv /\ OriginInv => CopiesAreKept
  <2> SUFFICES ASSUME TypeOK, RoomInv, OriginInv
               PROVE  CopiesAreKept
    OBVIOUS
  <2>1. ASSUME NEW c \in removed
        PROVE  Cardinality({d \in copies : d > c}) >= Retention - 1
    <3>1. Retention - 1 <= Cardinality(Newer(copies, c))
      BY <2>1 DEF RoomInv
    <3> QED
      BY <3>1 DEF Newer
  <2> QED
    BY <2>1, OriginsAreFew DEF CopiesAreKept
<1> QED
  BY <1>1, <1>2, <1>3, JobsTypeCorrect, PTL DEF Spec
=============================================================================
