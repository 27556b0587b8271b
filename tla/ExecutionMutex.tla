--------------------------- MODULE ExecutionMutex ---------------------------
(***************************************************************************)
(* The lock file that keeps two processes from writing one simulation      *)
(* database at a time (planalign_orchestrator.utils.ExecutionMutex).       *)
(*                                                                         *)
(* The processes are those that start on one database; each makes one      *)
(* mutex object and enters it once.  The file system makes single calls    *)
(* atomic (open with O_EXCL, exists, stat, unlink) and nothing more, so    *)
(* every sequence of two calls is split into two steps.  Any call may also *)
(* raise what the code does not expect (a full disk, a permission, a       *)
(* sharing violation); the error is logged.                                *)
(***************************************************************************)
EXTENDS Naturals

CONSTANTS
  Procs,     \* the processes
  Names,     \* lock file names
  Namings,   \* the possible assignments of a lock name to each process
  NoProc,    \* "creator" of an absent file
  Timeout,   \* polls before acquire gives up (30 s / 2 s in the code)
  Ageing     \* the lock files that may get older than an hour: an "orphan",
             \* whose creator was killed or has left, one still "held"

ASSUME MutexAssumption ==
  /\ Namings \subseteq [Procs -> Names]
  /\ NoProc \notin Procs
  /\ Timeout \in Nat
  /\ Ageing \subseteq {"orphan", "held"}

VARIABLES
  name,      \* the lock name of each process
  file,      \* who created the lock file of that name
  stale,     \* the names whose lock file is older than an hour
  aged,      \* some lock file has ever been
  pc,        \* where each process stands
  left,      \* polls it has left
  acquired,  \* the processes whose mutex object says so
  logged     \* those that have logged an unexpected error

vars == <<name, file, stale, aged, pc, left, acquired, logged>>

Acquiring == {"try", "look", "reap"}
Own(p)    == name[p]
Free(n)   == file[n] = NoProc

Create(p) == file' = [file EXCEPT ![Own(p)] = p] /\ stale' = stale \ {Own(p)}
Unlink(p) == file' = [file EXCEPT ![Own(p)] = NoProc] /\ stale' = stale \ {Own(p)}

\* p goes on to where.
GoTo(p, where) == pc' = [pc EXCEPT ![p] = where]

Init ==
  /\ name \in Namings
  /\ file = [n \in Names |-> NoProc]
  /\ stale = {}
  /\ aged = FALSE
  /\ pc = [p \in Procs |-> "start"]
  /\ left = [p \in Procs |-> Timeout]
  /\ acquired = {}
  /\ logged = {}

----------------------------------------------------------------------------
Enter(p) ==
  /\ pc[p] = "start"
  /\ GoTo(p, "try")
  /\ UNCHANGED <<name, file, stale, aged, left, acquired, logged>>

\* Faulty variant: the loop does not look at the clock.
TryCreateUntimed(p) ==
  /\ pc[p] = "try"
  /\ IF Free(Own(p))
     THEN /\ Create(p)
          /\ acquired' = acquired \cup {p}
          /\ GoTo(p, "inside")
     ELSE /\ GoTo(p, "look")
          /\ UNCHANGED <<file, stale, acquired>>
  /\ UNCHANGED <<name, aged, left, logged>>

\* open(lock_file, "x") succeeds, or the file exists.
TryCreate(p) ==
  /\ pc[p] = "try"
  /\ left[p] > 0
  /\ IF Free(Own(p))
     THEN /\ Create(p)
          /\ acquired' = acquired \cup {p}
          /\ GoTo(p, "inside")
     ELSE /\ GoTo(p, "look")
          /\ UNCHANGED <<file, stale, acquired>>
  /\ UNCHANGED <<name, aged, left, logged>>

\* Faulty variant: the stale lock is left alone.
LookOnly(p) ==
  /\ pc[p] = "look"
  /\ GoTo(p, "try")
  /\ left' = [left EXCEPT ![p] = @ - 1]
  /\ UNCHANGED <<name, file, stale, aged, acquired, logged>>

\* Faulty variant: the sleeps are not counted.
LookUncounted(p) ==
  /\ pc[p] = "look"
  /\ GoTo(p, IF Own(p) \in stale THEN "reap" ELSE "try")
  /\ UNCHANGED <<name, file, stale, aged, left, acquired, logged>>

\* A file seen to be older than an hour is going to be removed; one that
\* vanished between exists() and stat() is tried again at once; in the other
\* cases the process sleeps.
Look(p) ==
  /\ pc[p] = "look"
  /\ \/ Own(p) \in stale /\ GoTo(p, "reap") /\ UNCHANGED left
     \/ Free(Own(p)) /\ GoTo(p, "try") /\ UNCHANGED left
     \/ /\ Own(p) \notin stale
        /\ GoTo(p, "try")
        /\ left' = [left EXCEPT ![p] = @ - 1]
  /\ UNCHANGED <<name, file, stale, aged, acquired, logged>>

\* unlink() of the file that is there now, which need not be the one seen;
\* FileNotFoundError is retried.
Reap(p) ==
  /\ pc[p] = "reap"
  /\ Unlink(p)
  /\ GoTo(p, "try")
  /\ UNCHANGED <<name, aged, left, acquired, logged>>

\* acquire returns False, and the caller raises without entering.
GiveUp(p) ==
  /\ pc[p] = "try"
  /\ left[p] = 0
  /\ GoTo(p, "outside")
  /\ UNCHANGED <<name, file, stale, aged, left, acquired, logged>>

\* Faulty variant: release does not look at self.acquired.
LeaveUnowned(p) ==
  /\ pc[p] \in {"inside", "outside"}
  /\ GoTo(p, IF ~Free(Own(p)) THEN "release"
             ELSE IF pc[p] = "inside" THEN "outside" ELSE "gone")
  /\ UNCHANGED <<name, file, stale, aged, left, acquired, logged>>

\* release(), at the end of the with block and again at exit (atexit, which
\* nothing unregisters).
Leave(p) ==
  /\ pc[p] \in {"inside", "outside"}
  /\ GoTo(p, IF p \in acquired /\ ~Free(Own(p)) THEN "release"
             ELSE IF pc[p] = "inside" THEN "outside" ELSE "gone")
  /\ UNCHANGED <<name, file, stale, aged, left, acquired, logged>>

\* Faulty variant: the flag is cleared before it is looked at, and the file stays.
ReleaseFlag(p) ==
  /\ pc[p] = "release"
  /\ acquired' = acquired \ {p}
  /\ GoTo(p, "outside")
  /\ UNCHANGED <<name, file, stale, aged, left, logged>>

\* unlink() of whatever is there.
Release(p) ==
  /\ pc[p] = "release"
  /\ Unlink(p)
  /\ acquired' = acquired \ {p}
  /\ GoTo(p, "outside")
  /\ UNCHANGED <<name, aged, left, logged>>

\* The error of a file operation is logged, and the process is outside.
Logs(p) == GoTo(p, "outside") /\ logged' = logged \cup {p}

\* open(lock_file, "x") raises, or the writes into the file it has created do:
\* acquire returns False, and the file stays without an owner.
CreateFails(p) ==
  /\ pc[p] = "try"
  /\ left[p] > 0
  /\ \/ UNCHANGED <<file, stale>>
     \/ Free(Own(p)) /\ Create(p)
  /\ Logs(p)
  /\ UNCHANGED <<name, aged, left, acquired>>

\* stat() or the unlink() of a stale file raises: acquire returns False.
PollFails(p) ==
  /\ pc[p] \in {"look", "reap"}
  /\ Logs(p)
  /\ UNCHANGED <<name, file, stale, aged, left, acquired>>

\* The unlink() of release raises: the flag is cleared all the same, so that the
\* release at exit does not try again.
ReleaseFails(p) ==
  /\ pc[p] = "release"
  /\ acquired' = acquired \ {p}
  /\ Logs(p)
  /\ UNCHANGED <<name, file, stale, aged, left>>

\* Killed, by a signal that runs neither "finally" nor atexit.
Die(p) ==
  /\ pc[p] \notin {"gone", "dead"}
  /\ GoTo(p, "dead")
  /\ UNCHANGED <<name, file, stale, aged, left, acquired, logged>>

\* The lock file of that name gets older than an hour.
Age(n) ==
  /\ ~Free(n)
  /\ (IF pc[file[n]] \in {"inside", "release"} THEN "held" ELSE "orphan") \in Ageing
  /\ stale' = stale \cup {n}
  /\ aged' = TRUE
  /\ UNCHANGED <<name, file, pc, left, acquired, logged>>

Step(p) ==
  \/ Enter(p)
  \/ TryCreate(p)
  \/ Look(p)
  \/ Reap(p)
  \/ GiveUp(p)
  \/ Leave(p)
  \/ Release(p)

Fault(p) == CreateFails(p) \/ PollFails(p) \/ ReleaseFails(p)

Next ==
  \/ \E p \in Procs : Step(p) \/ Fault(p) \/ Die(p)
  \/ \E n \in Names : Age(n)

Spec == Init /\ [][Next]_vars

\* A process that is alive goes on running.  (The body of the with block ends.)
FairSpec == Spec /\ \A p \in Procs : WF_vars(Step(p))

----------------------------------------------------------------------------
TypeOK ==
  /\ name \in [Procs -> Names]
  /\ file \in [Names -> Procs \cup {NoProc}]
  /\ stale \subseteq Names
  /\ aged \in BOOLEAN
  /\ pc \in [Procs -> Acquiring \cup
               {"start", "inside", "release", "outside", "gone", "dead"}]
  /\ left \in [Procs -> 0..Timeout]
  /\ acquired \subseteq Procs
  /\ logged \subseteq Procs

\* At most one process at a time is inside.
MutualExclusion == \A p, q \in Procs : pc[p] = "inside" /\ pc[q] = "inside" => p = q

\* As long as no lock file has been an hour old, at most one process is inside
\* and its lock file is in place: neither the release of a process that gave
\* up, nor the second release at exit, nor the removal of stale locks takes it
\* away.
ExclusiveWhileFresh ==
  ~aged =>
    /\ MutualExclusion
    /\ \A p \in Procs : pc[p] = "inside" => file[Own(p)] = p

\* A lock file is not leaked in silence: its creator is inside, or releasing, or
\* was killed, or its log says that a file operation failed, whatever was
\* removed by whom.
LockIsNotLeaked ==
  \A n \in Names : ~Free(n) =>
    pc[file[n]] \in {"inside", "release", "dead"} \/ file[n] \in logged

\* acquire returns, or the process is killed.
AcquireReturns == \A p \in Procs : (pc[p] \in Acquiring) ~> (pc[p] \notin Acquiring)

\* A lock file more than an hour old blocks no process that still polls: it is
\* removed, whether its creator was killed or could not remove it.
StaleLockIsRemoved ==
  \A p \in Procs :
    (Own(p) \in stale /\ pc[p] \in {"look", "try"} /\ left[p] > 0)
      ~> (Own(p) \notin stale \/ pc[p] = "dead" \/ p \in logged)
=============================================================================
