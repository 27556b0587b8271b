----------------------------- MODULE PoolPromise -----------------------------
(***************************************************************************)
(* What a pool promises whoever hands it jobs: each of them is run once at *)
(* most, and the outcome that is told of it is what became of it, told     *)
(* once.  When the pool is over every job has an outcome, those that told  *)
(* none have one that says so, and nothing runs on behind it.              *)
(*                                                                         *)
(* RunPool implements this specification.                                  *)
(***************************************************************************)
CONSTANT Jobs

VARIABLES
  outcome,  \* what the pool tells of each job
  ran,      \* what became of it
  over      \* whether the pool has returned, or raised the interrupt

Told(end) == IF end = "ok" THEN "completed" ELSE "failed"

Init ==
  /\ outcome = [j \in Jobs |-> "none"]
  /\ ran = [j \in Jobs |-> "no"]
  /\ over = FALSE

Becomes(j, from, to) == ran[j] = from /\ ran' = [ran EXCEPT ![j] = to]
Tell(j, end) ==
  outcome[j] = "none" /\ outcome' = [outcome EXCEPT ![j] = Told(end)]

Start(j) == Becomes(j, "no", "started") /\ UNCHANGED outcome

End(j, end) == Becomes(j, "started", end) /\ UNCHANGED outcome

Report(j, end) == ran[j] = end /\ Tell(j, end) /\ UNCHANGED ran

\* Run and told in one.
RunAndReport(j, end) == Becomes(j, "no", end) /\ Tell(j, end)

Work ==
  \E j \in Jobs :
    \/ Start(j)
    \/ \E end \in {"ok", "raised"} :
         End(j, end) \/ Report(j, end) \/ RunAndReport(j, end)

\* The pool is over: what told no outcome gets one that says why.
Close ==
  /\ \E why \in {"missing", "interrupted"} :
       outcome' = [j \in Jobs |-> IF outcome[j] = "none" THEN why ELSE outcome[j]]
  /\ UNCHANGED ran

Next == ~over /\ IF over' THEN Close ELSE Work

Spec == Init /\ [][Next]_<<outcome, ran, over>>
=============================================================================
