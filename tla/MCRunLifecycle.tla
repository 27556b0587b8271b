--------------------------- MODULE MCRunLifecycle ---------------------------
(***************************************************************************)
(* RunLifecycle on small instances.                                        *)
(***************************************************************************)
EXTENDS RunLifecycle, TLC

\* Scenarios and run ids are interchangeable.
Interchangeable == Permutations(Scenarios) \cup Permutations(Runs)

\* A process that a failed stream left in the registry is explored with three
\* reserved attempts, or with two of any kind, but not with a batch run as one of
\* three.
StraysAmongFew ==
  (\E r \in Runs : IsBatch(r)) /\ (\A r \in Runs : ~Unused(r)) =>
    \A r \in Runs : task[r] = "done" => r \notin procs
=============================================================================
