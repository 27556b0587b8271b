-------------------------- MODULE MCBackgroundJobs --------------------------
(* Instances of BackgroundJobs. *)
EXTENDS BackgroundJobs, TLC

MCSymmetry == Permutations(Directories)

\* Searches and default calibrations share neither registry nor file: of three jobs,
\* requests that wait for registration included, they are not explored together.
MCCopiesApart ==
  \/ count + Cardinality(posting) < 3
  \/ posting = {} /\ \A j \in Known : ~IsSearch(j)
  \/ \A j \in Known : ~Defaulted(j)
=============================================================================
