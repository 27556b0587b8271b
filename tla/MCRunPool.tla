----------------------------- MODULE MCRunPool -----------------------------
(***************************************************************************)
(* RunPool on small instances: more jobs than workers, so that a worker    *)
(* that dies leaves queued work to the others.                             *)
(***************************************************************************)
EXTENDS RunPool
=============================================================================
