-------------------------- MODULE MCExecutionMutex --------------------------
(***************************************************************************)
(* ExecutionMutex on small instances.                                      *)
(***************************************************************************)
EXTENDS ExecutionMutex

\* scenario_batch_runner and the auto-initializer: one name per scenario, one
\* name for the initialization.
SameName == {[p \in Procs |-> n] : n \in Names}

\* pipeline_orchestrator: the name holds hash(str(db_path)), and str hashes are
\* salted with a random number in each process.
HashedName == [Procs -> Names]
=============================================================================
