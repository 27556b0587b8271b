SPECIFICATION FairSpec
CONSTANTS
  Jobs = {j1, j2, j3}
  NoJob = NoJob
  Workers = {w1, w2}
  NoWorker = NoWorker
  Environment = {"raise", "kill", "interrupt", "spawn"}
CHECK_DEADLOCK FALSE
INVARIANTS
  TypeOK
  NoWorkerOutlivesPool
PROPERTIES
  PoolReturns
  MissingJobsAccountedFor
  KeepsItsPromise
