SPECIFICATION FairSpec
CONSTANTS
  Procs = {p1, p2, p3}
  Names = {n1}
  Namings <- SameName
  NoProc = NoProc
  Timeout = 2
  Ageing = {"orphan", "held"}
CHECK_DEADLOCK FALSE
INVARIANTS
  TypeOK
  ExclusiveWhileFresh
  LockIsNotLeaked
PROPERTIES
  AcquireReturns
  StaleLockIsRemoved
