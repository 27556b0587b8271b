SPECIFICATION Spec
CONSTANTS
  Procs = {p1, p2}
  Names = {n1, n2}
  Namings <- HashedName
  NoProc = NoProc
  Timeout = 2
  Ageing = {}
CHECK_DEADLOCK FALSE
INVARIANT MutualExclusion
