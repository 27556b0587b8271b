SPECIFICATION Spec
CONSTANTS
  Databases = {d1}
  Default = Default
  Directories = {p, q}
  MaxFinished = 1
  Retention = 2
  MaxJobs = 3
  MaxSecond = 3
  MaxRestarts = 1
SYMMETRY MCSymmetry
CONSTRAINT MCCopiesApart
INVARIANTS
  TypeOK
  BuildsDoNotOverlap
  LiveJobsAreKnown
  FinishedAreKept
  OneSearchPerDirectory
  ReservationsAreInFlight
  CopiesAreKept
  LocksAreHeldByLiveJobs
CHECK_DEADLOCK FALSE
