SPECIFICATION FairSpec
CONSTANTS
  MaxRuns = 2
  MaxSequence <- MCFirstReports
  MilestoneCap = 2
  QueueSize = 2
  MaxReconnects = 1
  MaxPolls = 1
  MaxRestarts = 1
INVARIANTS
  TypeOK
  NothingIsMissed
  TerminalIsQuiet
  NeverForgotten
PROPERTIES
  EndedRunIsReleased
CHECK_DEADLOCK FALSE
