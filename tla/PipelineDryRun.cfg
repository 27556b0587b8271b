SPECIFICATION FairSpec
CONSTANTS
  MaxRuns = 2
  FirstYear = 1
  LastYear = 2
  Configs = {c1}
  NoConfig = NoConfig
  Setups <- MCDefault
  Kinds = {"simulate"}
PROPERTY
  DryRunWritesNothing
CHECK_DEADLOCK FALSE
