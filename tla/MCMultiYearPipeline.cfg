SPECIFICATION Spec
CONSTANTS
  MaxRuns = 3
  FirstYear = 1
  LastYear = 3
  Configs = {c1, c2}
  NoConfig = NoConfig
  Setups <- MCTwoSetups
  Kinds = {"simulate", "calibrate"}
SYMMETRY MCSymmetry
INVARIANTS
  TypeOK
  RebuiltYearsAreClean
  CompletedYearsAreChained
  NoSilentMixture
PROPERTIES
  EarlierYearsAreKept
CHECK_DEADLOCK FALSE
