SPECIFICATION Spec
CONSTANTS
  Scenarios = {s1}
  Runs = {r1, r2}
  NoScenario = NoScenario
  NoRun = NoRun
  Environment = {"delete"}
  MaxRestarts = 0
CHECK_DEADLOCK FALSE
INVARIANT DeletedIsReady
