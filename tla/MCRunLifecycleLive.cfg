SPECIFICATION FairSpec
CONSTANTS
  Scenarios = {s1}
  Runs = {r1, r2}
  NoScenario = NoScenario
  NoRun = NoRun
  Environment = {"prepare", "stream", "archive", "record", "cancel", "batch", "delete",
                 "restart"}
  MaxRestarts = 1
CHECK_DEADLOCK FALSE
PROPERTIES
  ServesCompleteResults
  EveryRunSettles
  DashboardSettles
  BatchSettles
