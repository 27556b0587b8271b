SPECIFICATION Spec
CONSTANTS
  Scenarios = {s1}
  Runs = {r1, r2, r3}
  NoScenario = NoScenario
  NoRun = NoRun
  Environment = {"prepare", "stream", "archive", "cancel", "batch", "delete", "restart"}
  MaxRestarts = 1
SYMMETRY Interchangeable
CHECK_DEADLOCK FALSE
CONSTRAINT StraysAmongFew
INVARIANTS
  TypeOK
  ServedRunIsComplete
  OneReservation
  ReservationIsBacked
  StuckIsResettable
  OneLiveProcess
  SettledRunIsInHistory
  DashboardAgreesWithHistory
