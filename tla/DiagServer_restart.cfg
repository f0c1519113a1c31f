SPECIFICATION Spec
CONSTANTS
  RestartTasks = {r1, r2}
  MayFail = TRUE
  MaxEvents = 4
INVARIANTS TypeOK OneRestartTask HandleIsTheServer IdleServerIsComplete EventGetsItsPass
CHECK_DEADLOCK FALSE
