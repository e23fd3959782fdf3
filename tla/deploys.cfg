SPECIFICATION ScenarioSpec
CONSTANTS
  m1 = m1
  m2 = m2
  d1 = d1
  d2 = d2
  monitor = monitor
  Drivers = {w1, w2}
  Callers = {c1}
  Ops <- GateOps
  Requests <- CanaryOnly
  Steps <- GatedSteps
  RolloutPcts <- NoPcts
  MaxDeliver = 1
  MaxOps = 3
  MaxFaults = 1
  Lossy = FALSE
CHECK_DEADLOCK FALSE
INVARIANTS FullTrafficWhenPromoted GatedRampIsWhole RollingBackHasAGoroutine
PROPERTIES RollbacksAreEarned RedeliveredCanarySettles SharedMonitorRollsBack
