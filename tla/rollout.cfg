SPECIFICATION ScenarioSpec
CONSTANTS
  Situations = {"single", "controls", "ends"}
  r1 = r1
  r2 = r2
  SingleSteps <- MC_Ramp3
  EndsSteps <- MC_Ramp
  Order <- MC_Order
  Groups = {g1, g2}
  NoGroup = NoGroup
  Ends = {"rolled_back", "succeeded"}
  Handlers = {h1, h2}
  GroupCallers = {c1}
  GroupControls = {"rollback", "pause", "resume"}
  Regroup = TRUE
  MaxDups = 1
  MaxEngineCrashes = 1
  MaxHandlerCrashes = 1
  MaxTroubles = 1
  ro1 = ro1
  ro2 = ro2
  ro3 = ro3
  g1 = g1
  h1 = h1
  Replicas = {r1}
  Callers = {c1}
  Controls <- Control
  Steps <- MC_Ramp
  DefaultThreshold = 1
  Previous = 10
  Signals <- MC_Signals
  SignalErrors = TRUE
  MaxDeliver = 2
  MaxOps = 2
  MaxFaults = 1
  MaxCrashes = 1
CHECK_DEADLOCK FALSE
INVARIANT OutcomesAreTrue
PROPERTIES EngineKeepsPromise ReplicasEndTheRollout
