SPECIFICATION SurroundSpec
CONSTANTS
  Clients = {c1, c2}
  None = None
  Percents = {50}
  Flags = {"f"}
  MaxOps = 5
  Versions = {"v1", "v2"}
  Words <- MCWords
  Bodies <- MCBodies
  MaxRequests = 3
  Callers = {"owner", "developer"}
  ScopeSets <- MCScopeSets
  MaxKeys = 4
  MaxTokens = 3
  CredentialOps = 4
  Fields = {"url", "active"}
  Values = {0, 1}
  HookOps = 3
  Processes = {"p", "q"}
  Events <- MCEvents
  Channels <- MCChannels
  MaxMessages = 2
  MaxDeliver = 2
  MaxCrashes = 1
  Rules = {"r1", "r2"}
  PreferenceOps = 3
  Replicas = {"a", "b"}
  Buffer = 1
  MaxBackoff = 3
  MaxWrites = 2
  MaxDrops = 2
  MaxRefreshes = 1
  AgentPercents = {10, 100}
  Keep = 2
  MaxEvents = 2
  MaxBeats = 3
  MaxInFlight = 2
  MaxOthers = 3
CHECK_DEADLOCK FALSE
INVARIANTS ReportsHold CredentialsHold ReleaseIsWhole DeliveriesHold SidecarHolds
  CommandsAreServed CommandsHitTheNamed
PROPERTIES StreamHolds LostWritesAreExplained
