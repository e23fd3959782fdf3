SPECIFICATION CacheSpec
CONSTANTS
  Flags = {f1, f2}
  Nodes = {n1, n2}
  Sweepers = {s1}
  Retention = 1
  BatchSize = 1
  MaxTime = 3
  LastCall = 1
  MaxRequests = 3
  Never = Never
  Gone = Gone
  q1 = q1
  q2 = q2
  user = user
  NoUser = NoUser
  NoSegment = NoSegment
  None = None
  Bucket <- MCBucket
  Requests = {q1, q2}
  Replica <- MCReplica
  Writers = {1}
  Rules = {1, 2}
  Forms <- MCForms
  InitialRules <- MCInitialRules
  Segments <- MCSegments
  Contexts <- MCContexts
  TTL = 1
  MaxWrites = 1
  MaxCalls = 2
  UnboundCalls = 1
  GoesOn = {FALSE}
INVARIANTS UndisturbedIsExact StaleRulesAreExplained
CHECK_DEADLOCK FALSE
PROPERTIES CacheConverges
