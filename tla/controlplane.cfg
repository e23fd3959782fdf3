SPECIFICATION PlaneSpec
CONSTANTS
  Requests = {1, 2}
  Strategies <- MCStrategies
  Overrides <- MCOverrides
  Initial = 20
  EditTo = {80}
  MaxEdits = 1
  Faults <- MCFaults
  None = None
  Clients = {c1, c2}
  Settings = {0, 1}
  AuditOps = 3
  Names = {"n1"}
  Envs = {"e1"}
  DefaultsAt <- MCDefaultsAt
  PoliciesAt <- MCPoliciesAt
  CatalogWrites = 6
  Users = {"u1", "u2"}
  Groups = {"g1"}
  Apps = {"a1"}
  Roles = {"owner", "member"}
  WorkOps = 5
CHECK_DEADLOCK FALSE
SYMMETRY Symmetry
INVARIANTS PlaneTyped RuleOutcomeShows
  CatalogKeepsEdits CatalogResolves WorkListedIsAccessible
PROPERTIES RuleNeverStepsBack AuditReverts WorkChangesAreExplained
