SPECIFICATION Spec
CONSTANTS
  Deploys = {d1, d2}
  Keys = {"flag", "flag.enabled", "rule", "new.flag", "new.rule", "new.strategy", "default"}
  MaxStages = 2
  MaxDeploys = 2
  MaxEdits = 1
  MaxTime = 1
  Retention = 0
  None = None
INVARIANTS CommitsAreWhole
PROPERTIES OnlyRestagedChangesAreLost SeenIsDeployed
CHECK_DEADLOCK FALSE
