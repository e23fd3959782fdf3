SPECIFICATION Spec
CONSTANTS
    Drivers = {w1, w2}
    Callers = {c1, c2}
    Ops <- Operations
    Requests <- EveryRequest
    Steps <- ShortGatedSteps
    RolloutPcts <- Pcts
    MaxDeliver = 2
    MaxOps = 3
    MaxFaults = 1
    Lossy = FALSE
CHECK_DEADLOCK FALSE
SYMMETRY Symmetry
INVARIANTS TypeOK TimestampsMatchStatus
PROPERTY OnlyStaleWritersBreakTheStateMachine
