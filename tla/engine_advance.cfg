SPECIFICATION FairSpec
CONSTANTS
    Drivers = {w1}
    Callers = {c1}
    Ops <- AdvanceOps
    Requests <- CanaryOnly
    Steps <- GatedSteps
    RolloutPcts <- NoPcts
    MaxDeliver = 1
    MaxOps = 1
    MaxFaults = 0
    Lossy = FALSE
CHECK_DEADLOCK FALSE
PROPERTY AdvanceResumes
