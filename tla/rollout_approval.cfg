SPECIFICATION Spec
CONSTANTS
    Replicas = {r1}
    Callers = {c1}
    Controls <- MC_Approve
    Steps <- MC_Gated
    DefaultThreshold = 1
    Previous = 10
    Signals <- MC_Healthy
    SignalErrors = FALSE
    MaxDeliver = 1
    MaxOps = 1
    MaxFaults = 0
    MaxCrashes = 0
CHECK_DEADLOCK FALSE
INVARIANT ApprovalGateHolds
