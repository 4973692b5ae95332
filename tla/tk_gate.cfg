SPECIFICATION Spec
CONSTANTS
    NoTask = NoTask
    NoCheckpoint = NoCheckpoint
    MaxSubtasks = 2
    PlanSizes = {2}
    MaxRequests = 2
    MaxAutoRetries = 1
    MaxApprovers = 1
    MaxSteps = 1
    MaxRestarts = 1
    MaxSwitches = 0
    ApproveAllUsed = FALSE
INVARIANTS OneLiveRequest
PROPERTIES ImplementsApprovalGate
CHECK_DEADLOCK FALSE
