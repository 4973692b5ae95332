SPECIFICATION FairSpec
CONSTANTS
    NoTask = NoTask
    NoCheckpoint = NoCheckpoint
    MaxSubtasks = 2
    PlanSizes = {2}
    MaxRequests = 1
    MaxAutoRetries = 1
    MaxApprovers = 2
    MaxSteps = 2
    MaxRestarts = 0
    MaxSwitches = 1
    ApproveAllUsed = TRUE
INVARIANTS TaskAndCheckpointAgree ExecutingStepHasApprover
PROPERTIES RequestsEnd StepsAreDecided
CHECK_DEADLOCK FALSE
