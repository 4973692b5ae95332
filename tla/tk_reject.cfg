SPECIFICATION Spec
CONSTANTS
    NoTask = NoTask
    NoCheckpoint = NoCheckpoint
    MaxSubtasks = 2
    PlanSizes = {2}
    MaxRequests = 1
    MaxAutoRetries = 0
    MaxApprovers = 1
    MaxSteps = 2
    MaxRestarts = 0
    MaxSwitches = 0
    ApproveAllUsed = TRUE
PROPERTIES RejectedStepsDoNotRun
CHECK_DEADLOCK FALSE
