SPECIFICATION Spec
CONSTANTS
    a1 = a1
    a2 = a2
    local = local
    remote = remote
    NoAgent = NoAgent
    NoEnv = NoEnv
    NoDocument = NoDocument
    DefaultEnv = local
    Limit <- MCLimit
    InitAgents <- BothLocal
    InitEnvs = {local}
    Agent = {a1, a2}
    Env = {local, remote}
    MaxRuns = 2
    HistoryLimit = 1
    MaxAttempts = 1
    LoadsAtomic = FALSE
    MaxCalls = 1
    MaxEdits = 1
    MaxRestarts = 1
    MaxFaults = 1
INVARIANTS ReservationsMatch WithinCapacity LastStatusIsNewest
PROPERTIES ImplementsRunQueue
SYMMETRY Swap
CHECK_DEADLOCK FALSE
