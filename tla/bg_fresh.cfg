SPECIFICATION FairSpec
CONSTANTS
    a1 = a1
    a2 = a2
    local = local
    remote = remote
    NoAgent = NoAgent
    NoEnv = NoEnv
    NoDocument = NoDocument
    DefaultEnv = local
    Limit <- MCLimit
    InitAgents <- FirstLocal
    InitEnvs = {local}
    Agent = {a1, a2}
    Env = {local, remote}
    MaxRuns = 2
    HistoryLimit = 1
    MaxAttempts = 2
    LoadsAtomic = TRUE
    MaxCalls = 2
    MaxEdits = 2
    MaxRestarts = 0
    MaxFaults = 0
INVARIANTS AgentRunsAlone
PROPERTIES OneExecutorPerRun OpenRunsEnd
CHECK_DEADLOCK FALSE
