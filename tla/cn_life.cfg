SPECIFICATION FairSpec
CONSTANTS
    Id = {a}
    Config = {c1, c2}
    None = None
    Monitor = Monitor
    Caller = {"connect", "test", "restore", "disconnect", "query"}
    MaxReconnects = 2
    MaxCalls = 2
INVARIANTS ConfigMatchesPool 
PROPERTIES LockComesFree
CHECK_DEADLOCK FALSE
