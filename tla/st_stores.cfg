SPECIFICATION StoresSpec
CONSTANTS
    Session = {s1}
    Tool = {t1}
    Episode <- Episodes
    Edge <- Edges
    MaxTools = 2
    MaxUpdates = 2
    KeepHistory = 1
    MaxFaults = 1
    MaxClears = 1
    None = None
    Id = {c1, c2}
    Password = {p1, p2}
    Caller = {u1, u2}
    Masked = Masked
    Blank = Blank
    MaxUses = 2
    MaxChanges = 1
    Kinds = {"rules", "tools", "snippets", "presets", "starred", "history", "preferences", "provider"}
    Torn = Torn
    MaxHistory = 2
    MaxEdits = 3
    MaxLoads = 2
    Place = {"screen", "dialog"}
    Loader = {"start"}
    MaxAttempts = 2
    MaxReads = 1
    MaxStray = 1
    MaxTyped = 4
    MaxOpens = 4
    MaxKeyFaults = 2
    MaxRestarts = 1
INVARIANTS MemoryAgrees SavedReconnects ListIsKept SignedInStays KeyIsFound
CHECK_DEADLOCK FALSE
