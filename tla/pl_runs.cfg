SPECIFICATION Spec
CONSTANTS
    p1 = p1
    p2 = p2
    shared = shared
    Pipeline <- Pipelines2
    Table <- OneTable
    TargetTable <- SameTable
    None = None
    HistoryLimit = 1
    MaxLoads = 1
    MaxQueue = 2
    MaxRuns = 2
    MaxRestarts = 1
SYMMETRY Symmetry
INVARIANTS RowsOfOneRun RunsMatch
CHECK_DEADLOCK FALSE
