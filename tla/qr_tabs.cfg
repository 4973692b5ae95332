SPECIFICATION FairSpec
CONSTANTS
    NoQuery = NoQuery
    postgres = postgres
    clickhouse = clickhouse
    duckdb = duckdb
    Query = {1, 2}
    Conn <- MCConn
    Driver <- MCDriver
    MaxInFlight = 2
    MaxPerConnection = 1
    MaxBatches = 1
    MaxEvents = 1
    Tab = {t1, t2}
    Uses <- MCUses
    StoreLimit = 1
    MaxSwitches = 1
    MaxUpset = 1
INVARIANTS PermitsMatch ResultsAreComplete ResultsInOwnTab StoreRowsAreOwn StopReachesQuery
PROPERTIES SettledIsSilent QueriesSettle
CHECK_DEADLOCK FALSE
