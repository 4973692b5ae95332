--------------------------- MODULE MCQueryRuntime ---------------------------
\* The connections of the small instances of QueryRuntime.
EXTENDS QueryRuntime

CONSTANTS postgres, clickhouse, duckdb

\* One connection per way a driver looks at the cancel set.
MCConn == {postgres, clickhouse, duckdb}

MCDriver == [c \in MCConn |-> CASE c = postgres   -> "postgres"
                                 [] c = clickhouse -> "clickhouse"
                                 [] c = duckdb     -> "duckdb"]

\* Each way of running a query is used on one of them.
MCUses == [kind \in {"run", "script", "explain", "agent", "duckdb"} |->
              CASE kind = "duckdb" -> {duckdb}
                [] kind = "agent"  -> {postgres}
                [] OTHER            -> {clickhouse}]
=============================================================================
