--------------------------- MODULE NativeQueries ---------------------------
(***************************************************************************)
(* The native side of a query: admission with a permit per query, the task *)
(* that reads rows and emits batches, the set of cancelled ids, and the    *)
(* registry of event listeners (src-tauri/src/commands/query.rs,           *)
(* security.rs, db/query_executor.rs).  An event reaches a listener that   *)
(* was registered when it was emitted; events are delivered in order.      *)
(* Rows are abstracted to the number of the batch they came in.            *)
(***************************************************************************)
EXTENDS Naturals, Sequences, FiniteSets

CONSTANTS
    Query,            \* query ids
    Conn,             \* connections, the embedded DuckDB engine being one
    Driver,           \* the driver of a connection
    MaxInFlight,      \* MAX_GLOBAL_IN_FLIGHT_QUERIES
    MaxPerConnection, \* MAX_PER_CONNECTION_IN_FLIGHT_QUERIES
    MaxBatches,       \* bound: batches of a query before its last one
    MaxEvents         \* bound: events emitted and not yet delivered

\* execute_streaming: drivers that read the cancel set when a batch is full, before
\* they emit it, and drivers that read it before each read.  The embedded engine never
\* does.
WhenFull == {"postgres", "mysql", "sqlite", "mssql"}
EachRead == {"clickhouse", "redis", "mongodb"}

ASSUME NativeAssumption ==
    /\ IsFiniteSet(Query)
    /\ Driver \in [Conn -> WhenFull \cup EachRead \cup {"duckdb"}]
    /\ Conn # {}
    /\ MaxInFlight \in Nat /\ MaxPerConnection \in Nat /\ MaxBatches \in Nat
    /\ MaxEvents \in Nat \ {0}

VARIABLES
    job,          \* what the native side does for a query
    on,           \* the connection it was asked to use
    sent,         \* number of batches emitted
    request,      \* the command that waits to be admitted
    reply,        \* the answer the frontend has not yet taken up
    total,        \* total_in_flight
    perConn,      \* per_connection
    cancelled,    \* cancelled_queries
    listeners,    \* queries with a registered query_batch listener
    events,       \* emitted and not yet delivered
    missed        \* ghost: queries that emitted a batch before their listener

native == <<job, on, sent, request, reply, total, perConn, cancelled, listeners,
            events, missed>>

HoldsPermit == {"executing", "streaming", "recording"}

NativeInit ==
    /\ job = [q \in Query |-> "idle"]
    /\ on = [q \in Query |-> CHOOSE c \in Conn : TRUE]
    /\ sent = [q \in Query |-> 0]
    /\ request = [q \in Query |-> "none"]
    /\ reply = [q \in Query |-> "none"]
    /\ total = 0
    /\ perConn = [c \in Conn |-> 0]
    /\ cancelled = {}
    /\ listeners = {}
    /\ events = <<>>
    /\ missed = {}

-----------------------------------------------------------------------------
\* Permits.

MayAdmit(q) == total < MaxInFlight /\ perConn[on[q]] < MaxPerConnection

\* acquire_query_permit: both counters grow under one lock.
Acquire(q) ==
    /\ MayAdmit(q)
    /\ total' = total + 1
    /\ perConn' = [perConn EXCEPT ![on[q]] = @ + 1]

\* Mutant: the place of the connection is not given back.
ReleaseGlobalOnly(q) ==
    /\ total' = IF total = 0 THEN 0 ELSE total - 1
    /\ UNCHANGED perConn

\* Dropping the permit.
Release(q) ==
    /\ total' = IF total = 0 THEN 0 ELSE total - 1
    /\ perConn' = [perConn EXCEPT ![on[q]] = IF @ = 0 THEN 0 ELSE @ - 1]

\* The command is turned down: read-only policy, no permit, or no connection.
Refuse(q) ==
    /\ request[q] # "none"
    /\ request' = [request EXCEPT ![q] = "none"]
    /\ reply' = [reply EXCEPT ![q] = "error"]
    /\ UNCHANGED <<job, on, sent, total, perConn, cancelled, listeners, events, missed>>

\* db_execute runs the statement and answers when it is done.
StartStatement(q) ==
    /\ request[q] = "execute"
    /\ Acquire(q)
    /\ request' = [request EXCEPT ![q] = "none"]
    /\ job' = [job EXCEPT ![q] = "executing"]
    /\ UNCHANGED <<on, sent, reply, cancelled, listeners, events, missed>>

EndStatement(q) ==
    /\ job[q] = "executing"
    /\ Release(q)
    /\ job' = [job EXCEPT ![q] = "idle"]
    /\ \E outcome \in {"ok", "error"} : reply' = [reply EXCEPT ![q] = outcome]
    /\ UNCHANGED <<on, sent, request, cancelled, listeners, events, missed>>

\* db_execute_streaming spawns the task that reads the rows and answers.
StartStream(q) ==
    /\ request[q] = "stream"
    /\ Acquire(q)
    /\ request' = [request EXCEPT ![q] = "none"]
    /\ reply' = [reply EXCEPT ![q] = "ok"]
    /\ job' = [job EXCEPT ![q] = "streaming"]
    /\ UNCHANGED <<on, sent, cancelled, listeners, events, missed>>

-----------------------------------------------------------------------------
\* The stream.

Emit(q, kind) ==
    LET e == [query |-> q, kind |-> kind, batch |-> sent[q] + 1]
    IN  /\ Len(events) < MaxEvents
        /\ sent' = [sent EXCEPT ![q] = @ + 1]
        /\ events' = IF q \in listeners THEN Append(events, e) ELSE events
        /\ missed' = IF q \in listeners THEN missed ELSE missed \cup {q}

EndStream(q) == job' = [job EXCEPT ![q] = "recording"]

\* A full batch goes out, unless the driver finds the query cancelled just then.
FlushUnlessCancelled(q) ==
    /\ job[q] = "streaming" /\ sent[q] < MaxBatches
    /\ Driver[on[q]] \in WhenFull /\ q \notin cancelled
    /\ Emit(q, "rows")
    /\ UNCHANGED <<job, on, request, reply, total, perConn, cancelled, listeners>>

\* The other drivers emit it without looking.
Flush(q) ==
    /\ job[q] = "streaming" /\ sent[q] < MaxBatches
    /\ Driver[on[q]] \notin WhenFull
    /\ Emit(q, "rows")
    /\ UNCHANGED <<job, on, request, reply, total, perConn, cancelled, listeners>>

\* The task finds its id in the set, takes it out and emits what it has as the
\* last batch, which is not an error.
ObserveCancel(q) ==
    /\ job[q] = "streaming" /\ q \in cancelled
    /\ cancelled' = cancelled \ {q}
    /\ Emit(q, "final")
    /\ EndStream(q)
    /\ UNCHANGED <<on, request, reply, total, perConn, listeners>>

StopWhenFull(q) ==
    /\ Driver[on[q]] \in WhenFull /\ sent[q] < MaxBatches
    /\ ObserveCancel(q)

StopOnRead(q) ==
    /\ Driver[on[q]] \in EachRead
    /\ ObserveCancel(q)

\* The rows are exhausted.
LastBatch(q) ==
    /\ job[q] = "streaming"
    /\ Emit(q, "final")
    /\ EndStream(q)
    /\ UNCHANGED <<on, request, reply, total, perConn, cancelled, listeners>>

\* The driver reports an error: it is recorded, which others do not see, then emitted as
\* the last batch, and the task ends with it.
StreamFails(q) ==
    /\ job[q] = "streaming"
    /\ Emit(q, "error")
    /\ Release(q)
    /\ job' = [job EXCEPT ![q] = "over"]
    /\ UNCHANGED <<on, request, reply, cancelled, listeners>>

\* A query that succeeded is recorded and the task ends; its permit goes with it.
TaskEnds(q) ==
    /\ job[q] = "recording"
    /\ Release(q)
    /\ job' = [job EXCEPT ![q] = "over"]
    /\ UNCHANGED <<on, sent, request, reply, cancelled, listeners, events, missed>>

NativeStep(q) ==
    \/ Refuse(q) \/ StartStatement(q) \/ EndStatement(q) \/ StartStream(q)
    \/ FlushUnlessCancelled(q) \/ Flush(q) \/ StopWhenFull(q) \/ StopOnRead(q)
    \/ LastBatch(q) \/ StreamFails(q) \/ TaskEnds(q)

-----------------------------------------------------------------------------
Holders == {q \in Query : job[q] \in HoldsPermit}
HoldersOn(c) == {q \in Holders : on[q] = c}

\* The counters are the queries at work, in all and on each connection: no
\* refusal, error or cancellation keeps a permit or gives one back twice
\* (security.rs, QueryPermit).
PermitsMatch ==
    /\ total = Cardinality(Holders)
    /\ \A c \in Conn : perConn[c] = Cardinality(HoldersOn(c))
=============================================================================
