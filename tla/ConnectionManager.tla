-------------------------- MODULE ConnectionManager --------------------------
(***************************************************************************)
(* The native side of a connection: open pools and their configurations in *)
(* two maps, the lock of the pools, the commands that connect, disconnect, *)
(* ping and query, and the health monitor that pings every pool and        *)
(* reconnects (src-tauri/src/db/connection_manager.rs, health_monitor.rs,  *)
(* commands/connection.rs).                                                *)
(*                                                                         *)
(* Both maps are behind a fair read-write lock.  Only the monitor holds a  *)
(* lock across an await, the one of the pools while it waits for the       *)
(* answer of a server; any other use of a lock is one step.                *)
(***************************************************************************)
EXTENDS Naturals, FiniteSets

CONSTANTS
    Id,             \* connection ids
    Config,         \* configurations a connection may be opened with
    None,           \* no configuration
    Caller,         \* the calls the frontend may have under way
    Monitor,        \* the health monitor
    MaxReconnects   \* MAX_RECONNECT_ATTEMPTS

ASSUME ManagerAssumption ==
    /\ None \notin Config
    /\ Monitor \notin Caller
    /\ MaxReconnects \in Nat \ {0}

VARIABLES
    pool,      \* connections: the configuration each open pool was opened with
    conf,      \* configs
    command,   \* the command each caller has issued
    monitor,   \* where the loop of the monitor is
    failures,  \* failure_counts, cut off above MaxReconnects
    up         \* servers that answer

manager == <<pool, conf, command, monitor, failures, up>>

SomeId == CHOOSE i \in Id : TRUE
Resting == [step |-> "rest", todo |-> {}, id |-> SomeId, config |-> None]

\* A command is "connect", "disconnect", "ping", "query" or "none"; its step is what it
\* does next, or "done" or "failed".
NoCommand == [op |-> "none", id |-> SomeId, config |-> None, step |-> "done"]

ManagerInit ==
    /\ pool = [i \in Id |-> None]
    /\ conf = [i \in Id |-> None]
    /\ command = [c \in Caller |-> NoCommand]
    /\ monitor = Resting
    /\ failures = [i \in Id |-> 0]
    /\ up = Id

-----------------------------------------------------------------------------
\* The lock of the pools: the monitor holds it for reading while a server is asked.
pinged == monitor.step = "answer"

\* A writer waits for the answer, and a reader behind a writer waits with it.
WriterWaits == \E c \in Caller : command[c].step \in {"insert", "remove"}
MayRead == ~(pinged /\ WriterWaits)
MayWrite == ~pinged

Busy(c) == command[c].op # "none" /\ command[c].step \notin {"done", "failed"}

Goto(c, step) == command' = [command EXCEPT ![c].step = step]
Answer(c, step) == command' = [command EXCEPT ![c].step = step, ![c].config = None]

-----------------------------------------------------------------------------
\* The commands.

Issue(c, op, id, config, step) ==
    command' = [command EXCEPT ![c] = [op |-> op, id |-> id, config |-> config, step |-> step]]

Connect(c, id, config) == Issue(c, "connect", id, config, "open")
Disconnect(c, id) == Issue(c, "disconnect", id, None, "remove")
Ping(c, id) == Issue(c, "ping", id, None, "get")
Query(c, id) == Issue(c, "query", id, None, "policy")

Answered(c) == command[c].op # "none" /\ command[c].step \in {"done", "failed"}

\* ConnectionManager::connect: the driver opens a pool or reports an error.
Opens(c) ==
    /\ command[c].step = "open"
    /\ \/ command[c].id \in up /\ Goto(c, "insert")
       \/ Answer(c, "failed")
    /\ UNCHANGED <<pool, conf, monitor, failures, up>>

Inserts(c) ==
    /\ command[c].step = "insert" /\ MayWrite
    /\ pool' = [pool EXCEPT ![command[c].id] = command[c].config]
    /\ Goto(c, "configure")
    /\ UNCHANGED <<conf, monitor, failures, up>>

\* Mutant: a connection that was open keeps its configuration.
ConfiguresOnce(c) ==
    LET id == command[c].id
    IN  /\ command[c].step = "configure"
        /\ conf' = IF conf[id] = None THEN [conf EXCEPT ![id] = command[c].config] ELSE conf
        /\ \/ Answer(c, "done") \/ Answer(c, "failed")
        /\ UNCHANGED <<pool, monitor, failures, up>>

\* The connection is open when its secret is put into the keychain: if that fails, so does
\* db_connect, and nothing is closed.
Configures(c) ==
    /\ command[c].step = "configure"
    /\ conf' = [conf EXCEPT ![command[c].id] = command[c].config]
    /\ \/ Answer(c, "done") \/ Answer(c, "failed")
    /\ UNCHANGED <<pool, monitor, failures, up>>

\* ConnectionManager::disconnect.
Removes(c) ==
    /\ command[c].step = "remove" /\ MayWrite
    /\ pool' = [pool EXCEPT ![command[c].id] = None]
    /\ Goto(c, "unconfigure")
    /\ UNCHANGED <<conf, monitor, failures, up>>

Unconfigures(c) ==
    /\ command[c].step = "unconfigure"
    /\ conf' = [conf EXCEPT ![command[c].id] = None]
    /\ Answer(c, "done")
    /\ UNCHANGED <<pool, monitor, failures, up>>

\* db_execute and db_execute_streaming read the configuration, then the pool;
\* db_ping only the pool.
ReadsPolicy(c) ==
    /\ command[c].step = "policy"
    /\ \/ conf[command[c].id] # None /\ Goto(c, "get")
       \/ conf[command[c].id] = None /\ Answer(c, "failed")
    /\ UNCHANGED <<pool, conf, monitor, failures, up>>

Gets(c) ==
    /\ command[c].step = "get" /\ MayRead
    /\ IF pool[command[c].id] = None THEN Answer(c, "failed") ELSE Goto(c, "run")
    /\ UNCHANGED <<pool, conf, monitor, failures, up>>

\* The server runs the statement; the lock is not held.
Runs(c) ==
    /\ command[c].step = "run"
    /\ \/ command[c].id \in up /\ Answer(c, "done")
       \/ Answer(c, "failed")
    /\ UNCHANGED <<pool, conf, monitor, failures, up>>

CommandStep(c) ==
    \/ Opens(c) \/ Inserts(c) \/ Configures(c) \/ Removes(c) \/ Unconfigures(c)
    \/ ReadsPolicy(c) \/ Gets(c) \/ Runs(c)

-----------------------------------------------------------------------------
\* The health monitor.

MonitorAt(step) == monitor' = [monitor EXCEPT !.step = step]

\* The next connection of the round, which is pinged, or the wait for the next tick.
NextConnection(todo) ==
    \/ todo = {} /\ monitor' = Resting
    \/ \E i \in todo : monitor' = [step |-> "ping", id |-> i, config |-> None, todo |-> todo \ {i}]

\* The tick and list_connection_ids.
Tick ==
    /\ monitor.step = "rest"
    /\ NextConnection({i \in Id : pool[i] # None})
    /\ UNCHANGED <<pool, conf, command, failures, up>>

Alive ==
    /\ failures' = [failures EXCEPT ![monitor.id] = 0]
    /\ NextConnection(monitor.todo)

Dead ==
    LET count == failures[monitor.id] + 1
    IN  /\ failures' = [failures EXCEPT ![monitor.id] = IF count > MaxReconnects + 1 THEN @ ELSE count]
        /\ IF count <= MaxReconnects THEN MonitorAt("config")
                                    ELSE NextConnection(monitor.todo)

\* ConnectionManager::ping has the lock: without a pool there is no answer to wait
\* for.
PingLooks ==
    /\ monitor.step = "ping"
    /\ \/ /\ pool[monitor.id] = None
          /\ Dead
       \/ /\ pool[monitor.id] # None
          /\ MonitorAt("answer")
          /\ UNCHANGED failures
    /\ UNCHANGED <<pool, conf, command, up>>

PingAnswers ==
    /\ monitor.step = "answer" /\ monitor.id \in up
    /\ Alive
    /\ UNCHANGED <<pool, conf, command, up>>

\* Mutant: without the time-out only a server that answers ends a ping.
PingWaits ==
    /\ monitor.step = "answer" /\ monitor.id \in up
    /\ Dead
    /\ UNCHANGED <<pool, conf, command, up>>

\* An error, a panic, or the time-out.  (The time-out also runs while the ping
\* waits for the lock, but nobody else holds the lock for longer than a step.)
PingFails ==
    /\ monitor.step = "answer" /\ monitor.id \notin up
    /\ Dead
    /\ UNCHANGED <<pool, conf, command, up>>

\* get_config: a connection that was closed is not reconnected.
ReadsConfig ==
    LET config == conf[monitor.id]
    IN  /\ monitor.step = "config"
        /\ IF config = None
             THEN NextConnection(monitor.todo)
             ELSE monitor' = [monitor EXCEPT !.step = "open", !.config = config]
        /\ UNCHANGED <<pool, conf, command, failures, up>>

Reopens ==
    /\ monitor.step = "open"
    /\ \/ monitor.id \in up /\ MonitorAt("insert")
       \/ NextConnection(monitor.todo)
    /\ UNCHANGED <<pool, conf, command, failures, up>>

Reinserts ==
    /\ monitor.step = "insert"
    /\ pool' = [pool EXCEPT ![monitor.id] = monitor.config]
    /\ MonitorAt("configure")
    /\ UNCHANGED <<conf, command, failures, up>>

Reconfigures ==
    /\ monitor.step = "configure"
    /\ conf' = [conf EXCEPT ![monitor.id] = monitor.config]
    /\ failures' = [failures EXCEPT ![monitor.id] = 0]
    /\ NextConnection(monitor.todo)
    /\ UNCHANGED <<pool, command, up>>

MonitorStep ==
    \/ Tick \/ PingLooks \/ PingAnswers \/ PingFails
    \/ ReadsConfig \/ Reopens \/ Reinserts \/ Reconfigures

\* A server stops to answer, or answers again.
ServerChanges ==
    /\ \E i \in Id : up' = IF i \in up THEN up \ {i} ELSE up \cup {i}
    /\ UNCHANGED <<pool, conf, command, monitor, failures>>
=============================================================================
