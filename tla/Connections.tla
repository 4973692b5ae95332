----------------------------- MODULE Connections -----------------------------
(***************************************************************************)
(* Connections as the operator handles them: the dialog that connects,     *)
(* tests and repairs, the start that restores the saved connections, the   *)
(* sidebar that disconnects and queries, and the list of connected         *)
(* databases in the workspace store (App.tsx, ConnectionDialog.tsx,        *)
(* ConnectionDoctor.ts).  One action is the code between two awaits.  One  *)
(* flow of each kind is under way at a time.                               *)
(***************************************************************************)
EXTENDS ConnectionManager

CONSTANTS
    MaxCalls      \* bound: flows under way at the same time

ASSUME ConnectionsAssumption ==
    /\ Caller \subseteq {"connect", "test", "restore", "disconnect", "query"}
    /\ MaxCalls \in Nat

VARIABLES
    flow,       \* what each caller awaits
    listed,     \* connections of the workspace store
    restoring,  \* saved connections still to be restored
    excuse      \* ghost: why a connection may differ from what the sidebar shows: it was
                \* "tested", closed or left open by a test or a repair, or "refused", open
                \* when the keychain did not take its secret, or "raced", when two flows, or
                \* a flow and the monitor's reconnect, met on it

front == <<flow, listed, restoring>>
vars == <<manager, front, excuse>>

Init ==
    /\ ManagerInit
    /\ flow = [c \in Caller |-> "idle"]
    /\ listed = {}
    /\ restoring \in SUBSET Id
    /\ excuse = [i \in Id |-> "none"]

-----------------------------------------------------------------------------
Writers(i) == {c \in Caller : flow[c] # "idle" /\ c # "query" /\ command[c].id = i}
              \cup {p \in {Monitor} : monitor.id = i /\ monitor.step \in {"open", "insert", "configure"}}

\* Nobody is about to open or close it.
Calm(i) == Writers(i) = {}

Free(c) ==
    /\ c \in Caller
    /\ flow[c] = "idle"
    /\ Cardinality({d \in Caller : flow[d] # "idle"}) < MaxCalls

Await(c, stage) == flow' = [flow EXCEPT ![c] = stage]

Ends(c) ==
    /\ flow' = [flow EXCEPT ![c] = "idle"]
    /\ command' = [command EXCEPT ![c] = NoCommand]

\* The ghost after a step that gives the connections of S the excuse e.
Excuses(S, e) ==
    excuse' = [i \in Id |-> IF excuse[i] = "raced" \/ Cardinality(Writers(i)') > 1 THEN "raced"
                            ELSE IF i \in S THEN e
                            ELSE excuse[i]]
Excused == Excuses({}, "none")

OnlyCommands == UNCHANGED <<pool, conf, monitor, failures, up>>

-----------------------------------------------------------------------------
\* Flows.

\* restoreSavedConnections.
RestoreStarts(i, config) ==
    /\ i \in restoring /\ Free("restore")
    /\ restoring' = restoring \ {i}
    /\ Await("restore", "connecting")
    /\ Connect("restore", i, config)
    /\ OnlyCommands
    /\ Excused
    /\ UNCHANGED listed

RestoreReturns ==
    /\ "restore" \in Caller
    /\ flow["restore"] = "connecting" /\ Answered("restore")
    /\ OnlyCommands
    /\ LET i == command["restore"].id
           opened == command["restore"].step = "done"
       IN  /\ listed' = IF opened THEN listed \cup {i} ELSE listed
           /\ Ends("restore")
           /\ Excuses(IF opened THEN {i} ELSE {}, "none")
    /\ UNCHANGED restoring

\* handleConnect and handleQuickConnect of the dialog.
ConnectStarts(i, config) ==
    /\ Free("connect")
    /\ Await("connect", "connecting")
    /\ Connect("connect", i, config)
    /\ OnlyCommands
    /\ Excused
    /\ UNCHANGED <<listed, restoring>>

\* Mutant: a connection that was repaired is not added to the store.
ConnectedUnlessFixed(i) ==
    /\ listed' = IF flow["connect"] = "fixing" THEN listed ELSE listed \cup {i}
    /\ Ends("connect")
    /\ Excuses({i}, "none")

\* handleConnect of the application: the connection is added, the save is not awaited.
Connected(i) ==
    /\ listed' = listed \cup {i}
    /\ Ends("connect")
    /\ Excuses({i}, "none")

\* diagnoseConnection tries other configurations and closes the connection of each
\* that fails.
ConnectReturns ==
    /\ "connect" \in Caller
    /\ Answered("connect")
    /\ OnlyCommands
    /\ LET i == command["connect"].id
           opened == command["connect"].step = "done"
       IN  \/ /\ flow["connect"] \in {"connecting", "fixing"} /\ opened
              /\ Connected(i)
           \/ /\ flow["connect"] = "connecting" /\ ~opened
              /\ Ends("connect")
              /\ Excused
              /\ UNCHANGED listed
           \/ /\ \/ flow["connect"] = "connecting" /\ ~opened
                 \/ flow["connect"] = "cleaning"
              /\ \E config \in Config : Connect("connect", i, config)
              /\ Await("connect", "fixing")
              /\ Excused
              /\ UNCHANGED listed
           \/ /\ flow["connect"] = "fixing" /\ ~opened
              /\ Disconnect("connect", i)
              /\ Await("connect", "cleaning")
              /\ Excuses({i}, "tested")
              /\ UNCHANGED listed
           \/ /\ flow["connect"] = "cleaning"
              /\ Ends("connect")
              /\ Excused
              /\ UNCHANGED listed
    /\ UNCHANGED restoring

\* handleTestConnection, with the id of the saved connection it resembles.
TestStarts(i, config) ==
    /\ Free("test")
    /\ "connect" \in Caller => flow["connect"] = "idle"
    /\ Await("test", "connecting")
    /\ Connect("test", i, config)
    /\ OnlyCommands
    /\ Excused
    /\ UNCHANGED <<listed, restoring>>

TestReturns ==
    /\ "test" \in Caller
    /\ Answered("test")
    /\ OnlyCommands
    /\ LET i == command["test"].id
           done == command["test"].step = "done"
       IN  \/ /\ flow["test"] = "connecting" /\ done
              /\ Ping("test", i)
              /\ Await("test", "pinging")
              /\ Excused
           \/ /\ flow["test"] = "pinging" /\ done
              /\ Disconnect("test", i)
              /\ Await("test", "closing")
              /\ Excuses({i}, "tested")
           \/ /\ \/ flow["test"] = "connecting" /\ ~done
                 \/ flow["test"] = "closing"
              /\ Ends("test")
              /\ Excused
           \/ /\ flow["test"] = "pinging" /\ ~done
              /\ Ends("test")
              /\ Excuses({i}, "tested")
    /\ UNCHANGED <<listed, restoring>>

\* handleDisconnect of the sidebar.
DisconnectStarts(i) ==
    /\ i \in listed /\ Free("disconnect")
    /\ Await("disconnect", "closing")
    /\ Disconnect("disconnect", i)
    /\ OnlyCommands
    /\ Excused
    /\ UNCHANGED <<listed, restoring>>

DisconnectReturns ==
    /\ "disconnect" \in Caller
    /\ flow["disconnect"] = "closing" /\ Answered("disconnect")
    /\ OnlyCommands
    /\ LET i == command["disconnect"].id
       IN  /\ listed' = listed \ {i}
           /\ Ends("disconnect")
           /\ Excuses({i}, "none")
    /\ UNCHANGED restoring

\* A query or a schema request.
QueryStarts(i) ==
    /\ i \in listed /\ Free("query")
    /\ Await("query", "pinging")
    /\ Query("query", i)
    /\ OnlyCommands
    /\ Excused
    /\ UNCHANGED <<listed, restoring>>

QueryReturns ==
    /\ "query" \in Caller
    /\ flow["query"] = "pinging" /\ Answered("query")
    /\ Ends("query")
    /\ OnlyCommands
    /\ Excused
    /\ UNCHANGED <<listed, restoring>>

-----------------------------------------------------------------------------
Operator ==
    \E i \in Id : \/ \E config \in Config : \/ RestoreStarts(i, config)
                                            \/ ConnectStarts(i, config)
                                            \/ TestStarts(i, config)
                  \/ DisconnectStarts(i) \/ QueryStarts(i)

Returns == \/ RestoreReturns \/ ConnectReturns \/ TestReturns \/ DisconnectReturns
           \/ QueryReturns

\* The connections whose db_connect fails although they are open.
Refused ==
    {command[c].id : c \in {d \in Caller : /\ command[d].step = "configure"
                                          /\ command'[d].step = "failed"}}

NativeSide == /\ (\E c \in Caller : CommandStep(c)) \/ MonitorStep \/ ServerChanges
              /\ UNCHANGED front
              /\ Excuses(Refused, "refused")

Next == Operator \/ Returns \/ NativeSide

Spec == Init /\ [][Next]_vars

\* The monitor's timers fire and its drivers answer or fail.
Fairness == WF_vars(MonitorStep /\ UNCHANGED front /\ Excused)

FairSpec == Spec /\ Fairness

-----------------------------------------------------------------------------
\* When nobody is about to open or close a connection, its configuration, which
\* the read-only policy is read from, is the one its pool was opened with, and
\* there is none without a pool, unless two flows or a reconnect met on the
\* connection (connection_manager.rs 251-265).
ConfigMatchesPool ==
    \A i \in Id : Calm(i) /\ excuse[i] # "raced" => conf[i] = pool[i]

\* A connection in the sidebar is open, unless a test or a repair closed it, and an open one
\* is in the sidebar, unless a test left it open or db_connect failed because the keychain
\* did not take the secret; that one is open, and stays so, in the sidebar or not.  No
\* restore, repair, disconnect or outage, and no reconnect that fails, parts them; two flows
\* that meet on one connection may (App.tsx 391, 845, 881; ConnectionDialog.tsx 385;
\* ConnectionDoctor.ts 322; commands/connection.rs 21).
SidebarShowsOpen ==
    \A i \in Id : Calm(i) =>
        /\ excuse[i] = "none" => (i \in listed <=> pool[i] # None)
        /\ excuse[i] = "refused" => pool[i] # None

\* Who waits to open or close a connection, and the readers behind it, finds the lock
\* free in the end, whatever server the monitor asks while it holds it: the time-out
\* ends the ping (connection_manager.rs 284, health_monitor.rs 34).
LockComesFree == WriterWaits ~> MayWrite
=============================================================================
