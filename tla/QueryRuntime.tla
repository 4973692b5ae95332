---------------------------- MODULE QueryRuntime ----------------------------
(***************************************************************************)
(* Queries as the workbench runs them: tabs, one handle and one row store  *)
(* shared by all of them, the listener that is registered after the query  *)
(* was started, Stop, tab changes, re-execution by sort or filter, and the *)
(* agent's own ways to run a query (src/lib/query, src/lib/table,          *)
(* WorkspaceStore.ts, registerHandlers.ts).  One action is the code        *)
(* between two awaits.                                                     *)
(*                                                                         *)
(* The ghost `upset' names what has happened that the code has no guard    *)
(* for; the properties say which guarantees need which of them to be       *)
(* absent.                                                                 *)
(***************************************************************************)
EXTENDS NativeQueries

CONSTANTS
    Tab,          \* the tabs
    NoQuery,      \* no query
    Uses,         \* which connections each way to run a query is used on
    StoreLimit,   \* MAX_ROWS, counted in batches
    MaxSwitches,  \* bound: tab changes
    MaxUpset      \* bound: kinds of unguarded events in one behaviour

ASSUME RuntimeAssumption ==
    /\ Query \subseteq Nat /\ NoQuery \notin Query
    /\ Uses \in [{"run", "script", "explain", "agent", "duckdb"} -> SUBSET Conn]
    /\ StoreLimit \in Nat \ {0}
    /\ Tab # {} /\ MaxSwitches \in Nat /\ MaxUpset \in Nat

VARIABLES
    query,      \* the call that runs a query: kind, home, phase, rows, outcome
    tab,        \* what a tab shows: executing, base, results
    active,     \* activeTabId
    handle,     \* currentQueryHandleRef
    store,      \* rowStore
    stopping,   \* the cancel that handleStop awaits
    upset,      \* ghost: what happened that nothing guards against
    switches    \* bound: tab changes so far

front == <<query, tab, active, handle, store, stopping, upset, switches>>
vars == <<native, front>>

\* A call goes through the phases "statement" of a script, "starting", "listening" and
\* "live" to "dead"; its outcome is "completed", "failed", "stopped" or "timed out".
NoResults == [query |-> NoQuery, rows |-> <<>>]
NotStopping == [query |-> NoQuery, served |-> FALSE]
FirstTab == CHOOSE t \in Tab : TRUE

Init ==
    /\ NativeInit
    /\ query = [q \in Query |-> [kind |-> "none", home |-> FirstTab, base |-> NoQuery,
                                 phase |-> "none", rows |-> <<>>, outcome |-> "none"]]
    /\ tab = [t \in Tab |-> [executing |-> FALSE, base |-> NoQuery,
                             results |-> NoResults]]
    /\ active = FirstTab
    /\ handle = NoQuery
    /\ store = [query |-> NoQuery, rows |-> <<>>, streaming |-> FALSE]
    /\ stopping = NotStopping
    /\ upset = {}
    /\ switches = 0

-----------------------------------------------------------------------------
\* Helpers.

Live(q) == query[q].phase # "none" /\ query[q].outcome = "none"

\* The call that runs q has awaits before it, or batches to come.
InFlight(q) == \/ query[q].phase \in {"statement", "starting", "listening"}
               \/ query[q].phase = "live" /\ query[q].outcome = "none"

Busy == stopping.query # NoQuery \/ \E q \in Query : InFlight(q)

Upset(h, happened) ==
    /\ upset' = IF happened THEN upset \cup {h} ELSE upset
    /\ Cardinality(upset') <= MaxUpset

\* rowStore: reset, appendBatch with its ring buffer, finalize.
Reset(q) == [query |-> q, rows |-> <<>>, streaming |-> TRUE]

LastRows(rows) == IF Len(rows) <= StoreLimit
                  THEN rows
                  ELSE SubSeq(rows, Len(rows) - StoreLimit + 1, Len(rows))

\* Mutant: the ring buffer keeps the oldest rows.
AppendBatchKeepFirst(q, k) ==
    [store EXCEPT !.rows = IF Len(@) < StoreLimit THEN Append(@, <<q, k>>) ELSE @]
AppendBatch(q, k) == [store EXCEPT !.rows = LastRows(Append(@, <<q, k>>))]

Finalized(s) == [s EXCEPT !.streaming = FALSE]

\* setTabExecuting(false), like every setter without a tab id: the active tab.
Idle == [tab EXCEPT ![active].executing = FALSE]

\* executeStreaming up to the await, and the agent's runStreamingQuery.
Started(q) == [tab EXCEPT ![active] = [@ EXCEPT !.executing = TRUE, !.base = q]]

WithPhase(q, phase) == [query EXCEPT ![q].phase = phase]

\* A query is settled once.
Settled(q, phase, outcome) ==
    [query EXCEPT ![q].phase = phase,
                  ![q].outcome = IF @ = "none" THEN outcome ELSE @]

-----------------------------------------------------------------------------
\* Starting a query.

\* Ids are given in the order of launch (a convention of the model).
Launch(q, c, kind, base, phase) ==
    /\ query[q].phase = "none"
    /\ \A p \in Query : p < q => query[p].phase # "none"
    /\ query' = [query EXCEPT ![q] = [@ EXCEPT !.kind = kind, !.home = active,
                                               !.base = base, !.phase = phase]]
    /\ on' = [on EXCEPT ![q] = c]
    /\ Upset("overlap", Busy)

\* handleExecute, one statement.
Run(q, c) ==
    /\ c \in Uses["run"]
    /\ ~tab[active].executing
    /\ Launch(q, c, "run", q, "starting")
    /\ tab' = Started(q)
    /\ request' = [request EXCEPT ![q] = "stream"]
    /\ UNCHANGED <<job, sent, reply, total, perConn, cancelled, listeners, events, missed,
                   active, handle, store, stopping, switches>>

\* handleExecute, a statement to execute before the last one is streamed.
RunScript(q, c) ==
    /\ c \in Uses["script"]
    /\ ~tab[active].executing
    /\ Launch(q, c, "run", q, "statement")
    /\ tab' = [tab EXCEPT ![active].executing = TRUE]
    /\ request' = [request EXCEPT ![q] = "execute"]
    /\ UNCHANGED <<job, sent, reply, total, perConn, cancelled, listeners, events, missed,
                   active, handle, store, stopping, switches>>

\* handleExplain: the shortcut does not look at isExecuting.
Explain(q, c) ==
    /\ c \in Uses["explain"]
    /\ Launch(q, c, "run", q, "starting")
    /\ tab' = Started(q)
    /\ request' = [request EXCEPT ![q] = "stream"]
    /\ UNCHANGED <<job, sent, reply, total, perConn, cancelled, listeners, events, missed,
                   active, handle, store, stopping, switches>>

\* QueryManager: a change of sort or filter re-executes the query of the tab on
\* the connection of its view.
Reexecute(q) ==
    /\ tab[active].base # NoQuery
    /\ Launch(q, on[tab[active].base], "sort", tab[active].base, "starting")
    /\ request' = [request EXCEPT ![q] = "stream"]
    /\ UNCHANGED <<job, sent, reply, total, perConn, cancelled, listeners, events, missed,
                   tab, active, handle, store, stopping, switches>>

\* The agent's execute_sql listens before it starts the query.
AgentRuns(q, c) ==
    /\ c \in Uses["agent"]
    /\ Launch(q, c, "agent", q, "listening")
    /\ tab' = Started(q)
    /\ UNCHANGED <<job, sent, request, reply, total, perConn, cancelled, listeners, events,
                   missed, active, handle, store, stopping, switches>>

\* The agent's run_duckdb_analysis shows rows and no tab.
AgentAnalyses(q, c) ==
    /\ c \in Uses["duckdb"]
    /\ Driver[c] = "duckdb"
    /\ Launch(q, c, "duckdb", NoQuery, "starting")
    /\ request' = [request EXCEPT ![q] = "stream"]
    /\ UNCHANGED <<job, sent, reply, total, perConn, cancelled, listeners, events, missed,
                   tab, active, handle, store, stopping, switches>>

-----------------------------------------------------------------------------
\* From the launch to the listener.

TakeReply(q) == reply' = [reply EXCEPT ![q] = "none"]

\* Mutant: the failure of a statement is not caught.
StatementReturnsOk(q) ==
    /\ query[q].phase = "statement" /\ reply[q] = "ok"
    /\ TakeReply(q)
    /\ tab' = Started(q)
    /\ query' = WithPhase(q, "starting")
    /\ request' = [request EXCEPT ![q] = "stream"]
    /\ UNCHANGED <<job, on, sent, total, perConn, cancelled, listeners, events, missed,
                   active, handle, store, stopping, upset, switches>>

\* The first statement of a script is done: stream the last one, in whatever
\* tab is active now, or give up.
StatementReturns(q) ==
    /\ query[q].phase = "statement" /\ reply[q] # "none"
    /\ TakeReply(q)
    /\ \/ /\ reply[q] = "ok"
          /\ tab' = Started(q)
          /\ query' = WithPhase(q, "starting")
          /\ request' = [request EXCEPT ![q] = "stream"]
       \/ /\ reply[q] = "error"
          /\ tab' = Idle
          /\ query' = Settled(q, "dead", "failed")
          /\ UNCHANGED request
    /\ UNCHANGED <<job, on, sent, total, perConn, cancelled, listeners, events, missed,
                   active, handle, store, stopping, upset, switches>>

\* The query is started: the row store is reset and, unless the agent has done
\* so before, a listener is asked for.
StartReturns(q) ==
    /\ query[q].phase = "starting" /\ reply[q] = "ok"
    /\ TakeReply(q)
    /\ store' = Reset(q)
    /\ query' = WithPhase(q, IF query[q].kind = "agent" THEN "live" ELSE "listening")
    /\ UNCHANGED <<job, on, sent, request, total, perConn, cancelled, listeners, events,
                   missed, tab, active, handle, stopping, upset, switches>>

\* The start is refused: executeStreaming finalises the handle, QueryManager the
\* row store, the agent's command its tab and the row store.
StartFails(q) ==
    LET kind == query[q].kind
    IN  /\ query[q].phase = "starting" /\ reply[q] = "error"
        /\ TakeReply(q)
        /\ query' = Settled(q, "dead", "failed")
        /\ handle' = IF kind = "run" THEN NoQuery ELSE handle
        /\ tab' = IF kind \in {"run", "agent"} THEN Idle ELSE tab
        /\ store' = IF kind \in {"sort", "agent"} THEN Finalized(store) ELSE store
        /\ listeners' = IF kind = "agent" THEN listeners \ {q} ELSE listeners
        /\ UNCHANGED <<job, on, sent, request, total, perConn, cancelled, events, missed,
                       active, stopping, upset, switches>>

\* The native side registers the listener, then answers.
Register(q) ==
    /\ query[q].phase = "listening" /\ q \notin listeners
    /\ listeners' = listeners \cup {q}
    /\ UNCHANGED <<job, on, sent, request, reply, total, perConn, cancelled, events, missed,
                   front>>

\* Mutant: the handle is not kept.
ListenReturnsNoHandle(q) ==
    /\ query[q].phase = "listening" /\ q \in listeners
    /\ query' = WithPhase(q, IF query[q].kind = "agent" THEN "starting" ELSE "live")
    /\ request' = IF query[q].kind = "agent" THEN [request EXCEPT ![q] = "stream"]
                                             ELSE request
    /\ UNCHANGED <<job, on, sent, reply, total, perConn, cancelled, listeners, events,
                   missed, tab, active, handle, store, stopping, upset, switches>>

\* listen returns.  Only now a handler can stop listening, and only now the
\* controller has a handle, also when the query has settled in between.
ListenReturns(q) ==
    LET kind == query[q].kind
    IN  /\ query[q].phase = "listening" /\ q \in listeners
        /\ query' = WithPhase(q, IF kind = "agent" THEN "starting" ELSE "live")
        /\ request' = IF kind = "agent" THEN [request EXCEPT ![q] = "stream"] ELSE request
        /\ handle' = IF kind = "run" THEN q ELSE handle
        /\ UNCHANGED <<job, on, sent, reply, total, perConn, cancelled, listeners, events,
                       missed, tab, active, store, stopping, upset, switches>>

-----------------------------------------------------------------------------
\* Batches.

\* The agent's handler drops what comes before it knows the query's id.
Hears(q) == q \in listeners /\ (query[q].kind = "agent" => query[q].phase = "live")

Heard(q, k) == [query EXCEPT ![q].rows = Append(@, k)]

\* Mutant: the results of a re-execution go to the active tab.
ShowsInActive(q, results) == [Idle EXCEPT ![active].results = results]

\* Where results are put: a re-execution names its tab, the others do not.
ShowsIn(q, results) ==
    CASE query[q].kind = "sort"   -> [tab EXCEPT ![query[q].home].results = results]
      [] query[q].kind = "duckdb" -> tab
      [] OTHER                    -> [Idle EXCEPT ![active].results = results]

\* Mutant: the rows of the last batch are left out of the results.
CompletesShort(q, k) ==
    /\ store' = Finalized(AppendBatch(q, k))
    /\ query' = Settled(q, query[q].phase, "completed")
    /\ tab' = ShowsIn(q, [query |-> q, rows |-> query[q].rows])
    /\ handle' = IF query[q].kind = "run" THEN NoQuery ELSE handle

Completes(q, k) ==
    /\ store' = Finalized(AppendBatch(q, k))
    /\ query' = [Settled(q, query[q].phase, "completed") EXCEPT ![q].rows = Append(@, k)]
    /\ tab' = ShowsIn(q, [query |-> q, rows |-> Append(query[q].rows, k)])
    /\ handle' = IF query[q].kind = "run" THEN NoQuery ELSE handle

Fails(q) ==
    /\ store' = Finalized(store)
    /\ query' = Settled(q, query[q].phase, "failed")
    /\ tab' = IF query[q].kind \in {"run", "agent"} THEN Idle ELSE tab
    /\ handle' = IF query[q].kind = "run" THEN NoQuery ELSE handle

\* The oldest event reaches the handler of its query, if there is one.
Deliver ==
    /\ events # <<>>
    /\ events' = Tail(events)
    /\ LET q == Head(events).query
           k == Head(events).batch
       IN  \/ /\ ~Hears(q)
              /\ missed' = IF q \in listeners THEN missed \cup {q} ELSE missed
              /\ UNCHANGED <<query, tab, handle, store, listeners>>
           \/ /\ Hears(q) /\ Head(events).kind = "rows"
              /\ store' = AppendBatch(q, k)
              /\ query' = Heard(q, k)
              /\ UNCHANGED <<tab, handle, listeners, missed>>
           \/ /\ Hears(q) /\ Head(events).kind # "rows"
              /\ IF Head(events).kind = "final" THEN Completes(q, k) ELSE Fails(q)
              /\ listeners' = IF query[q].phase = "live" THEN listeners \ {q} ELSE listeners
              /\ UNCHANGED missed
    /\ UNCHANGED <<job, on, sent, request, reply, total, perConn, cancelled, active,
                   stopping, upset, switches>>

-----------------------------------------------------------------------------
\* Stop, time-outs and tabs.

\* Mutant: Stop cancels and goes on listening.
StopListening ==
    /\ tab[active].executing /\ stopping = NotStopping
    /\ handle # NoQuery
    /\ stopping' = [query |-> handle, served |-> FALSE]
    /\ query' = Settled(handle, query[handle].phase, "stopped")
    /\ store' = Finalized(store)
    /\ UNCHANGED <<tab, listeners>>

\* With a handle, Stop ends the listening and asks for the cancellation.
StopHandle ==
    /\ tab[active].executing /\ stopping = NotStopping
    /\ handle # NoQuery
    /\ stopping' = [query |-> handle, served |-> FALSE]
    /\ query' = Settled(handle, query[handle].phase, "stopped")
    /\ store' = Finalized(store)
    /\ listeners' = listeners \ {handle}
    /\ UNCHANGED tab

\* Without one there is nothing to cancel and the tab is shown idle.
StopNothing ==
    /\ tab[active].executing /\ stopping = NotStopping
    /\ handle = NoQuery
    /\ tab' = Idle
    /\ UNCHANGED <<stopping, query, store, listeners>>

\* handleStop up to the await.  Pressing it again while it awaits does the same
\* to the same handle and is left out.
Stop ==
    /\ StopHandle \/ StopNothing
    /\ Upset("early stop", handle = NoQuery \/ ~Live(handle))
    /\ UNCHANGED <<job, on, sent, request, reply, total, perConn, cancelled, events, missed,
                   active, handle, switches>>

\* db_cancel_query.
ServeCancel ==
    /\ stopping.query # NoQuery /\ ~stopping.served
    /\ cancelled' = cancelled \cup {stopping.query}
    /\ stopping' = [stopping EXCEPT !.served = TRUE]
    /\ UNCHANGED <<job, on, sent, request, reply, total, perConn, listeners, events, missed,
                   query, tab, active, handle, store, upset, switches>>

StopReturns ==
    /\ stopping.served
    /\ stopping' = NotStopping
    /\ handle' = NoQuery
    /\ tab' = Idle
    /\ UNCHANGED <<native, query, active, store, upset, switches>>

\* The timers of the agent's two commands.  listen is a local call that returns
\* long before.
AgentTimesOut(q) ==
    /\ query[q].kind \in {"agent", "duckdb"} /\ query[q].outcome = "none"
    /\ \/ query[q].phase = "live"
       \/ query[q].phase = "starting" /\ query[q].kind = "agent"
    /\ query' = Settled(q, query[q].phase, "timed out")
    /\ store' = Finalized(store)
    /\ tab' = IF query[q].kind = "agent" THEN Idle ELSE tab
    /\ listeners' = listeners \ {q}
    /\ Upset("agent timeout", query[q].phase = "starting")
    /\ UNCHANGED <<job, on, sent, request, reply, total, perConn, cancelled, events, missed,
                   active, handle, stopping, switches>>

\* The agent's cancel_query cancels nothing.
AgentCancels ==
    /\ Uses["agent"] # {} /\ Busy
    /\ tab' = Idle
    /\ store' = Finalized(store)
    /\ Upset("early stop", TRUE)
    /\ UNCHANGED <<native, query, active, handle, stopping, switches>>

SwitchTab(t) ==
    /\ t # active /\ switches < MaxSwitches
    /\ active' = t
    /\ switches' = switches + 1
    /\ Upset("switch", Busy)
    /\ UNCHANGED <<native, query, tab, handle, store, stopping>>

\* VirtualTable shows the results of the active tab when the store is empty and
\* nothing streams.
Hydrate ==
    LET results == tab[active].results
    IN  /\ ~store.streaming /\ store.rows = <<>> /\ results.rows # <<>>
        /\ store' = [query |-> results.query,
                     rows |-> [i \in 1..Len(results.rows) |->
                                   <<results.query, results.rows[i]>>],
                     streaming |-> FALSE]
        /\ UNCHANGED <<native, query, tab, active, handle, stopping, upset, switches>>

-----------------------------------------------------------------------------
Begin(q) == \/ \E c \in Conn : Run(q, c) \/ RunScript(q, c) \/ Explain(q, c)
                                 \/ AgentRuns(q, c) \/ AgentAnalyses(q, c)
            \/ Reexecute(q)

Native(q) == NativeStep(q) /\ UNCHANGED front

Continue(q) == \/ StatementReturns(q) \/ StartReturns(q) \/ StartFails(q)
               \/ Register(q) \/ ListenReturns(q)

Next ==
    \/ \E q \in Query : Begin(q) \/ Native(q) \/ Continue(q) \/ AgentTimesOut(q)
    \/ Deliver \/ Stop \/ ServeCancel \/ StopReturns \/ AgentCancels \/ Hydrate
    \/ \E t \in Tab : SwitchTab(t)

Spec == Init /\ [][Next]_vars

\* The database answers, local calls return, events arrive, timers fire.
Fairness ==
    /\ \A q \in Query : /\ WF_vars(Native(q))
                        /\ WF_vars(Continue(q))
                        /\ WF_vars(AgentTimesOut(q))
    /\ WF_vars(Deliver)

FairSpec == Spec /\ Fairness

-----------------------------------------------------------------------------
\* Properties.

\* Results put in a tab are the batches of one query, all of them and in
\* order, unless the query emitted some before its listener was registered:
\* nothing else drops, repeats or mixes rows
\* (runtime.ts 258, registerHandlers.ts 490, QueryManager.ts 169).
ResultsAreComplete ==
    \A t \in Tab : LET r == tab[t].results
                   IN  r.query # NoQuery /\ r.query \notin missed
                         => r.rows = [i \in 1..sent[r.query] |-> i]

\* Results are shown in the tab their query was started from, provided the
\* operator does not change tabs meanwhile; a re-execution needs no such
\* proviso (useAppQueryController.ts 46, QueryManager.ts 191).
ResultsInOwnTab ==
    \A t \in Tab : LET q == tab[t].results.query
                   IN  q # NoQuery /\ ("switch" \in upset => query[q].kind = "sort")
                         => query[q].home = t

\* The rows of the store are those of the query it names, the last ones and in
\* order, provided no query is started while another one is in flight and no tab is
\* shown idle before its query is over: appendBatch does not look at the id, and an
\* idle grid is hydrated with older results (RowStore.ts 43, VirtualTable.tsx 781).
StoreRowsAreOwn ==
    {"overlap", "early stop"} \cap upset = {} =>
        \A i \in 1..Len(store.rows) :
            store.rows[i] = <<store.query, query[store.query].rows[
                                   Len(query[store.query].rows) - Len(store.rows) + i]>>

\* Provided tabs are not changed, queries not started together and Stop not
\* pressed before there is a handle: a query that is not settled keeps its tab
\* executing, so that there is a Stop button, and once it listens the handle is
\* its own, so that the button stops it (useAppQueryController.ts 54, 149).
StopReachesQuery ==
    upset = {} =>
        \A q \in Query : Live(q) /\ query[q].kind = "run" =>
            /\ query[q].home = active
            /\ tab[active].executing
            /\ query[q].phase = "live" => handle = q

\* A settled query is over for the frontend: whatever the native side still
\* emits, its outcome, its rows and the results of the tabs stay
\* (runtime.ts 168, 261; registerHandlers.ts 474).
SettledIsSilent ==
    [][\A q \in Query : query[q].outcome # "none" =>
           /\ query'[q].outcome = query[q].outcome
           /\ query'[q].rows = query[q].rows
           /\ \A t \in Tab : tab'[t].results.query = q => tab[t].results = tab'[t].results]_vars

\* Every query settles, unless its batches were emitted before its listener was
\* registered; the agent's commands settle even then, by their timers
\* (runtime.ts 258, registerHandlers.ts 487).
QueriesSettle ==
    \A q \in Query :
        query[q].phase # "none"
            ~> \/ query[q].outcome # "none"
               \/ q \in missed /\ query[q].kind \notin {"agent", "duckdb"}
=============================================================================
