------------------------------- MODULE Harness --------------------------------
(***************************************************************************)
(* Sessions of the agent as the harness sees them (HarnessLifecycle.ts,    *)
(* HarnessObserver.ts, FailureTraceStore.ts), and the memory panel, on the *)
(* memory database.  A session is a run of the agent loop; the calls it    *)
(* does not await go on after its end.                                     *)
(***************************************************************************)
EXTENDS MemoryDb

CONSTANTS
    Session,
    Tool,
    MaxTools,     \* bound: tool calls of a session
    MaxClears     \* bound: times the memory is cleared

ASSUME HarnessAssumption ==
    /\ {MaxTools, MaxClears} \subseteq Nat
    /\ Episode = Session \X {"stored", "inserted"}
    /\ Edge = Tool \X {"queried", "success", "failure"}

VARIABLES
    stage,      \* where the hooks of a session are
    used,       \* tools the observer saw, in order
    errors,     \* tool errors in the session's context
    success,    \* the session answered
    observed,   \* sessions the observer has a trace of
    traces,     \* harness_failure_traces
    shown,      \* outcomes the panel lists
    updates, clears

sessions == <<stage, used, errors, success, observed, traces>>
screen == <<shown, updates, clears>>
vars == <<memory, sessions, screen>>

Init ==
    /\ MemoryInit
    /\ stage = [s \in Session |-> "new"]
    /\ used = [s \in Session |-> <<>>]
    /\ errors = [s \in Session |-> FALSE]
    /\ success = [s \in Session |-> FALSE]
    /\ observed = {} /\ traces = {}
    /\ shown = {}
    /\ updates = 0 /\ clears = 0

Awaits(s, where) == stage' = [stage EXCEPT ![s] = where]
NoCall == UNCHANGED memory
MakesCalls(new) == calls' = calls \cup new /\ UNCHANGED <<tables, faults, notes>>

-----------------------------------------------------------------------------
\* onSessionStart.
SessionStarts(s) ==
    /\ stage[s] = "new"
    /\ Awaits(s, "running")
    /\ observed' = observed \cup {s}
    /\ NoCall
    /\ UNCHANGED <<used, errors, success, traces, screen>>

\* A tool call and onAfterToolCall.  The observer counts it a success whatever it returned; a
\* statement that reads a table records an edge; an error goes to the session's context.
ToolRuns(s, t) ==
    /\ stage[s] = "running" /\ Len(used[s]) < MaxTools
    /\ used' = [used EXCEPT ![s] = Append(@, t)]
    /\ \E failed \in BOOLEAN : errors' = [errors EXCEPT ![s] = @ \/ failed]
    /\ \/ NoCall
       \/ MakesCalls({EdgeCall(<<s, "queried", Len(used'[s])>>, <<t, "queried">>)})
    /\ UNCHANGED <<stage, success, observed, traces, screen>>

\* The loop is aborted, or throws: no hook is called.
SessionThrows(s) ==
    /\ stage[s] = "running"
    /\ Awaits(s, "thrown")
    /\ NoCall
    /\ UNCHANGED <<used, errors, success, observed, traces, screen>>

\* onSessionComplete up to its first await: EpisodicMemory.store.
SessionCompletes(s) ==
    /\ stage[s] = "running"
    /\ \E answered \in BOOLEAN : success' = [success EXCEPT ![s] = answered]
    /\ Awaits(s, "storing")
    /\ MakesCalls({InsertCall(<<s, "stored">>)})
    /\ UNCHANGED <<used, errors, observed, traces, screen>>

\* The store failed: the hook throws, and the loop with it.
StoreThrows(s) ==
    /\ stage[s] = "storing"
    /\ InsertCall(<<s, "stored">>) \notin calls /\ <<s, "stored">> \notin episodes
    /\ Awaits(s, "thrown")
    /\ NoCall
    /\ UNCHANGED <<used, errors, success, observed, traces, screen>>

Failed(s) == ~success[s] \/ errors[s]

\* The call after it stores the session again, under another id; a failed session then
\* awaits FailureTraceStore.record.
StoresAgain(s) ==
    /\ stage[s] = "storing"
    /\ InsertCall(<<s, "stored">>) \notin calls
    /\ MakesCalls({InsertCall(<<s, "inserted">>)})
    /\ Awaits(s, IF Failed(s) THEN "recording" ELSE "finalizing")
    /\ UNCHANGED <<used, errors, success, observed, traces, screen>>

\* harness_record_failure takes a version that is a string; both callers pass null, and the
\* call is rejected before it runs.
Accepts(version) == version # None
RecordFailure(s, version) == traces' = IF Accepts(version) THEN traces \cup {s} ELSE traces

\* FailureTraceStore.record logs the rejection.
TraceRecorded(s) ==
    /\ stage[s] = "recording"
    /\ RecordFailure(s, None)
    /\ Awaits(s, "finalizing")
    /\ NoCall
    /\ UNCHANGED <<used, errors, success, observed, screen>>

\* The edges of a session's tools, one call for each event.
EdgeCalls(s) ==
    {EdgeCall(<<s, "produced", i>>, <<used[s][i], IF success[s] THEN "success" ELSE "failure">>) :
        i \in DOMAIN used[s]}

\* HarnessObserver.finalizeSession.
Finalizes(s) ==
    /\ stage[s] = "finalizing"
    /\ IF ~success[s] THEN RecordFailure(s, None) ELSE UNCHANGED traces
    /\ MakesCalls(EdgeCalls(s))
    /\ observed' = observed \ {s}
    /\ Awaits(s, "done")
    /\ UNCHANGED <<used, errors, success, screen>>

-----------------------------------------------------------------------------
(* The memory panel.                                                       *)

Pending == {e \in Episode : outcomes[e] = "pending"}

\* loadOutcomes, when the panel opens and after an update.
Opens ==
    /\ shown' = Pending
    /\ NoCall
    /\ UNCHANGED <<sessions, updates, clears>>

\* handleOutcomeStatus: the outcome as the panel shows it, with its new status.
SetsStatus(e) ==
    /\ e \in shown
    /\ updates < MaxUpdates
    /\ updates' = updates + 1
    /\ \E status \in {"pending", "resolved"} : MakesCalls({OutcomeCall(e, status, updates + 1)})
    /\ UNCHANGED <<sessions, shown, clears>>

\* handleClearMemory: the episodes are loaded again, the outcomes are not.
Clears ==
    /\ clears < MaxClears
    /\ clears' = clears + 1
    /\ MakesCalls({ClearCall(clears + 1)})
    /\ UNCHANGED <<sessions, shown, updates>>

Next ==
    \/ \E c \in calls : Runs(c) /\ UNCHANGED <<sessions, screen>>
    \/ \E s \in Session : \/ SessionStarts(s) \/ SessionThrows(s) \/ SessionCompletes(s)
                          \/ \E t \in Tool : ToolRuns(s, t)
                          \/ StoreThrows(s) \/ StoresAgain(s) \/ TraceRecorded(s) \/ Finalizes(s)
    \/ Opens \/ Clears
    \/ \E e \in Episode : SetsStatus(e)

Spec == Init /\ [][Next]_vars
=============================================================================
