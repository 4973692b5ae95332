-------------------------- MODULE BackgroundAgents --------------------------
(***************************************************************************)
(* The runner of detached investigations                                   *)
(* (src/lib/backgroundAgents/BackgroundAgentRunner.ts) on the background-   *)
(* agent document and its three copies: the module-level cache, the file   *)
(* written by saveJsonDocument and the localStorage fallback.              *)
(*                                                                         *)
(* Grain: JavaScript runs to completion between awaits, so one action is   *)
(* the code between two awaits.  The native load and save commands are     *)
(* synchronous Tauri commands, served in the order they are issued: a save *)
(* reaches the file when it is issued, and a load reads the file when it   *)
(* is issued but answers later; whatever happens in between is not in its  *)
(* answer.  The answer replaces the cache all the same, and `forgotten`     *)
(* records the agents of which it tells something else.  LoadsAtomic        *)
(* simplifies: the answer is read when it is delivered.                    *)
(***************************************************************************)
EXTENDS BackgroundStore, Integers

CONSTANTS
    NoDocument,
    InitAgents,    \* agents (with their environment) that exist at the start
    InitEnvs,      \* environments that exist at the start
    MaxAttempts,   \* MAX_BACKGROUND_AGENT_ATTEMPTS
    LoadsAtomic,   \* simplification: a load answers with the file as it is on delivery
    MaxCalls,      \* bound: asynchronous calls waiting for the file at once
    MaxEdits,      \* bound: operator edits
    MaxRestarts,   \* bound: restarts of the application
    MaxFaults      \* bound: failed loads and saves

ASSUME RunnerAssumption ==
    /\ InitEnvs \subseteq Env
    /\ DefaultEnv \in InitEnvs
    /\ InitAgents \in [Agent -> InitEnvs \cup {NoEnv}]
    /\ MaxAttempts \in Nat \ {0}
    /\ LoadsAtomic \in BOOLEAN
    /\ {MaxCalls, MaxEdits, MaxRestarts, MaxFaults} \subseteq Nat
    /\ NoDocument \notin Document

VARIABLES
    cache,     \* module-level `cache`
    disk,      \* background_analysis_agents.json
    legacy,    \* localStorage copy, NoDocument when removed
    calls,     \* asynchronous calls that await the file
    inFlight,  \* inFlightRuns: reservations per environment
    exec,      \* invocations of executeQueuedBackgroundRun past their guard
    nextRun,   \* next run id
    starts,    \* per run, invocations started in this session (ghost, up to 2)
    born,      \* agent and environment ids drawn so far (ids are not reused)
    edits, restarts, faults,  \* what is used of each bound
    forgotten  \* agents of which a document that replaced the cache told
               \* something else than the cache (ghost)

store   == <<cache, disk, legacy, faults>>
runner  == <<inFlight, exec, starts>>
bounds  == <<born, edits, restarts>>
vars    == <<store, calls, runner, nextRun, bounds, forgotten>>

Call == 1..MaxCalls
Kind == {"refresh", "drain", "run", "due"}
Executing == {"keys", "attempt", "approvals", "report", "closing"}

IdleCall == [pc |-> "free", kind |-> "refresh", agent |-> NoAgent, env |-> NoEnv,
             snap |-> NoDocument, fallback |-> NoDocument]
IdleExec == [pc |-> "idle", agent |-> NoAgent, env |-> NoEnv, attempt |-> 0, queued |-> FALSE]

CallRec == [pc : {"free", "load", "fallback", "queued", "event"}, kind : Kind,
            agent : Agent \cup {NoAgent}, env : Env \cup {NoEnv},
            snap : Document \cup {NoDocument}, fallback : Document \cup {NoDocument}]
ExecRec == [pc : Executing \cup {"idle"}, agent : Agent \cup {NoAgent},
            env : Env \cup {NoEnv}, attempt : 0..MaxAttempts, queued : BOOLEAN]

TypeOK ==
    /\ cache \in Document
    /\ disk \in Document
    /\ legacy \in Document \cup {NoDocument}
    /\ calls \in [Call -> CallRec]
    /\ inFlight \in [Env -> SUBSET RunId]
    /\ exec \in [RunId -> ExecRec]
    /\ nextRun \in 1..(MaxRuns + 1)
    /\ starts \in [RunId -> 0..2]
    /\ born \subseteq Agent \cup Env
    /\ edits \in 0..MaxEdits
    /\ restarts \in 0..MaxRestarts
    /\ faults \in 0..MaxFaults
    /\ forgotten \subseteq Agent

InitDocument ==
    [EmptyDocument EXCEPT
        !.agents = [a \in Agent |-> [home |-> InitAgents[a], last |-> "none"]],
        !.envs   = [e \in Env |-> IF e \in InitEnvs THEN NewEnvRec ELSE NoEnvRec]]

Init ==
    /\ cache = InitDocument
    /\ disk = InitDocument
    /\ legacy = NoDocument
    /\ calls = [c \in Call |-> IdleCall]
    /\ inFlight = [e \in Env |-> {}]
    /\ exec = [r \in RunId |-> IdleExec]
    /\ nextRun = 1
    /\ starts = [r \in RunId |-> 0]
    /\ born = {a \in Agent : InitAgents[a] # NoEnv} \cup InitEnvs
    /\ edits = 0 /\ restarts = 0 /\ faults = 0
    /\ forgotten = {}

---------------------------------------------------------------------------
(* The store: cache and file. *)

\* updateDocument: the cache changes at once, the save either reaches the
\* file (and removes the fallback) or fails and leaves the document in
\* localStorage.
Save(d) ==
    /\ cache' = d
    /\ \/ disk' = d /\ legacy' = NoDocument /\ UNCHANGED faults
       \/ faults < MaxFaults /\ faults' = faults + 1 /\ legacy' = d /\ UNCHANGED disk

\* Runs that may still be asked for: every pending request could draw an id.
RunsLeft == MaxRuns + 1 - nextRun
            - Cardinality({c \in Call : calls[c].kind = "run" /\ calls[c].pc \in {"load", "fallback"}})

FreeCall(c) == calls[c].pc = "free" /\ \A b \in Call : calls[b].pc = "free" => c <= b

\* ensureBackgroundAgentsLoaded is called: the fallback is read here, the
\* file is read by the command issued here.
Loading(kind, a) ==
    [pc |-> "load", kind |-> kind, agent |-> a, env |-> NoEnv,
     snap |-> IF LoadsAtomic THEN NoDocument ELSE disk, fallback |-> legacy]

IssueLoad(kind, a) ==
    \E c \in Call : FreeCall(c) /\ calls' = [calls EXCEPT ![c] = Loading(kind, a)]

\* The call at c goes on by calling drainBackgroundAgentQueue.
CallDrain(c) == calls' = [calls EXCEPT ![c] = Loading("drain", NoAgent)]

Answer(c)   == Normalize(IF LoadsAtomic THEN disk ELSE calls[c].snap)
Fallback(c) == Normalize(IF calls[c].fallback = NoDocument THEN EmptyDocument
                                                           ELSE calls[c].fallback)
Done(c) == calls' = [calls EXCEPT ![c] = IdleCall]

\* Two documents tell the same of agent a: its record and its runs.
TellSame(d, d2, a) ==
    /\ d.agents[a] = d2.agents[a]
    /\ \A r \in RunId : a \in {d.runs[r].agent, d2.runs[r].agent} => d.runs[r] = d2.runs[r]

\* The document d replaces the cache.
Replaces(d) == forgotten' = forgotten \cup {a \in Agent : ~TellSame(cache, d, a)}

---------------------------------------------------------------------------
(* What a call does once the document is there (d: the cache it finds). *)

Reserved == UNION {inFlight[e] : e \in Env}

Oldest(D, Q) == \A r \in D, q \in Q \ D : r < q

\* Mutant: the runs in flight are not subtracted.
FreeOfLimit(d, e) == IF EnvAccepts(d, e) THEN Limit[e] ELSE 0

\* drainBackgroundAgentQueue: in each environment that accepts work, the
\* oldest queued runs, as many as there are free places.
Free(d, e) == IF EnvAccepts(d, e) THEN Limit[e] - Cardinality(inFlight[e]) ELSE 0

Picked(d, D) ==
    \A e \in Env :
        LET here == {r \in D : d.runs[r].env = e}
        IN  IF Free(d, e) <= 0 THEN here = {}
            ELSE /\ Cardinality(here) <= Free(d, e)
                 /\ Cardinality(here) = Free(d, e) \/ QueuedIn(d, e) = here
                 /\ Oldest(here, QueuedIn(d, e))

\* Mutant: the test of inFlightRunIds is missing.
StartAllAgain(d, D) ==
    /\ inFlight' = [e \in Env |-> inFlight[e] \cup {r \in D : d.runs[r].env = e}]
    /\ exec' = [r \in RunId |->
           IF r \in D THEN [pc |-> "keys", agent |-> d.runs[r].agent, env |-> d.runs[r].env,
                            attempt |-> 0, queued |-> FALSE]
           ELSE exec[r]]
    /\ starts' = [r \in RunId |->
           IF r \in D /\ starts[r] < 2 THEN starts[r] + 1 ELSE starts[r]]

\* executeQueuedBackgroundRun up to its first await, for each picked run: a
\* run already in flight is skipped (its place was counted all the same).
StartAll(d, D) ==
    LET new == D \ Reserved
    IN  /\ inFlight' = [e \in Env |-> inFlight[e] \cup {r \in new : d.runs[r].env = e}]
        /\ exec' = [r \in RunId |->
               IF r \in new
               THEN [pc |-> "keys", agent |-> d.runs[r].agent, env |-> d.runs[r].env,
                     attempt |-> 0, queued |-> FALSE]
               ELSE exec[r]]
        /\ starts' = [r \in RunId |->
               IF r \in new /\ starts[r] < 2 THEN starts[r] + 1 ELSE starts[r]]

Drain(d, c) ==
    /\ \E D \in SUBSET UNION {QueuedIn(d, e) : e \in Env} :
          Picked(d, D) /\ StartAll(d, D)
    /\ Done(c)
    /\ UNCHANGED nextRun

\* Mutant: no de-duplication.
CanQueueAlways(d, a) == HasAgent(d, a)

\* runBackgroundAnalysisAgent after its load: an agent that is gone, or has
\* an open run, gets no new one; otherwise a run is recorded.
CanQueue(d, a) == HasAgent(d, a) /\ ~HasOpenRun(d, a)

QueueNewRun(d, c) ==
    LET a == calls[c].agent
    IN  /\ CanQueue(d, a)
        /\ nextRun <= MaxRuns      \* no restriction: RunsLeft covers this request
        /\ nextRun' = nextRun + 1
        /\ Save(QueueRun(d, a, nextRun))
        /\ calls' = [calls EXCEPT ![c] =
               [IdleCall EXCEPT !.pc = "queued", !.agent = a, !.env = d.agents[a].home]]

\* runDueBackgroundAnalysisAgents after its load: one call per due agent.
\* Which agents are due depends on the clock.
StartDue(d, c) ==
    \E who \in [{b \in Call : b = c \/ calls[b].pc = "free"} -> Agent \cup {NoAgent}] :
        LET slots == DOMAIN who
            due   == {who[b] : b \in slots} \ {NoAgent}
        IN  /\ \A a \in due : HasAgent(d, a)
            /\ \A b1, b2 \in slots : who[b1] = who[b2] => b1 = b2 \/ who[b1] = NoAgent
            /\ Cardinality(due) <= RunsLeft
            /\ calls' = [b \in Call |->
                   IF b \notin slots THEN calls[b]
                   ELSE IF who[b] = NoAgent THEN IdleCall ELSE Loading("run", who[b])]

\* The continuation of call c on document d, `Keep` being what it does to
\* the copies when it writes nothing itself.
Continue(c, d, Keep) ==
    \/ /\ calls[c].kind = "refresh"
       /\ Keep /\ Done(c)
       /\ UNCHANGED <<runner, nextRun>>
    \/ /\ calls[c].kind = "drain"
       /\ Keep /\ Drain(d, c)
    \/ /\ calls[c].kind = "run" /\ ~CanQueue(d, calls[c].agent)
       /\ Keep /\ Done(c)
       /\ UNCHANGED <<runner, nextRun>>
    \/ /\ calls[c].kind = "run"
       /\ QueueNewRun(d, c)
       /\ UNCHANGED runner
    \/ /\ calls[c].kind = "due"
       /\ Keep /\ StartDue(d, c)
       /\ UNCHANGED <<runner, nextRun>>

LoadReturns(c) ==
    /\ calls[c].pc = "load"
    /\ Replaces(Answer(c))
    /\ Continue(c, Answer(c), cache' = Answer(c) /\ UNCHANGED <<disk, legacy, faults>>)
    /\ UNCHANGED bounds

\* loadJsonDocument finds no file, cannot read it or cannot parse it: the
\* fallback replaces the cache and is persisted.
LoadFails(c) ==
    /\ calls[c].pc = "load"
    /\ faults < MaxFaults
    /\ faults' = faults + 1
    /\ cache' = Fallback(c) /\ Replaces(Fallback(c))
    /\ \/ disk' = Fallback(c) /\ legacy' = NoDocument
       \/ legacy' = Fallback(c) /\ UNCHANGED disk
    /\ calls' = [calls EXCEPT ![c].pc = "fallback", ![c].snap = NoDocument,
                              ![c].fallback = NoDocument]
    /\ UNCHANGED <<runner, nextRun, bounds>>

FallbackSaved(c) ==
    /\ calls[c].pc = "fallback"
    /\ Continue(c, cache, UNCHANGED <<cache, disk, legacy, faults>>)
    /\ UNCHANGED <<bounds, forgotten>>

\* The tail of runBackgroundAnalysisAgent, once the new run is saved: the
\* event that it is deferred by its environment, or by its capacity, is
\* saved with the document; without the former the queue is drained.
RunSaved(c) ==
    /\ calls[c].pc = "queued"
    /\ LET e == calls[c].env IN
       \/ ~EnvAccepts(cache, e) /\ Save(cache) /\ Done(c)
       \/ /\ EnvAccepts(cache, e) /\ Cardinality(inFlight[e]) >= Limit[e]
          /\ Save(cache)
          /\ calls' = [calls EXCEPT ![c].pc = "event"]
       \/ /\ EnvAccepts(cache, e) /\ Cardinality(inFlight[e]) < Limit[e]
          /\ CallDrain(c)
          /\ UNCHANGED store
    /\ UNCHANGED <<runner, nextRun, bounds, forgotten>>

EventSaved(c) ==
    /\ calls[c].pc = "event"
    /\ CallDrain(c)
    /\ UNCHANGED <<store, runner, nextRun, bounds, forgotten>>

---------------------------------------------------------------------------
(* executeQueuedBackgroundRun, one action between two awaits. *)

Goto(r, pc) == exec' = [exec EXCEPT ![r].pc = pc]

ExecStep(r, from) ==
    /\ exec[r].pc = from
    /\ UNCHANGED <<calls, inFlight, starts, nextRun, bounds, forgotten>>

\* Keys and schema are there: the first attempt.
FirstAttempt(r) ==
    /\ ExecStep(r, "keys")
    /\ exec' = [exec EXCEPT ![r].pc = "attempt", ![r].attempt = 1]
    /\ Save(MarkRunning(cache, exec[r].agent, exec[r].env, r))

\* appendBackgroundAgentRunEvent for a query run, or refused as not read-only:
\* the document is saved with nothing the model keeps changed.
RecordEvent(r) ==
    /\ ExecStep(r, "attempt")
    /\ Save(cache)
    /\ UNCHANGED exec

\* queue_followup_action; the list is not emptied by a retry.
QueueFollowup(r) ==
    /\ ExecStep(r, "attempt")
    /\ exec' = [exec EXCEPT ![r].queued = TRUE]
    /\ Save(cache)

\* A retryable error with attempts left.
Retry(r) ==
    /\ ExecStep(r, "attempt")
    /\ exec[r].attempt < MaxAttempts
    /\ exec' = [exec EXCEPT ![r].attempt = @ + 1]
    /\ Save(MarkRunning(cache, exec[r].agent, exec[r].env, r))

\* The attempt ends well: the queued items become approvals, else the report
\* is next at once.
AttemptEnds(r) ==
    /\ ExecStep(r, "attempt")
    /\ \/ /\ exec[r].queued
          /\ Goto(r, "approvals")
          /\ Save(AddApprovals(cache, exec[r].agent, r))
       \/ /\ ~exec[r].queued
          /\ Goto(r, "report")
          /\ Save(cache)

CreateReport(r) ==
    /\ ExecStep(r, "approvals")
    /\ Goto(r, "report")
    /\ Save(cache)

Finish(r) ==
    /\ ExecStep(r, "report")
    /\ Goto(r, "closing")
    /\ Save(FinishRun(cache, exec[r].agent, r,
                      IF exec[r].queued THEN "approval_required" ELSE "success"))

\* Mutant: the failure returns before the finally block.
FailUnreleased(r) ==
    /\ exec[r].pc \in {"keys", "attempt"}
    /\ ExecStep(r, exec[r].pc)
    /\ exec' = [exec EXCEPT ![r] = IdleExec]
    /\ Save(FinishRun(cache, exec[r].agent, r, "failed"))

\* No keys or provider, an error that is not retried, or one of the last
\* attempt.
Fail(r) ==
    /\ exec[r].pc \in {"keys", "attempt"}
    /\ ExecStep(r, exec[r].pc)
    /\ Goto(r, "closing")
    /\ Save(FinishRun(cache, exec[r].agent, r, "failed"))

\* Mutant: no drain when a place is freed.
CloseQuietly(r) ==
    /\ exec[r].pc = "closing"
    /\ inFlight' = [inFlight EXCEPT ![exec[r].env] = @ \ {r}]
    /\ exec' = [exec EXCEPT ![r] = IdleExec]
    /\ UNCHANGED <<store, calls, starts, nextRun, bounds, forgotten>>

\* The finally block: release the place, then drain.
Close(r) ==
    /\ exec[r].pc = "closing"
    /\ inFlight' = [inFlight EXCEPT ![exec[r].env] = @ \ {r}]
    /\ exec' = [exec EXCEPT ![r] = IdleExec]
    /\ IssueLoad("drain", NoAgent)
    /\ UNCHANGED <<store, starts, nextRun, bounds, forgotten>>

---------------------------------------------------------------------------
(* Callers: operator, scheduler, other panels, and the process itself. *)

RequestRun(a) ==
    /\ HasAgent(cache, a)
    /\ RunsLeft > 0
    /\ IssueLoad("run", a)
    /\ UNCHANGED <<store, runner, nextRun, bounds, forgotten>>

ScanDue ==
    /\ IssueLoad("due", NoAgent)
    /\ UNCHANGED <<store, runner, nextRun, bounds, forgotten>>

Refresh ==
    /\ IssueLoad("refresh", NoAgent)
    /\ UNCHANGED <<store, runner, nextRun, bounds, forgotten>>

\* An edit of the operator that makes the document d.
Edit(d) ==
    /\ edits < MaxEdits
    /\ edits' = edits + 1
    /\ Save(d)
    /\ UNCHANGED <<calls, runner, nextRun, restarts, forgotten>>

AddAgent(a, e) ==
    /\ a \notin born /\ HasEnv(cache, e)
    /\ Edit(CreateAgent(cache, a, e))
    /\ born' = born \cup {a}

AddEnv(e) ==
    /\ e \notin born
    /\ Edit(CreateEnv(cache, e))
    /\ born' = born \cup {e}

EditAgents ==
    \E a \in Agent :
        /\ HasAgent(cache, a)
        /\ \/ Edit(DeleteAgent(cache, a))
           \/ \E e \in Env : HasEnv(cache, e) /\ Edit(UpdateAgent(cache, a, e))

EditEnvs ==
    \E e \in Env :
        /\ HasEnv(cache, e)
        /\ \/ Edit(SwitchEnv(cache, e, ~cache.envs[e].enabled))
           \/ Edit(EditEnv(cache, e))
           \/ e # DefaultEnv /\ ~EnvInUse(cache, e) /\ Edit(DeleteEnv(cache, e))

EditRuns ==
    \E r \in RunId :
        \/ cache.runs[r].status # "absent" /\ Edit(cache)          \* takeover requested
        \/ /\ cache.approvals[r].status = "pending"
           /\ \E s \in {"approved", "rejected"} : Edit(ResolveApproval(cache, r, s))

\* The application stops and starts again, up to the first load.
Restart ==
    /\ restarts < MaxRestarts
    /\ restarts' = restarts + 1
    /\ cache' = Normalize(disk) /\ Replaces(Normalize(disk))
    /\ calls' = [c \in Call |-> IdleCall]
    /\ inFlight' = [e \in Env |-> {}]
    /\ exec' = [r \in RunId |-> IdleExec]
    /\ starts' = [r \in RunId |-> 0]
    /\ UNCHANGED <<disk, legacy, faults, nextRun, born, edits>>

CallSteps == \E c \in Call : LoadReturns(c) \/ LoadFails(c) \/ FallbackSaved(c)
                            \/ RunSaved(c) \/ EventSaved(c)
ExecSteps == \E r \in RunId :
    \/ FirstAttempt(r) \/ RecordEvent(r) \/ QueueFollowup(r) \/ Retry(r)
    \/ AttemptEnds(r) \/ CreateReport(r) \/ Finish(r) \/ Fail(r) \/ Close(r)
Requests  == (\E a \in Agent : RequestRun(a)) \/ ScanDue \/ Refresh
Edits     == \/ \E a \in Agent, e \in Env : AddAgent(a, e)
             \/ \E e \in Env : AddEnv(e)
             \/ (EditAgents \/ EditEnvs \/ EditRuns) /\ UNCHANGED born

Next == CallSteps \/ ExecSteps \/ Requests \/ Edits \/ Restart

Spec == Init /\ [][Next]_vars

\* Calls are answered, and the AI provider and the database answer: the code
\* sets no deadline on either.  A call slot is freed again and again; strong
\* fairness on Close keeps the bound MaxCalls, which the code does not have,
\* from starving it.
Advance(r) == \/ FirstAttempt(r) \/ Retry(r) \/ AttemptEnds(r) \/ CreateReport(r)
              \/ Finish(r) \/ Fail(r)

Fairness ==
    /\ \A c \in Call : WF_vars(LoadReturns(c) \/ FallbackSaved(c) \/ RunSaved(c) \/ EventSaved(c))
    /\ \A r \in RunId : WF_vars(Advance(r)) /\ SF_vars(Close(r))

FairSpec == Spec /\ Fairness

---------------------------------------------------------------------------
(* What holds however late a load answers, whatever save or load fails and *)
(* whenever the application restarts.                                      *)

\* inFlightRuns holds the reservations of the live invocations and no other:
\* none leaks on a failure, none is released twice.
ReservationsMatch ==
    \A e \in Env : inFlight[e] = {r \in RunId : exec[r].pc # "idle" /\ exec[r].env = e}

\* "each environment enforces concurrency": never more invocations in an
\* environment than its limit, though several drains may overlap.
WithinCapacity == \A e \in Env : Cardinality(inFlight[e]) <= Limit[e]

\* A run that is being executed is not started a second time, though it stays
\* queued in the document until its keys are loaded and a stale document may
\* show it queued again.
OneExecutorPerRun == [][\A r \in RunId : starts'[r] > starts[r] => exec[r].pc = "idle"]_vars

\* A call that is to run an agent names one, a load under way carries what it read.
CallOK(rec) == /\ rec.kind = "run" => rec.agent \in Agent
               /\ rec.pc = "load" /\ ~LoadsAtomic => rec.snap # NoDocument
CallsWellFormed == \A c \in Call : CallOK(calls[c])

---------------------------------------------------------------------------
(* What holds of an agent until a document that tells something else of it *)
(* replaces the cache, whatever happens to the other agents.               *)

\* "run de-duplication so the same agent does not run concurrently"
\* (docs/background-analysis-agents-plan.md:97), of what is executing: no agent has
\* two invocations at work (past the last one only the bookkeeping of its end is
\* left).  An agent that was forgotten may: the document that came back does not show
\* the run that executes, or shows an old one queued again.
AtWork(r) == exec[r].pc \in Executing \ {"closing"}

AgentRunsAlone ==
    \A q, r \in RunId :
        AtWork(q) /\ AtWork(r) /\ exec[q].agent = exec[r].agent =>
            q = r \/ exec[q].agent \in forgotten

\* lastRunStatus is the status of the agent's newest run, also when other agents were
\* forgotten and their invocations go on writing to the document.
LastStatusIsNewest ==
    \A a \in Agent \ forgotten : \A r \in RunsOf(cache, a) :
        (\A q \in RunsOf(cache, a) : q <= r) => cache.agents[a].last = cache.runs[r].status

\* The runs of the document implement RunQueue: one life per run, one open run
\* per agent, nothing open is trimmed from the history.  To the queue a forgotten
\* agent is one that was withdrawn, and the ids it still draws are spent.
Phase(status) == CASE status = "queued"  -> "waiting"
                   [] status = "running" -> "working"
                   [] status = "absent"  -> "none"
                   [] OTHER              -> "over"

JobOf(run) == IF run.agent \in forgotten THEN [owner |-> NoAgent, phase |-> "none"]
              ELSE [owner |-> run.agent, phase |-> Phase(run.status)]

Queue == INSTANCE RunQueue WITH
    Job <- RunId, Nobody <- NoAgent, next <- nextRun,
    job <- [r \in RunId |-> JobOf(cache.runs[r])]

ImplementsRunQueue == Queue!Spec

---------------------------------------------------------------------------
\* The operator has created agents and environments and edited nothing else.
InitIds == {a \in Agent : InitAgents[a] # NoEnv} \cup InitEnvs
OnlyCreations == edits = Cardinality(born \ InitIds)

\* Every run that is queued or running comes to an end, through its attempts and the
\* drain of the place that another one frees, unless its agent is forgotten.  An
\* environment that is disabled keeps its runs queued, and enabling it drains nothing.
OpenRunsEnd ==
    \A r \in RunId : IsOpen(cache, r) ~>
        ~IsOpen(cache, r) \/ cache.runs[r].agent \in forgotten \/ ~OnlyCreations
=============================================================================
