-------------------------- MODULE BackgroundStore --------------------------
(***************************************************************************)
(* The background-agent document of                                        *)
(* src/lib/backgroundAgents/BackgroundAgentStore.ts and the updaters that  *)
(* turn one version of it into the next.  Every operator is a pure         *)
(* function of a document: when it is applied, to which copy, and whether  *)
(* the result reaches the disk is the business of BackgroundAgents.        *)
(*                                                                         *)
(* A run id is a natural number and ids are drawn in the order of          *)
(* `startedAt`.  Names, prompts, cadences, events, summaries and           *)
(* heartbeats are left out; an environment keeps its switch and the status *)
(* the operator sees, and a run keeps the items it queued for review as    *)
(* one class.                                                              *)
(***************************************************************************)
EXTENDS Naturals, FiniteSets

CONSTANTS
    Agent,         \* ids of agent definitions
    Env,           \* ids of execution environments
    DefaultEnv,    \* DEFAULT_BACKGROUND_ENVIRONMENT_ID
    NoAgent, NoEnv,
    Limit,         \* concurrencyLimit an environment is created with
    MaxRuns,       \* bound: run ids that may be drawn
    HistoryLimit   \* runs kept per agent (50 in the code)

ASSUME StoreAssumption ==
    /\ DefaultEnv \in Env
    /\ NoEnv \notin Env
    /\ NoAgent \notin Agent
    /\ Limit \in [Env -> Nat \ {0}]
    /\ MaxRuns \in Nat
    /\ HistoryLimit \in Nat \ {0}

RunId          == 1..MaxRuns
RunStatus      == {"queued", "running", "success", "failed", "approval_required"}
OpenStatus     == {"queued", "running"}
EnvStatus      == {"idle", "active", "paused"}
ApprovalStatus == {"none", "pending", "approved", "rejected"}

AgentRec == [home : Env \cup {NoEnv}, last : RunStatus \cup {"none"}]
EnvRec   == [enabled : BOOLEAN, status : EnvStatus \cup {"absent"}]
RunRec   == [agent : Agent \cup {NoAgent}, env : Env \cup {NoEnv},
             status : RunStatus \cup {"absent"}]
ApprovalRec == [agent : Agent \cup {NoAgent}, status : ApprovalStatus]

NoAgentRec == [home |-> NoEnv, last |-> "none"]
NoEnvRec   == [enabled |-> FALSE, status |-> "absent"]
NewEnvRec  == [enabled |-> TRUE, status |-> "idle"]
NoRun      == [agent |-> NoAgent, env |-> NoEnv, status |-> "absent"]
NoApproval == [agent |-> NoAgent, status |-> "none"]

Document == [agents    : [Agent -> AgentRec],
             envs      : [Env -> EnvRec],
             runs      : [RunId -> RunRec],
             approvals : [RunId -> ApprovalRec]]

---------------------------------------------------------------------------
(* Queries. *)

HasAgent(d, a)  == d.agents[a].home # NoEnv
HasEnv(d, e)    == d.envs[e].status # "absent"
EnvAccepts(d, e) == HasEnv(d, e) /\ d.envs[e].enabled
RunsOf(d, a)    == {r \in RunId : d.runs[r].agent = a}
IsOpen(d, r)    == d.runs[r].status \in OpenStatus

\* Mutant: only queued runs count as open.
HasQueuedRun(d, a) == \E r \in RunsOf(d, a) : d.runs[r].status = "queued"

HasOpenRun(d, a) == \E r \in RunsOf(d, a) : IsOpen(d, r)
QueuedIn(d, e)  == {r \in RunId : d.runs[r].status = "queued" /\ d.runs[r].env = e}

\* The environment an update of run r is booked on: the run's own, or the
\* default one when the document no longer holds the run.
BookedEnv(d, r) == IF d.runs[r].status = "absent" THEN DefaultEnv ELSE d.runs[r].env

---------------------------------------------------------------------------
(* Updates. *)

\* normalizeDocument: the default environment exists, and an agent whose
\* environment is unknown is moved to it.  Runs keep their environment.
Normalize(d) ==
    LET envs == IF HasEnv(d, DefaultEnv) THEN d.envs
                ELSE [d.envs EXCEPT ![DefaultEnv] = NewEnvRec]
        lost(a) == d.agents[a].home \in {e \in Env : envs[e].status = "absent"}
    IN  [d EXCEPT !.envs = envs,
                  !.agents = [a \in Agent |->
                      IF lost(a) THEN [d.agents[a] EXCEPT !.home = DefaultEnv]
                                 ELSE d.agents[a]]]

\* DEFAULT_DOCUMENT, normalised.
EmptyDocument ==
    [agents    |-> [a \in Agent |-> NoAgentRec],
     envs      |-> [e \in Env |-> IF e = DefaultEnv THEN NewEnvRec ELSE NoEnvRec],
     runs      |-> [r \in RunId |-> NoRun],
     approvals |-> [r \in RunId |-> NoApproval]]

CreateAgent(d, a, e) == [d EXCEPT !.agents[a] = [home |-> e, last |-> "none"]]

UpdateAgent(d, a, e) ==
    IF HasAgent(d, a) THEN [d EXCEPT !.agents[a].home = e] ELSE d

DeleteAgent(d, a) ==
    [d EXCEPT !.agents[a] = NoAgentRec,
              !.runs = [r \in RunId |-> IF r \in RunsOf(d, a) THEN NoRun ELSE d.runs[r]],
              !.approvals = [r \in RunId |->
                  IF d.approvals[r].agent = a THEN NoApproval ELSE d.approvals[r]]]

CreateEnv(d, e) == [d EXCEPT !.envs[e] = NewEnvRec]

\* updateBackgroundAgentEnvironment({isEnabled: on}) and, with on = enabled,
\* an update of any other field: a paused environment falls back to idle
\* unless this very update disables it.
SwitchEnv(d, e, on) ==
    [d EXCEPT !.envs[e] =
        [enabled |-> on,
         status  |-> IF ~on THEN "paused"
                     ELSE IF @.status = "paused" THEN "idle" ELSE @.status]]

EditEnv(d, e) ==
    [d EXCEPT !.envs[e].status = IF @ = "paused" THEN "idle" ELSE @]

EnvInUse(d, e)  == \E a \in Agent : d.agents[a].home = e
DeleteEnv(d, e) == [d EXCEPT !.envs[e] = NoEnvRec]

\* recordBackgroundAgentRunQueued: prepend the run, keep the newest
\* HistoryLimit runs of the agent.
QueueRun(d, a, r) ==
    LET mine    == RunsOf(d, a)
        newer(q) == {p \in mine : p > q}
        trimmed == {q \in mine : Cardinality(newer(q)) + 1 >= HistoryLimit}
    IN  [d EXCEPT
            !.runs = [q \in RunId |->
                IF q = r THEN [agent |-> a, env |-> d.agents[a].home, status |-> "queued"]
                ELSE IF q \in trimmed THEN NoRun ELSE d.runs[q]],
            !.agents[a].last = "queued"]

SetStatus(d, r, s) ==
    [q \in RunId |-> IF q = r /\ d.runs[q].status # "absent"
                     THEN [d.runs[q] EXCEPT !.status = s] ELSE d.runs[q]]

SetLast(d, a, s) ==
    [b \in Agent |-> IF b = a /\ HasAgent(d, b)
                     THEN [d.agents[b] EXCEPT !.last = s] ELSE d.agents[b]]

SetEnvStatus(d, e, s) ==
    [f \in Env |-> IF f = e /\ HasEnv(d, f)
                   THEN [d.envs[f] EXCEPT !.status = s] ELSE d.envs[f]]

\* markBackgroundAgentRunRunning; e is the environment the runner captured.
MarkRunning(d, a, e, r) ==
    [d EXCEPT !.runs = SetStatus(d, r, "running"),
              !.agents = SetLast(d, a, "running"),
              !.envs = SetEnvStatus(d, e, IF d.envs[e].enabled THEN "active" ELSE "paused")]

\* deriveEnvironmentStatus, leaving run r out.
DerivedEnvStatus(d, e, r) ==
    IF ~d.envs[e].enabled THEN "paused"
    ELSE IF \E q \in RunId \ {r} : d.runs[q].env = e /\ d.runs[q].status = "running"
         THEN "active" ELSE "idle"

\* Mutant: the agent's last status is not updated.
FinishRunOnly(d, a, r, s) ==
    [d EXCEPT !.runs = SetStatus(d, r, s),
              !.envs = SetEnvStatus(d, BookedEnv(d, r), DerivedEnvStatus(d, BookedEnv(d, r), r))]

\* finishBackgroundAgentRun: whatever the run's status was.
FinishRun(d, a, r, s) ==
    LET e == BookedEnv(d, r)
    IN  [d EXCEPT !.runs = SetStatus(d, r, s),
                  !.agents = SetLast(d, a, s),
                  !.envs = SetEnvStatus(d, e, DerivedEnvStatus(d, e, r))]

AddApprovals(d, a, r)    == [d EXCEPT !.approvals[r] = [agent |-> a, status |-> "pending"]]
ResolveApproval(d, r, s) == [d EXCEPT !.approvals[r].status = s]
=============================================================================
