----------------------- MODULE BackgroundAgentsProofs -----------------------
(***************************************************************************)
(* Theorems about BackgroundAgents, for every number of agents,            *)
(* environments, runs and concurrent calls, every limit and every bound,   *)
(* with stale answers, failed loads and saves, and restarts.               *)
(***************************************************************************)
EXTENDS BackgroundAgents, FiniteSetTheorems, TLAPS

---------------------------------------------------------------------------
(* The updaters make documents of documents. *)

LEMMA EmptyIsDocument == EmptyDocument \in Document
BY StoreAssumption
DEF EmptyDocument, Document, AgentRec, EnvRec, RunRec, ApprovalRec, NoAgentRec, NoEnvRec,
    NewEnvRec, NoRun, NoApproval, RunStatus, EnvStatus, ApprovalStatus

LEMMA InitIsDocument == InitDocument \in Document
BY StoreAssumption, RunnerAssumption
DEF InitDocument, EmptyDocument, Document, AgentRec, EnvRec, RunRec, ApprovalRec, NoAgentRec,
    NoEnvRec, NewEnvRec, NoRun, NoApproval, RunStatus, EnvStatus, ApprovalStatus

LEMMA NormalizeType == ASSUME NEW d \in Document PROVE Normalize(d) \in Document
<1> DEFINE envs == IF HasEnv(d, DefaultEnv) THEN d.envs
                   ELSE [d.envs EXCEPT ![DefaultEnv] = NewEnvRec]
           lost(a) == d.agents[a].home \in {e \in Env : envs[e].status = "absent"}
           agents == [a \in Agent |-> IF lost(a) THEN [d.agents[a] EXCEPT !.home = DefaultEnv]
                                                ELSE d.agents[a]]
<1>1. envs \in [Env -> EnvRec]
  BY DEF Document, EnvRec, NewEnvRec, EnvStatus
<1>2. agents \in [Agent -> AgentRec]
  <2> HIDE DEF envs
  <2> SUFFICES ASSUME NEW a \in Agent
               PROVE  (IF lost(a) THEN [d.agents[a] EXCEPT !.home = DefaultEnv]
                                  ELSE d.agents[a]) \in AgentRec
    OBVIOUS
  <2>1. d.agents[a] \in AgentRec
    BY DEF Document
  <2> QED
    BY <2>1, StoreAssumption DEF AgentRec
<1> HIDE DEF envs, agents
<1>3. [d EXCEPT !.envs = envs, !.agents = agents] \in Document
  BY <1>1, <1>2 DEF Document
<1> QED
  BY <1>3 DEF Normalize, envs, agents

LEMMA CreateAgentType ==
    ASSUME NEW d \in Document, NEW a \in Agent, NEW e \in Env
    PROVE  CreateAgent(d, a, e) \in Document
BY DEF CreateAgent, Document, AgentRec

LEMMA UpdateAgentType ==
    ASSUME NEW d \in Document, NEW a \in Agent, NEW e \in Env
    PROVE  UpdateAgent(d, a, e) \in Document
<1>1. [d.agents[a] EXCEPT !.home = e] \in AgentRec
  BY DEF Document, AgentRec
<1>2. [d EXCEPT !.agents[a] = [@ EXCEPT !.home = e]] \in Document
  BY <1>1 DEF Document
<1>3. UpdateAgent(d, a, e) \in {d, [d EXCEPT !.agents[a] = [@ EXCEPT !.home = e]]}
  BY DEF UpdateAgent
<1> QED
  BY <1>2, <1>3

LEMMA DeleteAgentType ==
    ASSUME NEW d \in Document, NEW a \in Agent PROVE DeleteAgent(d, a) \in Document
<1> DEFINE runs == [r \in RunId |-> IF r \in RunsOf(d, a) THEN NoRun ELSE d.runs[r]]
           approvals == [r \in RunId |-> IF d.approvals[r].agent = a THEN NoApproval
                                         ELSE d.approvals[r]]
<1>1. [d.agents EXCEPT ![a] = NoAgentRec] \in [Agent -> AgentRec]
  BY DEF Document, AgentRec, NoAgentRec
<1>2. runs \in [RunId -> RunRec]
  BY DEF Document, RunRec, NoRun
<1>3. approvals \in [RunId -> ApprovalRec]
  BY DEF Document, ApprovalRec, NoApproval, ApprovalStatus
<1> HIDE DEF runs, approvals
<1>4. [d EXCEPT !.agents[a] = NoAgentRec, !.runs = runs, !.approvals = approvals] \in Document
  BY <1>1, <1>2, <1>3 DEF Document
<1> QED
  BY <1>4 DEF DeleteAgent, runs, approvals

LEMMA EnvEditType ==
    ASSUME NEW d \in Document, NEW e \in Env, NEW on \in BOOLEAN
    PROVE  /\ CreateEnv(d, e) \in Document
           /\ SwitchEnv(d, e, on) \in Document
           /\ EditEnv(d, e) \in Document
           /\ DeleteEnv(d, e) \in Document
<1>1. \A rec \in EnvRec : [d EXCEPT !.envs[e] = rec] \in Document
  BY DEF Document
<1>2. d.envs[e] \in EnvRec
  BY DEF Document
<1>3. CreateEnv(d, e) \in Document
  BY <1>1 DEF CreateEnv, NewEnvRec, EnvRec, EnvStatus
<1>4. SwitchEnv(d, e, on) \in Document
  <2> DEFINE rec == [enabled |-> on,
                     status |-> IF ~on THEN "paused"
                                ELSE IF d.envs[e].status = "paused" THEN "idle"
                                     ELSE d.envs[e].status]
  <2>1. rec \in EnvRec
    BY <1>2 DEF EnvRec, EnvStatus
  <2>2. SwitchEnv(d, e, on) = [d EXCEPT !.envs[e] = rec]
    BY DEF SwitchEnv, Document
  <2> HIDE DEF rec
  <2> QED
    BY <1>1, <2>1, <2>2
<1>5. EditEnv(d, e) \in Document
  <2> DEFINE rec == [d.envs[e] EXCEPT !.status = IF @ = "paused" THEN "idle" ELSE @]
  <2>1. rec \in EnvRec
    BY <1>2 DEF EnvRec, EnvStatus
  <2>2. EditEnv(d, e) = [d EXCEPT !.envs[e] = rec]
    BY DEF EditEnv, Document
  <2> HIDE DEF rec
  <2> QED
    BY <1>1, <2>1, <2>2
<1>6. DeleteEnv(d, e) \in Document
  BY <1>1 DEF DeleteEnv, NoEnvRec, EnvRec
<1> QED
  BY <1>3, <1>4, <1>5, <1>6

LEMMA QueueRunType ==
    ASSUME NEW d \in Document, NEW a \in Agent, NEW r \in RunId
    PROVE  QueueRun(d, a, r) \in Document
<1> DEFINE trimmed == {q \in RunsOf(d, a) :
                         Cardinality({p \in RunsOf(d, a) : p > q}) + 1 >= HistoryLimit}
           fresh == [agent |-> a, env |-> d.agents[a].home, status |-> "queued"]
           runs == [q \in RunId |-> IF q = r THEN fresh
                                    ELSE IF q \in trimmed THEN NoRun ELSE d.runs[q]]
<1>1. fresh \in RunRec /\ NoRun \in RunRec
  BY DEF Document, AgentRec, RunRec, NoRun, RunStatus
<1>2. \A q \in RunId : d.runs[q] \in RunRec
  BY DEF Document
<1>3. runs \in [RunId -> RunRec]
  <2> HIDE DEF trimmed, fresh
  <2> QED BY <1>1, <1>2
<1>4. [d.agents EXCEPT ![a].last = "queued"] \in [Agent -> AgentRec]
  BY DEF Document, AgentRec, RunStatus
<1> HIDE DEF runs
<1>5. [d EXCEPT !.runs = runs, !.agents[a].last = "queued"] \in Document
  BY <1>3, <1>4 DEF Document
<1> QED
  BY <1>5 DEF QueueRun, runs, trimmed, fresh

LEMMA SetStatusType ==
    ASSUME NEW d \in Document, NEW r, NEW s \in RunStatus
    PROVE  SetStatus(d, r, s) \in [RunId -> RunRec]
BY DEF SetStatus, Document, RunRec

LEMMA SetLastType ==
    ASSUME NEW d \in Document, NEW a, NEW s \in RunStatus
    PROVE  SetLast(d, a, s) \in [Agent -> AgentRec]
BY DEF SetLast, Document, AgentRec

LEMMA SetEnvStatusType ==
    ASSUME NEW d \in Document, NEW e, NEW s \in EnvStatus
    PROVE  SetEnvStatus(d, e, s) \in [Env -> EnvRec]
BY DEF SetEnvStatus, Document, EnvRec

LEMMA MarkRunningType ==
    ASSUME NEW d \in Document, NEW a, NEW e, NEW r
    PROVE  MarkRunning(d, a, e, r) \in Document
<1> DEFINE shown == IF d.envs[e].enabled THEN "active" ELSE "paused"
<1>1. "running" \in RunStatus /\ shown \in EnvStatus
  BY DEF RunStatus, EnvStatus
<1> HIDE DEF shown
<1>2. /\ SetStatus(d, r, "running") \in [RunId -> RunRec]
      /\ SetLast(d, a, "running") \in [Agent -> AgentRec]
      /\ SetEnvStatus(d, e, shown) \in [Env -> EnvRec]
  BY <1>1, SetStatusType, SetLastType, SetEnvStatusType
<1> QED
  BY <1>2 DEF MarkRunning, Document, shown

LEMMA FinishRunType ==
    ASSUME NEW d \in Document, NEW a, NEW r, NEW s \in RunStatus
    PROVE  FinishRun(d, a, r, s) \in Document
<1> DEFINE e == BookedEnv(d, r)
           shown == DerivedEnvStatus(d, e, r)
<1>1. shown \in EnvStatus
  BY DEF DerivedEnvStatus, EnvStatus
<1> HIDE DEF e, shown
<1>2. /\ SetStatus(d, r, s) \in [RunId -> RunRec]
      /\ SetLast(d, a, s) \in [Agent -> AgentRec]
      /\ SetEnvStatus(d, e, shown) \in [Env -> EnvRec]
  BY <1>1, SetStatusType, SetLastType, SetEnvStatusType
<1> QED
  BY <1>2 DEF FinishRun, Document, e, shown

LEMMA ApprovalType ==
    ASSUME NEW d \in Document, NEW a \in Agent \cup {NoAgent}, NEW r \in RunId,
           NEW s \in {"approved", "rejected"}
    PROVE  /\ AddApprovals(d, a, r) \in Document
           /\ ResolveApproval(d, r, s) \in Document
BY DEF AddApprovals, ResolveApproval, Document, ApprovalRec, ApprovalStatus

---------------------------------------------------------------------------
(* Parts of actions. *)

CopiesOK == /\ cache \in Document
            /\ disk \in Document
            /\ legacy \in Document \cup {NoDocument}
            /\ faults \in 0..MaxFaults
CallsOK  == calls \in [Call -> CallRec] /\ CallsWellFormed
RunnerOK == /\ inFlight \in [Env -> SUBSET RunId]
            /\ exec \in [RunId -> ExecRec]
            /\ starts \in [RunId -> 0..2]
CountOK  == /\ nextRun \in 1..(MaxRuns + 1)
            /\ born \subseteq Agent \cup Env
            /\ edits \in 0..MaxEdits
            /\ restarts \in 0..MaxRestarts

Typed == CopiesOK /\ CallsOK /\ RunnerOK /\ CountOK

LEMMA BoundsAreNat == {MaxCalls, MaxEdits, MaxRestarts, MaxFaults, MaxRuns, MaxAttempts} \subseteq Nat
BY StoreAssumption, RunnerAssumption

LEMMA SaveOK ==
    ASSUME CopiesOK, NEW d \in Document, Save(d) PROVE CopiesOK'
BY BoundsAreNat DEF CopiesOK, Save

LEMMA LoadingOK ==
    ASSUME CopiesOK, NEW kind \in Kind, NEW a \in Agent \cup {NoAgent}, kind = "run" => a \in Agent
    PROVE  Loading(kind, a) \in CallRec /\ CallOK(Loading(kind, a))
BY RunnerAssumption DEF CopiesOK, Loading, CallRec, CallOK

LEMMA IdleCallOK == IdleCall \in CallRec /\ CallOK(IdleCall)
BY DEF IdleCall, CallRec, Kind, CallOK

LEMMA SetCallOK ==
    ASSUME CallsOK, NEW c \in Call, NEW rec \in CallRec, CallOK(rec),
           calls' = [calls EXCEPT ![c] = rec]
    PROVE  CallsOK'
BY DEF CallsOK, CallsWellFormed

LEMMA DoneOK == ASSUME CallsOK, NEW c \in Call, Done(c) PROVE CallsOK'
BY IdleCallOK, SetCallOK DEF Done

LEMMA CallDrainOK ==
    ASSUME CopiesOK, CallsOK, NEW c \in Call, CallDrain(c) PROVE CallsOK'
<1>1. Loading("drain", NoAgent) \in CallRec /\ CallOK(Loading("drain", NoAgent))
  BY LoadingOK DEF Kind
<1> QED
  BY <1>1, SetCallOK DEF CallDrain

LEMMA IssueLoadOK ==
    ASSUME CopiesOK, CallsOK, NEW kind \in Kind, NEW a \in Agent \cup {NoAgent},
           kind = "run" => a \in Agent, IssueLoad(kind, a)
    PROVE  CallsOK'
<1>1. PICK c \in Call : calls' = [calls EXCEPT ![c] = Loading(kind, a)]
  BY DEF IssueLoad
<1> QED
  BY <1>1, LoadingOK, SetCallOK

LEMMA AnswerOK ==
    ASSUME CopiesOK, CallsOK, NEW c \in Call, calls[c].pc = "load"
    PROVE  Answer(c) \in Document /\ Fallback(c) \in Document
<1>1. /\ calls[c].fallback \in Document \cup {NoDocument}
      /\ ~LoadsAtomic => calls[c].snap \in Document
  BY DEF CallsOK, CallRec, CallsWellFormed, CallOK
<1> QED
  BY <1>1, EmptyIsDocument, NormalizeType DEF Answer, Fallback, CopiesOK

---------------------------------------------------------------------------
(* Continuations of a load, on a document d. *)

LEMMA QueueNewRunOK ==
    ASSUME Typed, NEW c \in Call, NEW d \in Document, calls[c].kind = "run", QueueNewRun(d, c)
    PROVE  CopiesOK' /\ CallsOK' /\ nextRun' \in 1..(MaxRuns + 1)
<1> DEFINE a == calls[c].agent
           rec == [IdleCall EXCEPT !.pc = "queued", !.agent = a, !.env = d.agents[a].home]
<1>1. a \in Agent
  BY DEF Typed, CallsOK, CallsWellFormed, CallOK
<1>2. nextRun \in RunId /\ nextRun' \in 1..(MaxRuns + 1)
  BY BoundsAreNat DEF QueueNewRun, Typed, CountOK, RunId
<1>3. CopiesOK'
  <2>1. QueueRun(d, a, nextRun) \in Document
    BY <1>1, <1>2, QueueRunType
  <2>2. Save(QueueRun(d, a, nextRun))
    BY DEF QueueNewRun
  <2> QED
    BY <2>1, <2>2, SaveOK DEF Typed
<1>4. rec \in CallRec /\ CallOK(rec)
  BY <1>1 DEF IdleCall, CallRec, CallOK, Document, AgentRec, Kind
<1>5. CallsOK'
  BY <1>4, SetCallOK DEF QueueNewRun, Typed
<1> QED
  BY <1>2, <1>3, <1>5

LEMMA StartDueOK ==
    ASSUME Typed, NEW c \in Call, NEW d \in Document, StartDue(d, c) PROVE CallsOK'
<1>1. PICK who \in [{b \in Call : b = c \/ calls[b].pc = "free"} -> Agent \cup {NoAgent}] :
        calls' = [b \in Call |->
                    IF b \notin DOMAIN who THEN calls[b]
                    ELSE IF who[b] = NoAgent THEN IdleCall ELSE Loading("run", who[b])]
  BY DEF StartDue
<1> SUFFICES ASSUME NEW b \in Call PROVE calls'[b] \in CallRec /\ CallOK(calls'[b])
  BY <1>1 DEF CallsOK, CallsWellFormed
<1>2. CASE b \notin DOMAIN who
  BY <1>1, <1>2 DEF Typed, CallsOK, CallsWellFormed
<1>3. CASE b \in DOMAIN who /\ who[b] = NoAgent
  BY <1>1, <1>3, IdleCallOK
<1>4. CASE b \in DOMAIN who /\ who[b] # NoAgent
  <2>1. who[b] \in Agent
    BY <1>4
  <2>2. Loading("run", who[b]) \in CallRec /\ CallOK(Loading("run", who[b]))
    BY <2>1, LoadingOK DEF Kind, Typed
  <2> QED
    BY <1>1, <1>4, <2>2
<1> QED
  BY <1>2, <1>3, <1>4

LEMMA StartAllOK ==
    ASSUME Typed, NEW d \in Document, NEW D \in SUBSET RunId, StartAll(d, D)
    PROVE  RunnerOK'
<1> DEFINE new == D \ Reserved
           started(r) == [pc |-> "keys", agent |-> d.runs[r].agent, env |-> d.runs[r].env,
                          attempt |-> 0, queued |-> FALSE]
<1>1. \A r \in RunId : started(r) \in ExecRec
  BY BoundsAreNat DEF Document, RunRec, ExecRec, Executing
<1> HIDE DEF started
<1>2. exec' \in [RunId -> ExecRec]
  BY <1>1 DEF StartAll, Typed, RunnerOK, started
<1>3. inFlight' \in [Env -> SUBSET RunId]
  BY DEF StartAll, Typed, RunnerOK
<1>4. starts' \in [RunId -> 0..2]
  BY DEF StartAll, Typed, RunnerOK
<1> QED
  BY <1>2, <1>3, <1>4 DEF RunnerOK

\* A continuation that leaves the document alone.
Proceeds(c, d) ==
    \/ Done(c) /\ UNCHANGED <<runner, nextRun>>
    \/ Drain(d, c)
    \/ StartDue(d, c) /\ UNCHANGED <<runner, nextRun>>

LEMMA ProceedsOK ==
    ASSUME Typed, NEW c \in Call, NEW d \in Document, UNCHANGED bounds, Proceeds(c, d)
    PROVE  CallsOK' /\ RunnerOK' /\ CountOK'
<1>1. CASE Done(c) /\ UNCHANGED <<runner, nextRun>>
  BY <1>1, DoneOK DEF Typed, RunnerOK, CountOK, runner, bounds
<1>2. CASE Drain(d, c)
  <2>1. PICK D \in SUBSET RunId : StartAll(d, D)
    BY <1>2 DEF Drain, QueuedIn
  <2>2. RunnerOK'
    BY <2>1, StartAllOK
  <2>3. CallsOK'
    BY <1>2, DoneOK DEF Drain, Typed
  <2> QED
    BY <1>2, <2>2, <2>3 DEF Drain, Typed, CountOK, bounds
<1>3. CASE StartDue(d, c) /\ UNCHANGED <<runner, nextRun>>
  BY <1>3, StartDueOK DEF Typed, RunnerOK, CountOK, runner, bounds
<1> QED
  BY <1>1, <1>2, <1>3 DEF Proceeds

\* A continuation records a run or proceeds, keeping what Keep says.
LEMMA ContinueCases ==
    ASSUME NEW c \in Call, NEW d, NEW Keep \in BOOLEAN, Continue(c, d, Keep)
    PROVE  \/ calls[c].kind = "run" /\ QueueNewRun(d, c) /\ UNCHANGED runner
           \/ Keep /\ Proceeds(c, d)
BY DEF Continue, Proceeds

LEMMA LoadReturnsOK == ASSUME Typed, NEW c \in Call, LoadReturns(c) PROVE Typed'
<1> DEFINE d == Answer(c)
           Keep == cache' = d /\ UNCHANGED <<disk, legacy, faults>>
<1>1. d \in Document
  BY AnswerOK DEF LoadReturns, Typed
<1>2. Continue(c, d, Keep) /\ UNCHANGED bounds
  BY DEF LoadReturns
<1> HIDE DEF d
<1>3. CASE calls[c].kind = "run" /\ QueueNewRun(d, c) /\ UNCHANGED runner
  BY <1>1, <1>2, <1>3, QueueNewRunOK DEF Typed, RunnerOK, CountOK, runner, bounds
<1>4. CASE Keep /\ Proceeds(c, d)
  <2>1. CopiesOK'
    BY <1>1, <1>4 DEF Typed, CopiesOK
  <2>2. CallsOK' /\ RunnerOK' /\ CountOK'
    BY <1>1, <1>2, <1>4, ProceedsOK
  <2> QED
    BY <2>1, <2>2 DEF Typed
<1> QED
  BY <1>2, <1>3, <1>4, ContinueCases

LEMMA LoadFailsOK == ASSUME Typed, NEW c \in Call, LoadFails(c) PROVE Typed'
<1> DEFINE rec == [calls[c] EXCEPT !.pc = "fallback", !.snap = NoDocument,
                                   !.fallback = NoDocument]
<1>1. Fallback(c) \in Document
  BY AnswerOK DEF LoadFails, Typed
<1>2. CopiesOK'
  BY <1>1, BoundsAreNat DEF LoadFails, Typed, CopiesOK
<1>3. calls[c] \in CallRec /\ CallOK(calls[c])
  BY DEF Typed, CallsOK, CallsWellFormed
<1>4. rec \in CallRec /\ CallOK(rec)
  BY <1>3 DEF CallRec, CallOK
<1>5. calls' = [calls EXCEPT ![c] = rec]
  BY DEF LoadFails, Typed, CallsOK
<1>6. CallsOK'
  BY <1>4, <1>5, SetCallOK DEF Typed
<1> QED
  BY <1>2, <1>6 DEF LoadFails, Typed, RunnerOK, CountOK, runner, bounds

LEMMA FallbackSavedOK == ASSUME Typed, NEW c \in Call, FallbackSaved(c) PROVE Typed'
<1> DEFINE Keep == UNCHANGED <<cache, disk, legacy, faults>>
<1>1. cache \in Document
  BY DEF Typed, CopiesOK
<1>2. Continue(c, cache, Keep) /\ UNCHANGED bounds
  BY DEF FallbackSaved
<1>3. CASE calls[c].kind = "run" /\ QueueNewRun(cache, c) /\ UNCHANGED runner
  BY <1>1, <1>2, <1>3, QueueNewRunOK DEF Typed, RunnerOK, CountOK, runner, bounds
<1>4. CASE Keep /\ Proceeds(c, cache)
  BY <1>1, <1>2, <1>4, ProceedsOK DEF Typed, CopiesOK
<1> QED
  BY <1>2, <1>3, <1>4, ContinueCases

LEMMA RunSavedOK == ASSUME Typed, NEW c \in Call, RunSaved(c) PROVE Typed'
<1> DEFINE rec == [calls[c] EXCEPT !.pc = "event"]
<1>1. cache \in Document
  BY DEF Typed, CopiesOK
<1>2. RunnerOK' /\ CountOK'
  BY DEF RunSaved, Typed, RunnerOK, CountOK, runner, bounds
<1>3. CASE Save(cache) /\ Done(c)
  BY <1>1, <1>2, <1>3, SaveOK, DoneOK DEF Typed
<1>4. CASE Save(cache) /\ calls' = [calls EXCEPT ![c].pc = "event"]
  <2>1. calls[c] \in CallRec /\ CallOK(calls[c])
    BY DEF Typed, CallsOK, CallsWellFormed
  <2>2. rec \in CallRec /\ CallOK(rec)
    BY <2>1 DEF CallRec, CallOK
  <2>3. calls' = [calls EXCEPT ![c] = rec]
    BY <1>4 DEF Typed, CallsOK
  <2> QED
    BY <1>1, <1>2, <1>4, <2>2, <2>3, SaveOK, SetCallOK DEF Typed
<1>5. CASE CallDrain(c) /\ UNCHANGED store
  BY <1>2, <1>5, CallDrainOK DEF Typed, CopiesOK, store
<1> QED
  BY <1>3, <1>4, <1>5 DEF RunSaved

LEMMA EventSavedOK == ASSUME Typed, NEW c \in Call, EventSaved(c) PROVE Typed'
BY CallDrainOK DEF EventSaved, Typed, CopiesOK, RunnerOK, CountOK, store, runner, bounds

---------------------------------------------------------------------------
(* The executor. *)

\* A step of r's invocation that saves the document d.
LEMMA ExecStepOK ==
    ASSUME Typed, NEW r \in RunId, NEW d \in Document, Save(d), NEW from, ExecStep(r, from),
           exec' \in [RunId -> ExecRec]
    PROVE  Typed'
<1>1. CopiesOK'
  BY SaveOK DEF Typed
<1> QED
  BY <1>1 DEF ExecStep, Typed, CallsOK, CallsWellFormed, CallOK, RunnerOK, CountOK, bounds

LEMMA GotoType ==
    ASSUME Typed, NEW r \in RunId, NEW pc \in Executing, Goto(r, pc)
    PROVE  exec' \in [RunId -> ExecRec]
BY DEF Goto, Typed, RunnerOK, ExecRec

LEMMA ExecStepsOK ==
    ASSUME Typed, NEW r \in RunId,
           \/ FirstAttempt(r) \/ RecordEvent(r) \/ QueueFollowup(r) \/ Retry(r)
           \/ AttemptEnds(r) \/ CreateReport(r) \/ Finish(r) \/ Fail(r)
    PROVE  Typed'
<1>1. /\ cache \in Document
      /\ exec \in [RunId -> ExecRec]
      /\ exec[r] \in ExecRec
  BY DEF Typed, CopiesOK, RunnerOK
<1>2. /\ exec[r].agent \in Agent \cup {NoAgent}
      /\ exec[r].attempt \in 0..MaxAttempts
  BY <1>1 DEF ExecRec
<1>3. MarkRunning(cache, exec[r].agent, exec[r].env, r) \in Document
  BY <1>1, MarkRunningType
<1>4. \A s \in RunStatus : FinishRun(cache, exec[r].agent, r, s) \in Document
  BY <1>1, FinishRunType
<1>5. AddApprovals(cache, exec[r].agent, r) \in Document
  BY <1>1, <1>2, ApprovalType
<1>6. ASSUME FirstAttempt(r) PROVE Typed'
  <2> DEFINE rec == [exec[r] EXCEPT !.pc = "attempt", !.attempt = 1]
  <2>1. 1 \in 0..MaxAttempts
    BY RunnerAssumption
  <2>2. rec \in ExecRec
    BY <1>1, <2>1 DEF ExecRec, Executing
  <2>3. exec' = [exec EXCEPT ![r] = rec]
    BY <1>1, <1>6 DEF FirstAttempt
  <2>4. exec' \in [RunId -> ExecRec]
    BY <1>1, <2>2, <2>3
  <2> QED
    BY <1>3, <1>6, <2>4, ExecStepOK DEF FirstAttempt
<1>7. ASSUME RecordEvent(r) PROVE Typed'
  BY <1>1, <1>7, ExecStepOK DEF RecordEvent
<1>8. ASSUME QueueFollowup(r) PROVE Typed'
  <2>1. exec' \in [RunId -> ExecRec]
    BY <1>1, <1>8 DEF QueueFollowup, ExecRec
  <2> QED
    BY <1>1, <1>8, <2>1, ExecStepOK DEF QueueFollowup
<1>9. ASSUME Retry(r) PROVE Typed'
  <2>1. exec' = [exec EXCEPT ![r].attempt = exec[r].attempt + 1]
    BY <1>9 DEF Retry
  <2>2. exec[r].attempt + 1 \in 0..MaxAttempts
    BY <1>2, <1>9, BoundsAreNat DEF Retry
  <2>3. exec' \in [RunId -> ExecRec]
    BY <1>1, <2>1, <2>2 DEF ExecRec
  <2> QED
    BY <1>3, <1>9, <2>3, ExecStepOK DEF Retry
<1>10. ASSUME AttemptEnds(r) PROVE Typed'
  <2>1. \/ Goto(r, "approvals") /\ Save(AddApprovals(cache, exec[r].agent, r))
        \/ Goto(r, "report") /\ Save(cache)
    BY <1>10 DEF AttemptEnds
  <2>2. exec' \in [RunId -> ExecRec]
    BY <2>1, GotoType DEF Executing
  <2>3. ExecStep(r, "attempt")
    BY <1>10 DEF AttemptEnds
  <2> QED
    BY <1>1, <1>5, <2>1, <2>2, <2>3, ExecStepOK
<1>11. ASSUME CreateReport(r) PROVE Typed'
  <2>1. exec' \in [RunId -> ExecRec]
    BY <1>11, GotoType DEF CreateReport, Executing
  <2> QED
    BY <1>1, <1>11, <2>1, ExecStepOK DEF CreateReport
<1>12. ASSUME Finish(r) PROVE Typed'
  <2> DEFINE s == IF exec[r].queued THEN "approval_required" ELSE "success"
  <2>1. s \in RunStatus
    BY DEF RunStatus
  <2>2. Save(FinishRun(cache, exec[r].agent, r, s)) /\ Goto(r, "closing") /\ ExecStep(r, "report")
    BY <1>12 DEF Finish
  <2> HIDE DEF s
  <2>3. exec' \in [RunId -> ExecRec]
    BY <2>2, GotoType DEF Executing
  <2> QED
    BY <1>4, <2>1, <2>2, <2>3, ExecStepOK
<1>13. ASSUME Fail(r) PROVE Typed'
  <2>1. exec' \in [RunId -> ExecRec]
    BY <1>13, GotoType DEF Fail, Executing
  <2>2. "failed" \in RunStatus
    BY DEF RunStatus
  <2> QED
    BY <1>4, <1>13, <2>1, <2>2, ExecStepOK DEF Fail
<1> QED
  BY <1>6, <1>7, <1>8, <1>9, <1>10, <1>11, <1>12, <1>13

LEMMA IdleExecOK == IdleExec \in ExecRec
BY BoundsAreNat DEF IdleExec, ExecRec

LEMMA CloseOK == ASSUME Typed, NEW r \in RunId, Close(r) PROVE Typed'
<1>1. CallsOK'
  BY IssueLoadOK DEF Close, Typed, Kind
<1>2. RunnerOK'
  BY IdleExecOK DEF Close, Typed, RunnerOK
<1> QED
  BY <1>1, <1>2 DEF Close, Typed, CopiesOK, CountOK, store, bounds

---------------------------------------------------------------------------
(* Requests, edits and restarts. *)

LEMMA RequestsOK == ASSUME Typed, Requests PROVE Typed'
<1>1. UNCHANGED <<store, runner, nextRun, bounds>>
  BY DEF Requests, RequestRun, ScanDue, Refresh
<1>2. CallsOK'
  BY IssueLoadOK DEF Requests, RequestRun, ScanDue, Refresh, Typed, Kind
<1> QED
  BY <1>1, <1>2 DEF Typed, CopiesOK, RunnerOK, CountOK, store, runner, bounds

LEMMA EditOK ==
    ASSUME Typed, NEW d \in Document, Edit(d), born' \subseteq Agent \cup Env
    PROVE  Typed'
<1>1. CopiesOK'
  BY SaveOK DEF Edit, Typed
<1>2. CallsOK' /\ RunnerOK'
  BY DEF Edit, Typed, CallsOK, CallsWellFormed, CallOK, RunnerOK, runner
<1>3. CountOK'
  BY BoundsAreNat DEF Edit, Typed, CountOK
<1> QED
  BY <1>1, <1>2, <1>3 DEF Typed

LEMMA EditsOK == ASSUME Typed, Edits PROVE Typed'
<1>1. cache \in Document /\ born \subseteq Agent \cup Env
  BY DEF Typed, CopiesOK, CountOK
<1>2. ASSUME NEW a \in Agent, NEW e \in Env, AddAgent(a, e) PROVE Typed'
  BY <1>1, <1>2, CreateAgentType, EditOK DEF AddAgent
<1>3. ASSUME NEW e \in Env, AddEnv(e) PROVE Typed'
  BY <1>1, <1>3, EnvEditType, EditOK DEF AddEnv
<1>4. CASE EditAgents /\ UNCHANGED born
  <2>1. PICK a \in Agent : \/ Edit(DeleteAgent(cache, a))
                           \/ \E e \in Env : Edit(UpdateAgent(cache, a, e))
    BY <1>4 DEF EditAgents
  <2> QED
    BY <1>1, <1>4, <2>1, DeleteAgentType, UpdateAgentType, EditOK
<1>5. CASE EditEnvs /\ UNCHANGED born
  <2>1. PICK e \in Env : \/ Edit(SwitchEnv(cache, e, ~cache.envs[e].enabled))
                         \/ Edit(EditEnv(cache, e))
                         \/ Edit(DeleteEnv(cache, e))
    BY <1>5 DEF EditEnvs
  <2> DEFINE on == ~cache.envs[e].enabled
  <2>2. on \in BOOLEAN
    OBVIOUS
  <2>3. Edit(SwitchEnv(cache, e, on)) \/ Edit(EditEnv(cache, e)) \/ Edit(DeleteEnv(cache, e))
    BY <2>1
  <2> HIDE DEF on
  <2>4. /\ SwitchEnv(cache, e, on) \in Document
        /\ EditEnv(cache, e) \in Document
        /\ DeleteEnv(cache, e) \in Document
    BY <1>1, <2>2, EnvEditType
  <2> QED
    BY <1>1, <1>5, <2>3, <2>4, EditOK
<1>6. CASE EditRuns /\ UNCHANGED born
  <2>1. PICK r \in RunId :
          Edit(cache) \/ \E s \in {"approved", "rejected"} : Edit(ResolveApproval(cache, r, s))
    BY <1>6 DEF EditRuns
  <2> QED
    BY <1>1, <1>6, <2>1, ApprovalType, EditOK
<1> QED
  BY <1>2, <1>3, <1>4, <1>5, <1>6 DEF Edits

LEMMA RestartOK == ASSUME Typed, Restart PROVE Typed'
<1>1. CopiesOK'
  BY NormalizeType DEF Restart, Typed, CopiesOK
<1>2. CallsOK'
  BY IdleCallOK DEF Restart, CallsOK, CallsWellFormed
<1>3. RunnerOK'
  BY IdleExecOK DEF Restart, RunnerOK
<1>4. CountOK'
  BY BoundsAreNat DEF Restart, Typed, CountOK
<1> QED
  BY <1>1, <1>2, <1>3, <1>4 DEF Typed

---------------------------------------------------------------------------

LEMMA TypedInit == Init => Typed
<1> SUFFICES ASSUME Init PROVE Typed
  OBVIOUS
<1>1. CopiesOK
  BY InitIsDocument, BoundsAreNat DEF Init, CopiesOK
<1>2. CallsOK
  BY IdleCallOK DEF Init, CallsOK, CallsWellFormed
<1>3. RunnerOK
  BY IdleExecOK DEF Init, RunnerOK
<1>4. CountOK
  BY BoundsAreNat, RunnerAssumption DEF Init, CountOK
<1> QED
  BY <1>1, <1>2, <1>3, <1>4 DEF Typed

LEMMA TypedStep == Typed /\ [Next]_vars => Typed'
<1> SUFFICES ASSUME Typed, [Next]_vars PROVE Typed'
  OBVIOUS
<1>1. CASE CallSteps
  BY <1>1, LoadReturnsOK, LoadFailsOK, FallbackSavedOK, RunSavedOK, EventSavedOK DEF CallSteps
<1>2. CASE ExecSteps
  BY <1>2, ExecStepsOK, CloseOK DEF ExecSteps
<1>3. CASE Requests \/ Edits \/ Restart
  BY <1>3, RequestsOK, EditsOK, RestartOK
<1>4. CASE UNCHANGED vars
  BY <1>4 DEF vars, store, runner, bounds, Typed, CopiesOK, CallsOK, CallsWellFormed, CallOK,
              RunnerOK, CountOK
<1> QED
  BY <1>1, <1>2, <1>3, <1>4 DEF Next

LEMMA ForgetsAgents == forgotten \subseteq Agent /\ [Next]_vars => forgotten' \subseteq Agent
<1> SUFFICES ASSUME forgotten \subseteq Agent, [Next]_vars PROVE forgotten' \subseteq Agent
  OBVIOUS
<1>1. ASSUME NEW d, Replaces(d) PROVE forgotten' \subseteq Agent
  BY <1>1 DEF Replaces
<1>2. CASE CallSteps
  BY <1>1, <1>2 DEF CallSteps, LoadReturns, LoadFails, FallbackSaved, RunSaved, EventSaved
<1>3. CASE ExecSteps
  BY <1>3 DEF ExecSteps, ExecStep, FirstAttempt, RecordEvent, QueueFollowup, Retry, AttemptEnds,
              CreateReport, Finish, Fail, Close
<1>4. CASE Requests \/ Edits
  BY <1>4 DEF Requests, RequestRun, ScanDue, Refresh, Edits, AddAgent, AddEnv, EditAgents,
              EditEnvs, EditRuns, Edit
<1>5. CASE Restart
  BY <1>1, <1>5 DEF Restart
<1>6. CASE UNCHANGED vars
  BY <1>6 DEF vars
<1> QED
  BY <1>2, <1>3, <1>4, <1>5, <1>6 DEF Next

\* Every variable keeps its type: a document made by any updater, of any copy,
\* stale or lost, is a document, and a call that is to run an agent names one.
THEOREM TypeCorrect == Spec => [](TypeOK /\ CallsWellFormed)
<1> DEFINE Forgets == forgotten \subseteq Agent
<1>1. Typed /\ Forgets => TypeOK /\ CallsWellFormed
  BY DEF Typed, CopiesOK, CallsOK, RunnerOK, CountOK, TypeOK
<1>2. Init => Forgets
  BY DEF Init
<1>3. Forgets /\ [Next]_vars => Forgets'
  BY ForgetsAgents
<1> HIDE DEF Forgets
<1> QED
  BY TypedInit, TypedStep, <1>1, <1>2, <1>3, PTL DEF Spec

---------------------------------------------------------------------------
(* Reservations.  WithinCapacity and OneExecutorPerRun rest on             *)
(* ReservationsMatch: the size of inFlight is what a drain compares with   *)
(* the limit, and its members are the runs it will not start again.        *)

\* A step moves invocations on, starts some, closes one, or restarts.
MovesOn == /\ UNCHANGED <<inFlight, starts>>
           /\ \A r \in RunId : (exec'[r].pc = "idle") = (exec[r].pc = "idle")
           /\ \A r \in RunId : exec'[r].env = exec[r].env
Starts  == \E d \in Document : \E D \in SUBSET UNION {QueuedIn(d, e) : e \in Env} :
              Picked(d, D) /\ StartAll(d, D)

LEMMA ProceedsStarts ==
    ASSUME Typed, NEW c, NEW d \in Document, Proceeds(c, d) PROVE MovesOn \/ Starts
BY DEF Proceeds, Drain, MovesOn, Starts, runner

LEMMA StepKinds ==
    ASSUME Typed, [Next]_vars
    PROVE  MovesOn \/ Starts \/ (\E r \in RunId : Close(r)) \/ Restart
<1>1. ASSUME UNCHANGED runner PROVE MovesOn
  BY <1>1 DEF MovesOn, runner
<1>2. ASSUME NEW c \in Call, LoadReturns(c) PROVE MovesOn \/ Starts
  <2> DEFINE d == Answer(c)
  <2>1. d \in Document
    BY <1>2, AnswerOK DEF LoadReturns, Typed
  <2>2. Continue(c, d, cache' = d /\ UNCHANGED <<disk, legacy, faults>>)
    BY <1>2 DEF LoadReturns
  <2> HIDE DEF d
  <2> QED
    BY <1>1, <2>1, <2>2, ContinueCases, ProceedsStarts
<1>3. ASSUME NEW c \in Call, FallbackSaved(c) PROVE MovesOn \/ Starts
  <2>1. cache \in Document
    BY DEF Typed, CopiesOK
  <2>2. Continue(c, cache, UNCHANGED <<cache, disk, legacy, faults>>)
    BY <1>3 DEF FallbackSaved
  <2> QED
    BY <1>1, <2>1, <2>2, ContinueCases, ProceedsStarts
<1>4. CASE CallSteps
  BY <1>1, <1>2, <1>3, <1>4 DEF CallSteps, LoadFails, RunSaved, EventSaved
<1>5. ASSUME NEW r \in RunId,
             \/ FirstAttempt(r) \/ RecordEvent(r) \/ QueueFollowup(r) \/ Retry(r)
             \/ AttemptEnds(r) \/ CreateReport(r) \/ Finish(r) \/ Fail(r)
      PROVE  MovesOn
  <2>1. exec[r].pc \in Executing
    BY <1>5 DEF FirstAttempt, RecordEvent, QueueFollowup, Retry, AttemptEnds, CreateReport,
                Finish, Fail, ExecStep, Executing
  <2>2. exec[r].pc # "idle"
    BY <2>1 DEF Executing
  <2>3. exec[r] \in ExecRec /\ exec \in [RunId -> ExecRec]
    BY DEF Typed, RunnerOK
  <2>4. UNCHANGED <<inFlight, starts>>
    BY <1>5 DEF FirstAttempt, RecordEvent, QueueFollowup, Retry, AttemptEnds, CreateReport,
                Finish, Fail, ExecStep
  <2>5. \/ exec' = exec
        \/ \E pc \in Executing : exec' = [exec EXCEPT ![r].pc = pc]
        \/ exec' = [exec EXCEPT ![r].pc = "attempt", ![r].attempt = 1]
        \/ exec' = [exec EXCEPT ![r].queued = TRUE]
        \/ \E n : exec' = [exec EXCEPT ![r].attempt = n]
    BY <1>5 DEF FirstAttempt, RecordEvent, QueueFollowup, Retry, AttemptEnds, CreateReport,
                Finish, Fail, Goto, Executing
  <2>6. exec'[r].pc # "idle" /\ exec'[r].env = exec[r].env
    BY <2>2, <2>3, <2>5 DEF ExecRec, Executing
  <2>7. \A q \in RunId \ {r} : exec'[q] = exec[q]
    BY <2>3, <2>5
  <2> QED
    BY <2>2, <2>4, <2>6, <2>7 DEF MovesOn
<1>6. CASE ExecSteps
  BY <1>5, <1>6 DEF ExecSteps
<1>7. CASE Requests
  BY <1>1, <1>7 DEF Requests, RequestRun, ScanDue, Refresh
<1>8. CASE Edits
  BY <1>1, <1>8 DEF Edits, AddAgent, AddEnv, EditAgents, EditEnvs, EditRuns, Edit
<1>9. CASE UNCHANGED vars
  BY <1>1, <1>9 DEF vars
<1> QED
  BY <1>4, <1>6, <1>7, <1>8, <1>9 DEF Next

LEMMA ReservationsStep ==
    ASSUME Typed, ReservationsMatch, [Next]_vars PROVE ReservationsMatch'
<1> USE DEF Typed, RunnerOK
<1> SUFFICES ASSUME NEW e \in Env
             PROVE  inFlight'[e] = {r \in RunId : exec'[r].pc # "idle" /\ exec'[r].env = e}
  BY DEF ReservationsMatch
<1>1. inFlight[e] = {r \in RunId : exec[r].pc # "idle" /\ exec[r].env = e}
  BY DEF ReservationsMatch
<1>2. CASE MovesOn
  BY <1>1, <1>2 DEF MovesOn
<1>3. CASE Starts
  <2>0. PICK d \in Document : \E D \in SUBSET UNION {QueuedIn(d, f) : f \in Env} : StartAll(d, D)
    BY <1>3 DEF Starts
  <2>1. PICK D \in SUBSET UNION {QueuedIn(d, f) : f \in Env} : StartAll(d, D)
    BY <2>0
  <2> DEFINE new == D \ Reserved
  <2>2. new \subseteq RunId
    BY DEF QueuedIn
  <2>3. \A r \in new : r \notin inFlight[e]
    BY DEF Reserved
  <2>4. inFlight'[e] = inFlight[e] \cup {r \in new : d.runs[r].env = e}
    BY <2>1 DEF StartAll
  <2>5. \A r \in RunId : IF r \in new THEN exec'[r].pc = "keys" /\ exec'[r].env = d.runs[r].env
                         ELSE exec'[r] = exec[r]
    BY <2>1 DEF StartAll
  <2> HIDE DEF new
  <2> QED
    BY <1>1, <2>2, <2>3, <2>4, <2>5
<1>4. ASSUME NEW r \in RunId, Close(r)
      PROVE  inFlight'[e] = {q \in RunId : exec'[q].pc # "idle" /\ exec'[q].env = e}
  <2>1. /\ exec'[r].pc = "idle"
        /\ \A q \in RunId \ {r} : exec'[q] = exec[q]
    BY <1>4 DEF Close, IdleExec
  <2>2. CASE exec[r].env = e
    <3>1. inFlight'[e] = inFlight[e] \ {r}
      BY <1>4, <2>2 DEF Close
    <3> QED
      BY <1>1, <2>1, <3>1
  <2>3. CASE exec[r].env # e
    <3>1. inFlight'[e] = inFlight[e]
      BY <1>4, <2>3 DEF Close
    <3> QED
      BY <1>1, <2>1, <2>3, <3>1
  <2> QED
    BY <2>2, <2>3
<1>5. CASE Restart
  BY <1>5 DEF Restart, IdleExec
<1> QED
  BY <1>2, <1>3, <1>4, <1>5, StepKinds

\* The reservations are those of the live invocations: no failure, retry or
\* stale document leaks one, and none is released twice.
THEOREM Reservations == Spec => []ReservationsMatch
<1>1. Init => ReservationsMatch
  BY DEF Init, ReservationsMatch, IdleExec
<1> QED
  BY <1>1, TypedInit, TypedStep, ReservationsStep, PTL DEF Spec

LEMMA RunsAreFinite ==
    ASSUME NEW S \in SUBSET RunId PROVE IsFiniteSet(S) /\ Cardinality(S) \in Nat
<1>1. MaxRuns \in Int
  BY StoreAssumption
<1>2. IsFiniteSet(RunId)
  BY <1>1, FS_Interval DEF RunId
<1> QED
  BY <1>2, FS_Subset, FS_CardinalityType

LEMMA CapacityStep ==
    ASSUME Typed, WithinCapacity, [Next]_vars PROVE WithinCapacity'
<1> USE DEF Typed, RunnerOK
<1> SUFFICES ASSUME NEW e \in Env PROVE Cardinality(inFlight'[e]) <= Limit[e]
  BY DEF WithinCapacity
<1>1. /\ inFlight[e] \subseteq RunId
      /\ Limit[e] \in Nat
      /\ Cardinality(inFlight[e]) \in Nat
      /\ Cardinality(inFlight[e]) <= Limit[e]
  BY StoreAssumption, RunsAreFinite DEF WithinCapacity
<1>2. CASE MovesOn
  BY <1>1, <1>2 DEF MovesOn
<1>3. CASE Starts
  <2>0. PICK d \in Document : \E D \in SUBSET UNION {QueuedIn(d, f) : f \in Env} :
               Picked(d, D) /\ StartAll(d, D)
    BY <1>3 DEF Starts
  <2>1. PICK D \in SUBSET UNION {QueuedIn(d, f) : f \in Env} : Picked(d, D) /\ StartAll(d, D)
    BY <2>0
  <2> DEFINE here  == {r \in D : d.runs[r].env = e}
             added == {r \in D \ Reserved : d.runs[r].env = e}
             free  == Limit[e] - Cardinality(inFlight[e])
  <2>2. here \subseteq RunId /\ added \subseteq here
    BY DEF QueuedIn
  <2>3. inFlight'[e] = inFlight[e] \cup added
    BY <2>1 DEF StartAll
  <2>4. here = {} \/ Cardinality(here) <= free
    BY <2>1 DEF Picked, Free
  <2>5. Cardinality(added) \in Nat /\ Cardinality(added) <= Cardinality(here)
    BY <2>2, RunsAreFinite, FS_Subset
  <2>6. Cardinality(here) \in Nat /\ Cardinality({}) = 0
    BY <2>2, RunsAreFinite, FS_EmptySet
  <2> HIDE DEF here, added
  <2>7. Cardinality(added) <= free
    <3>1. CASE here = {}
      BY <1>1, <2>5, <2>6, <3>1
    <3>2. CASE Cardinality(here) <= free
      BY <1>1, <2>5, <2>6, <3>2
    <3> QED
      BY <2>4, <3>1, <3>2
  <2>8. Cardinality(inFlight[e] \cup added) <= Cardinality(inFlight[e]) + Cardinality(added)
    <3> DEFINE held == inFlight[e]
               both == held \cap added
    <3>1. /\ IsFiniteSet(held) /\ IsFiniteSet(added)
          /\ Cardinality(both) \in Nat
          /\ Cardinality(held) \in Nat
      BY <1>1, <2>2, RunsAreFinite
    <3>2. Cardinality(held \cup added) = Cardinality(held) + Cardinality(added) - Cardinality(both)
      BY <3>1, FS_Union
    <3> HIDE DEF held, both
    <3>3. Cardinality(held \cup added) <= Cardinality(held) + Cardinality(added)
      BY <2>5, <3>1, <3>2
    <3> QED
      BY <3>3 DEF held
  <2>9. Cardinality(inFlight[e] \cup added) \in Nat
    BY <1>1, <2>2, RunsAreFinite
  <2> QED
    BY <1>1, <2>3, <2>5, <2>7, <2>8, <2>9
<1>4. ASSUME NEW r \in RunId, Close(r) PROVE Cardinality(inFlight'[e]) <= Limit[e]
  <2>1. inFlight'[e] \subseteq inFlight[e]
    BY <1>4 DEF Close
  <2>2. Cardinality(inFlight'[e]) \in Nat /\ Cardinality(inFlight'[e]) <= Cardinality(inFlight[e])
    BY <1>1, <2>1, RunsAreFinite, FS_Subset
  <2> QED
    BY <1>1, <2>2
<1>5. CASE Restart
  BY <1>1, <1>5, FS_EmptySet DEF Restart
<1> QED
  BY <1>2, <1>3, <1>4, <1>5, StepKinds

\* An environment never has more invocations than its concurrency limit, however
\* many drains overlap and on whatever documents they work.
THEOREM Capacity == Spec => []WithinCapacity
<1>1. Init => WithinCapacity
  BY StoreAssumption, FS_EmptySet DEF Init, WithinCapacity
<1> QED
  BY <1>1, TypedInit, TypedStep, CapacityStep, PTL DEF Spec

LEMMA StartsIdleOnly ==
    ASSUME Typed, ReservationsMatch, \A r \in RunId : exec[r].pc # "idle" => exec[r].env \in Env,
           [Next]_vars
    PROVE  /\ \A r \in RunId : starts'[r] > starts[r] => exec[r].pc = "idle"
           /\ \A r \in RunId : exec'[r].pc # "idle" => exec'[r].env \in Env
<1> USE DEF Typed, RunnerOK
<1>1. CASE MovesOn
  BY <1>1 DEF MovesOn
<1>2. CASE Starts
  <2>0. PICK d \in Document : \E D \in SUBSET UNION {QueuedIn(d, f) : f \in Env} : StartAll(d, D)
    BY <1>2 DEF Starts
  <2>1. PICK D \in SUBSET UNION {QueuedIn(d, f) : f \in Env} : StartAll(d, D)
    BY <2>0
  <2> DEFINE new == D \ Reserved
  <2>2. \A r \in new : r \in RunId /\ d.runs[r].env \in Env
    BY DEF QueuedIn
  <2>3. \A r \in new : exec[r].pc = "idle"
    BY <2>2 DEF Reserved, ReservationsMatch
  <2>4. \A r \in RunId : IF r \in new THEN exec'[r].env = d.runs[r].env
                         ELSE exec'[r] = exec[r] /\ starts'[r] = starts[r]
    BY <2>1 DEF StartAll
  <2> HIDE DEF new
  <2> QED
    BY <2>2, <2>3, <2>4
<1>3. ASSUME NEW r \in RunId, Close(r)
      PROVE  UNCHANGED starts /\ \A q \in RunId : exec'[q].pc # "idle" => exec'[q].env \in Env
  BY <1>3 DEF Close, IdleExec
<1>4. CASE Restart
  BY <1>4 DEF Restart, IdleExec
<1> QED
  BY <1>1, <1>2, <1>3, <1>4, StepKinds

\* No run gets a second invocation while it has one, whatever the documents the
\* drains work on say of it.
THEOREM OneExecutor == Spec => OneExecutorPerRun
<1> DEFINE Placed == \A r \in RunId : exec[r].pc # "idle" => exec[r].env \in Env
           Once   == \A r \in RunId : starts'[r] > starts[r] => exec[r].pc = "idle"
<1>1. Init => Placed
  BY DEF Init, IdleExec
<1>2. Typed /\ ReservationsMatch /\ Placed /\ [Next]_vars => Placed' /\ Once
  BY StartsIdleOnly
<1>3. Spec => []Typed /\ []ReservationsMatch
  BY TypedInit, TypedStep, Reservations, PTL DEF Spec
<1> HIDE DEF Placed, Once
<1>4. Spec => [][Once]_vars
  BY <1>1, <1>2, <1>3, PTL DEF Spec
<1> QED
  BY <1>4 DEF OneExecutorPerRun, Once

---------------------------------------------------------------------------
(* What is known of the agents.  A document that replaces the cache may     *)
(* tell something else of an agent than the cache did: the agent is then    *)
(* forgotten.  Of the others the cache goes on telling the truth, and what  *)
(* the agents promise of their runs holds over every late answer, failure,  *)
(* edit and restart.  It rests on what a document says of its runs          *)
(* (History) and on the run behind every invocation (Execs), both read      *)
(* without the forgotten agents (Known, Busy), and on run ids that mean the *)
(* same run in every copy of the document (Drawn).                          *)

RunsBelong(d, n) ==
    \A r \in RunId :
        IF d.runs[r].status = "absent" THEN d.runs[r].agent = NoAgent
        ELSE d.runs[r].agent \in Agent /\ HasAgent(d, d.runs[r].agent) /\ r < n
OpenIsNewest(d) ==
    \A q, r \in RunId : IsOpen(d, r) /\ d.runs[q].agent = d.runs[r].agent => q <= r
AgentsBorn(d, b) == \A a \in Agent : HasAgent(d, a) => a \in b
LastIsNewest(d) ==
    \A a \in Agent : \A r \in RunsOf(d, a) :
        (\A q \in RunsOf(d, a) : q <= r) => d.agents[a].last = d.runs[r].status

History(d, n, b) ==
    RunsBelong(d, n) /\ OpenIsNewest(d) /\ AgentsBorn(d, b) /\ LastIsNewest(d)

Works(x) == x.pc \in Executing \ {"closing"}

\* The run of a working invocation is in the state the invocation left it in,
\* or it is gone with its agent, whose id is not drawn again.
Open(d, r, a) == IsOpen(d, r) /\ d.runs[r].agent = a
Gone(d, b, r, a) == d.runs[r].status = "absent" /\ ~HasAgent(d, a) /\ a \in b
Backed(d, b, r, x) ==
    \/ /\ d.runs[r].agent = x.agent
       /\ d.runs[r].status = IF x.pc = "keys" THEN "queued" ELSE "running"
    \/ Gone(d, b, r, x.agent)

Execs(d, n, b, ex) ==
    \A r \in RunId : /\ ex[r].pc # "idle" => r < n
                     /\ Works(ex[r]) => ex[r].agent \in Agent /\ Backed(d, b, r, ex[r])

---------------------------------------------------------------------------
(* The updaters. *)

\* Nothing that History or Execs says of the document changes.
SameRuns(d, d2) ==
    /\ d2.runs = d.runs
    /\ \A a \in Agent : /\ d2.agents[a].last = d.agents[a].last
                        /\ HasAgent(d2, a) = HasAgent(d, a)

\* Run r and its agent a are given the status s.
Sets(d, d2, r, a, s) == d2.runs = SetStatus(d, r, s) /\ d2.agents = SetLast(d, a, s)

LEMMA SameHistory ==
    ASSUME NEW d, NEW d2, NEW n, NEW b, NEW b2, History(d, n, b),
           SameRuns(d, d2), b \subseteq b2
    PROVE  History(d2, n, b2)
<1>1. /\ d2.runs = d.runs
      /\ \A a \in Agent : /\ d2.agents[a].last = d.agents[a].last
                          /\ HasAgent(d2, a) = HasAgent(d, a)
  BY DEF SameRuns
<1>2. RunsBelong(d2, n)
  BY <1>1 DEF History, RunsBelong
<1>3. OpenIsNewest(d2)
  BY <1>1 DEF History, OpenIsNewest, IsOpen
<1>4. AgentsBorn(d2, b2)
  BY <1>1 DEF History, AgentsBorn
<1>5. LastIsNewest(d2)
  BY <1>1 DEF History, LastIsNewest, RunsOf
<1> QED
  BY <1>2, <1>3, <1>4, <1>5 DEF History

LEMMA CreateHistory ==
    ASSUME NEW d \in Document, NEW n, NEW b, NEW a \in Agent, NEW e \in Env,
           History(d, n, b), a \notin b
    PROVE  History(CreateAgent(d, a, e), n, b \cup {a})
<1> DEFINE d2 == CreateAgent(d, a, e)
<1>1. /\ d2.runs = d.runs
      /\ d2.agents[a].home = e
      /\ \A c \in Agent \ {a} : d2.agents[c] = d.agents[c]
  BY DEF CreateAgent, Document
<1>2. ~HasAgent(d, a) /\ HasAgent(d2, a)
  BY <1>1, StoreAssumption DEF History, AgentsBorn, HasAgent
<1>3. RunsOf(d, a) = {}
  BY <1>2, StoreAssumption DEF History, RunsBelong, RunsOf
<1> HIDE DEF d2
<1>4. RunsBelong(d2, n)
  BY <1>1, <1>2 DEF History, RunsBelong, HasAgent
<1>5. OpenIsNewest(d2)
  BY <1>1 DEF History, OpenIsNewest, IsOpen
<1>6. AgentsBorn(d2, b \cup {a})
  BY <1>1 DEF History, AgentsBorn, HasAgent
<1>7. LastIsNewest(d2)
  BY <1>1, <1>3 DEF History, LastIsNewest, RunsOf
<1> QED
  BY <1>4, <1>5, <1>6, <1>7 DEF History, d2

LEMMA DeleteView ==
    ASSUME NEW d \in Document, NEW a \in Agent
    PROVE  /\ \A r \in RunId : DeleteAgent(d, a).runs[r] = IF d.runs[r].agent = a THEN NoRun
                                                            ELSE d.runs[r]
           /\ ~HasAgent(DeleteAgent(d, a), a)
           /\ \A c \in Agent \ {a} : DeleteAgent(d, a).agents[c] = d.agents[c]
BY DEF DeleteAgent, Document, RunsOf, HasAgent, NoAgentRec

LEMMA QueueView ==
    ASSUME NEW d \in Document, NEW a \in Agent, NEW n \in RunId, CanQueue(d, a)
    PROVE  /\ QueueRun(d, a, n).runs[n] = [agent |-> a, env |-> d.agents[a].home,
                                           status |-> "queued"]
           /\ \A q \in RunId \ {n} :
                 \/ QueueRun(d, a, n).runs[q] = d.runs[q]
                 \/ /\ QueueRun(d, a, n).runs[q] = NoRun
                    /\ d.runs[q].agent = a /\ ~IsOpen(d, q)
           /\ QueueRun(d, a, n).agents[a] = [d.agents[a] EXCEPT !.last = "queued"]
           /\ \A c \in Agent \ {a} : QueueRun(d, a, n).agents[c] = d.agents[c]
<1> DEFINE trimmed == {q \in RunsOf(d, a) :
                         Cardinality({p \in RunsOf(d, a) : p > q}) + 1 >= HistoryLimit}
           runs == [q \in RunId |->
                      IF q = n THEN [agent |-> a, env |-> d.agents[a].home, status |-> "queued"]
                      ELSE IF q \in trimmed THEN NoRun ELSE d.runs[q]]
<1>1. \A q \in trimmed : d.runs[q].agent = a /\ ~IsOpen(d, q)
  BY DEF CanQueue, HasOpenRun, RunsOf
<1>2. QueueRun(d, a, n) = [d EXCEPT !.runs = runs, !.agents[a].last = "queued"]
  BY DEF QueueRun
<1> HIDE DEF trimmed
<1>3. QueueRun(d, a, n).runs = runs
  <2> HIDE DEF runs
  <2> QED BY <1>2 DEF Document
<1>4. QueueRun(d, a, n).agents = [d.agents EXCEPT ![a].last = "queued"]
  <2> HIDE DEF runs
  <2> QED BY <1>2 DEF Document
<1> QED
  BY <1>1, <1>3, <1>4 DEF Document

LEMMA QueueHistory ==
    ASSUME NEW d \in Document, NEW n \in RunId, NEW b, NEW a \in Agent,
           History(d, n, b), CanQueue(d, a)
    PROVE  History(QueueRun(d, a, n), n + 1, b)
<1> DEFINE d2 == QueueRun(d, a, n)
<1>1. /\ d2.runs[n].agent = a /\ d2.runs[n].status = "queued"
      /\ \A q \in RunId \ {n} : \/ d2.runs[q] = d.runs[q]
                                \/ /\ d2.runs[q] = NoRun
                                   /\ d.runs[q].agent = a /\ ~IsOpen(d, q)
      /\ d2.agents[a] = [d.agents[a] EXCEPT !.last = "queued"]
      /\ \A c \in Agent \ {a} : d2.agents[c] = d.agents[c]
  <2>1. /\ QueueRun(d, a, n).runs[n] = [agent |-> a, env |-> d.agents[a].home,
                                       status |-> "queued"]
        /\ \A q \in RunId \ {n} :
              \/ QueueRun(d, a, n).runs[q] = d.runs[q]
              \/ /\ QueueRun(d, a, n).runs[q] = NoRun
                 /\ d.runs[q].agent = a /\ ~IsOpen(d, q)
        /\ QueueRun(d, a, n).agents[a] = [d.agents[a] EXCEPT !.last = "queued"]
        /\ \A c \in Agent \ {a} : QueueRun(d, a, n).agents[c] = d.agents[c]
    BY QueueView
  <2> QED
    BY <2>1
<1>2. d2.agents[a].last = "queued" /\ d2.agents[a].home = d.agents[a].home
  BY <1>1 DEF Document, AgentRec
<1>3. \A c \in Agent : HasAgent(d2, c) = HasAgent(d, c)
  BY <1>1, <1>2 DEF HasAgent
<1>4. \A r \in RunId : r <= n => r < n + 1
  BY DEF RunId
<1>5. \A r \in RunId : d.runs[r].status # "absent" => r < n
  BY DEF History, RunsBelong
<1> HIDE DEF d2
<1>6. RunsBelong(d2, n + 1)
  <2> SUFFICES ASSUME NEW r \in RunId
               PROVE  IF d2.runs[r].status = "absent" THEN d2.runs[r].agent = NoAgent
                      ELSE d2.runs[r].agent \in Agent /\ HasAgent(d2, d2.runs[r].agent) /\ r < n + 1
    BY DEF RunsBelong
  <2>1. CASE r = n
    BY <1>1, <1>3, <1>4, <2>1 DEF CanQueue, RunId
  <2>2. CASE d2.runs[r] = d.runs[r]
    BY <1>3, <2>2 DEF History, RunsBelong, RunId
  <2>3. CASE d2.runs[r] = NoRun
    BY <2>3 DEF NoRun
  <2> QED
    BY <1>1, <2>1, <2>2, <2>3
<1>7. OpenIsNewest(d2)
  <2> SUFFICES ASSUME NEW q \in RunId, NEW r \in RunId, IsOpen(d2, r),
                      d2.runs[q].agent = d2.runs[r].agent
               PROVE  q <= r
    BY DEF OpenIsNewest
  <2>1. CASE q = n /\ r = n
    BY <2>1 DEF RunId
  <2>2. CASE q # n /\ r = n
    <3>1. d2.runs[q] = d.runs[q] /\ d.runs[q].agent = a
      BY <1>1, <2>2, StoreAssumption DEF NoRun
    <3>2. q < n
      BY <1>5, <3>1, StoreAssumption DEF History, RunsBelong
    <3> QED
      BY <2>2, <3>2 DEF RunId
  <2>3. CASE r # n
    <3>1. d2.runs[r] = d.runs[r] /\ IsOpen(d, r)
      BY <1>1, <2>3 DEF IsOpen, OpenStatus, NoRun
    <3>2. d.runs[r].agent \in Agent \ {a}
      BY <3>1 DEF History, RunsBelong, IsOpen, OpenStatus, CanQueue, HasOpenRun, RunsOf
    <3>3. q # n /\ d2.runs[q] = d.runs[q]
      BY <1>1, <3>1, <3>2, StoreAssumption DEF NoRun
    <3> QED
      BY <3>1, <3>3 DEF History, OpenIsNewest
  <2> QED
    BY <2>1, <2>2, <2>3
<1>8. AgentsBorn(d2, b)
  BY <1>3 DEF History, AgentsBorn
<1>9. LastIsNewest(d2)
  <2> SUFFICES ASSUME NEW c \in Agent, NEW r \in RunsOf(d2, c),
                      \A q \in RunsOf(d2, c) : q <= r
               PROVE  d2.agents[c].last = d2.runs[r].status
    BY DEF LastIsNewest
  <2>1. CASE c = a
    <3>1. n \in RunsOf(d2, a)
      BY <1>1 DEF RunsOf
    <3>2. r \in RunId /\ n <= r /\ d2.runs[r].agent = a
      BY <2>1, <3>1 DEF RunsOf
    <3>3. r = n
      BY <1>1, <1>5, <3>2, StoreAssumption DEF NoRun, RunId, History, RunsBelong
    <3> QED
      BY <1>1, <1>2, <2>1, <3>3
  <2>2. CASE c # a
    <3>1. RunsOf(d2, c) = RunsOf(d, c)
      <4> SUFFICES ASSUME NEW q \in RunId PROVE (d2.runs[q].agent = c) = (d.runs[q].agent = c)
        BY DEF RunsOf
      <4>1. CASE q = n
        BY <1>1, <1>5, <2>2, <4>1, StoreAssumption DEF History, RunsBelong, RunId
      <4> QED
        BY <1>1, <2>2, <4>1, StoreAssumption DEF NoRun
    <3>2. r \in RunId /\ d2.runs[r].agent = c
      BY DEF RunsOf
    <3>3. d2.runs[r] = d.runs[r] /\ d2.agents[c] = d.agents[c]
      BY <1>1, <2>2, <3>2, StoreAssumption DEF NoRun
    <3> QED
      BY <3>1, <3>3 DEF History, LastIsNewest
  <2> QED
    BY <2>1, <2>2
<1> QED
  BY <1>6, <1>7, <1>8, <1>9 DEF History, d2

\* An invocation that works on run r of agent a gives both the status s.
LEMMA SetsView ==
    ASSUME NEW d \in Document, NEW d2, NEW r \in RunId, NEW a \in Agent, NEW s, Sets(d, d2, r, a, s)
    PROVE  /\ \A q \in RunId : d2.runs[q] = IF q = r /\ d.runs[q].status # "absent"
                                            THEN [d.runs[q] EXCEPT !.status = s] ELSE d.runs[q]
           /\ \A c \in Agent : d2.agents[c] = IF c = a /\ HasAgent(d, a)
                                              THEN [d.agents[c] EXCEPT !.last = s]
                                              ELSE d.agents[c]
           /\ \A q \in RunId : /\ d2.runs[q].agent = d.runs[q].agent
                               /\ (d2.runs[q].status = "absent") = (d.runs[q].status = "absent")
                                  \/ s = "absent"
           /\ \A c \in Agent : HasAgent(d2, c) = HasAgent(d, c)
<1>1. /\ d.runs \in [RunId -> RunRec]
      /\ d.agents \in [Agent -> AgentRec]
  BY DEF Document
<1>2. \A q \in RunId : d2.runs[q] = IF q = r /\ d.runs[q].status # "absent"
                                    THEN [d.runs[q] EXCEPT !.status = s] ELSE d.runs[q]
  BY DEF Sets, SetStatus
<1>3. \A c \in Agent : d2.agents[c] = IF c = a /\ HasAgent(d, a)
                                      THEN [d.agents[c] EXCEPT !.last = s] ELSE d.agents[c]
  BY DEF Sets, SetLast
<1>4. \A q \in RunId : /\ d2.runs[q].agent = d.runs[q].agent
                       /\ d2.runs[q].status = IF q = r /\ d.runs[q].status # "absent" THEN s
                                              ELSE d.runs[q].status
  BY <1>1, <1>2 DEF RunRec
<1>5. \A c \in Agent : d2.agents[c].home = d.agents[c].home
  BY <1>1, <1>3 DEF AgentRec
<1> QED
  BY <1>2, <1>3, <1>4, <1>5 DEF HasAgent

LEMMA SetsHistory ==
    ASSUME NEW d \in Document, NEW d2, NEW n, NEW b, NEW r \in RunId, NEW a \in Agent,
           NEW s \in RunStatus, History(d, n, b), Sets(d, d2, r, a, s),
           Open(d, r, a) \/ Gone(d, b, r, a)
    PROVE  History(d2, n, b)
<1>1. /\ \A q \in RunId : d2.runs[q] = IF q = r /\ d.runs[q].status # "absent"
                                       THEN [d.runs[q] EXCEPT !.status = s] ELSE d.runs[q]
      /\ \A c \in Agent : d2.agents[c] = IF c = a /\ HasAgent(d, a)
                                         THEN [d.agents[c] EXCEPT !.last = s] ELSE d.agents[c]
      /\ \A q \in RunId : /\ d2.runs[q].agent = d.runs[q].agent
                          /\ (d2.runs[q].status = "absent") = (d.runs[q].status = "absent")
      /\ \A c \in Agent : HasAgent(d2, c) = HasAgent(d, c)
  BY SetsView DEF RunStatus
<1>2. RunsBelong(d2, n)
  BY <1>1 DEF History, RunsBelong
<1>3. \A q \in RunId : IsOpen(d2, q) => IsOpen(d, q)
  BY <1>1 DEF Open, Gone, IsOpen, OpenStatus
<1>4. OpenIsNewest(d2)
  BY <1>1, <1>3 DEF History, OpenIsNewest
<1>5. AgentsBorn(d2, b)
  BY <1>1 DEF History, AgentsBorn
<1>6. \A c \in Agent : RunsOf(d2, c) = RunsOf(d, c)
  BY <1>1 DEF RunsOf
<1>7. LastIsNewest(d2)
  <2> SUFFICES ASSUME NEW c \in Agent, NEW q \in RunsOf(d, c),
                      \A p \in RunsOf(d, c) : p <= q
               PROVE  d2.agents[c].last = d2.runs[q].status
    BY <1>6 DEF LastIsNewest
  <2>1. q \in RunId /\ d.runs[q].agent = c
    BY DEF RunsOf
  <2>2. d.agents[c].last = d.runs[q].status
    BY DEF History, LastIsNewest
  <2>3. CASE Gone(d, b, r, a)
    BY <1>1, <2>1, <2>2, <2>3 DEF Gone
  <2>4. CASE Open(d, r, a) /\ c # a
    BY <1>1, <2>1, <2>2, <2>4 DEF Open
  <2>5. CASE Open(d, r, a) /\ c = a
    <3>1. r \in RunsOf(d, c) /\ q <= r
      BY <2>1, <2>5 DEF Open, RunsOf, History, OpenIsNewest
    <3>2. q = r
      BY <2>1, <3>1 DEF RunId
    <3>3. d.runs[r].status # "absent" /\ HasAgent(d, a)
      BY <2>5 DEF Open, IsOpen, OpenStatus, History, RunsBelong
    <3>4. d2.runs[q] = [d.runs[q] EXCEPT !.status = s] /\ d2.agents[c] = [d.agents[c] EXCEPT !.last = s]
      BY <1>1, <2>5, <3>2, <3>3
    <3>5. d.runs[q] \in RunRec /\ d.agents[c] \in AgentRec
      BY <2>1 DEF Document
    <3> QED
      BY <3>4, <3>5 DEF RunRec, AgentRec
  <2> QED
    BY <2>3, <2>4, <2>5
<1> QED
  BY <1>2, <1>4, <1>5, <1>7 DEF History
---------------------------------------------------------------------------
(* The invocations. *)

\* No invocation takes up work, and every one keeps its agent.
Stays(ex, ex2) ==
    \A r \in RunId : /\ ex2[r].pc # "idle" => ex[r].pc # "idle" /\ ex2[r].agent = ex[r].agent
                     /\ Works(ex2[r]) => Works(ex[r])
\* Nor does one get beyond its keys.
Eases(ex, ex2) ==
    /\ Stays(ex, ex2)
    /\ \A r \in RunId : Works(ex2[r]) => (ex2[r].pc = "keys") = (ex[r].pc = "keys")
\* Queued runs of the document, without an invocation so far, get one.
Dispatches(d, ex, ex2) ==
    \A r \in RunId :
        \/ ex2[r] = ex[r]
        \/ /\ ex[r].pc = "idle" /\ d.runs[r].status = "queued"
           /\ ex2[r].pc = "keys" /\ ex2[r].agent = d.runs[r].agent
\* The invocation of run r goes on to `to`.
MovesTo(ex, ex2, r, to) ==
    /\ Works(ex[r])
    /\ ex2[r].pc = to /\ ex2[r].agent = ex[r].agent
    /\ \A q \in RunId \ {r} : ex2[q] = ex[q]

Alone(ex) ==
    \A q, r \in RunId : Works(ex[q]) /\ Works(ex[r]) /\ ex[q].agent = ex[r].agent => q = r

LEMMA SameExecs ==
    ASSUME NEW d, NEW d2, NEW n, NEW b, NEW b2, NEW ex, NEW ex2, Execs(d, n, b, ex),
           SameRuns(d, d2), b \subseteq b2, Eases(ex, ex2)
    PROVE  Execs(d2, n, b2, ex2)
<1> SUFFICES ASSUME NEW r \in RunId
             PROVE  /\ ex2[r].pc # "idle" => r < n
                    /\ Works(ex2[r]) => ex2[r].agent \in Agent /\ Backed(d2, b2, r, ex2[r])
  BY DEF Execs
<1>1. ex2[r].pc # "idle" => r < n
  BY DEF Execs, Eases, Stays
<1>2. ASSUME Works(ex2[r]) PROVE ex2[r].agent \in Agent /\ Backed(d2, b2, r, ex2[r])
  <2>1. /\ ex2[r].agent = ex[r].agent /\ ex2[r].agent \in Agent
        /\ (ex2[r].pc = "keys") = (ex[r].pc = "keys")
        /\ Backed(d, b, r, ex[r])
    BY <1>2 DEF Execs, Eases, Stays, Works, Executing
  <2> QED
    BY <2>1 DEF Backed, Gone, SameRuns
<1> QED
  BY <1>1, <1>2

LEMMA DispatchExecs ==
    ASSUME NEW d, NEW d2, NEW n, NEW b, NEW ex, NEW ex2, Execs(d, n, b, ex), RunsBelong(d, n),
           SameRuns(d, d2), Dispatches(d, ex, ex2)
    PROVE  Execs(d2, n, b, ex2)
<1>1. Eases(ex, ex)
  BY DEF Eases, Stays
<1>2. Execs(d2, n, b, ex)
  BY <1>1, SameExecs
<1> SUFFICES ASSUME NEW r \in RunId, ex2[r] # ex[r]
             PROVE  r < n /\ ex2[r].agent \in Agent /\ Backed(d2, b, r, ex2[r])
  BY <1>2 DEF Execs
<1>3. d.runs[r].status = "queued" /\ ex2[r].pc = "keys" /\ ex2[r].agent = d.runs[r].agent
  BY DEF Dispatches
<1> QED
  BY <1>3 DEF RunsBelong, SameRuns, Backed

LEMMA QueueExecs ==
    ASSUME NEW d \in Document, NEW n \in RunId, NEW b, NEW ex, NEW a \in Agent,
           Execs(d, n, b, ex), CanQueue(d, a)
    PROVE  Execs(QueueRun(d, a, n), n + 1, b, ex)
<1> DEFINE d2 == QueueRun(d, a, n)
<1>1. /\ QueueRun(d, a, n).runs[n] = [agent |-> a, env |-> d.agents[a].home,
                                       status |-> "queued"]
      /\ \A q \in RunId \ {n} :
              \/ QueueRun(d, a, n).runs[q] = d.runs[q]
              \/ /\ QueueRun(d, a, n).runs[q] = NoRun
                 /\ d.runs[q].agent = a /\ ~IsOpen(d, q)
      /\ QueueRun(d, a, n).agents[a] = [d.agents[a] EXCEPT !.last = "queued"]
      /\ \A c \in Agent \ {a} : QueueRun(d, a, n).agents[c] = d.agents[c]
  BY QueueView
<1>2. [d.agents[a] EXCEPT !.last = "queued"].home = d.agents[a].home
  BY DEF Document, AgentRec
<1>3. \A c \in Agent : HasAgent(d2, c) = HasAgent(d, c)
  BY <1>1, <1>2 DEF HasAgent
<1> SUFFICES ASSUME NEW r \in RunId
             PROVE  /\ ex[r].pc # "idle" => r < n + 1
                    /\ Works(ex[r]) => ex[r].agent \in Agent /\ Backed(d2, b, r, ex[r])
  BY DEF Execs
<1>4. ex[r].pc # "idle" => r < n
  BY DEF Execs
<1>5. ASSUME Works(ex[r]) PROVE ex[r].agent \in Agent /\ Backed(d2, b, r, ex[r])
  <2>1. ex[r].agent \in Agent /\ Backed(d, b, r, ex[r])
    BY <1>5 DEF Execs
  <2>2. r # n
    BY <1>4, <1>5 DEF RunId, Works, Executing
  <2>3. \/ d2.runs[r] = d.runs[r]
        \/ d2.runs[r] = NoRun /\ ~IsOpen(d, r)
    BY <1>1, <2>2
  <2> HIDE DEF d2
  <2>4. CASE Gone(d, b, r, ex[r].agent)
    BY <1>3, <2>1, <2>3, <2>4 DEF Gone, Backed, NoRun
  <2>5. CASE IsOpen(d, r)
    BY <1>3, <2>1, <2>3, <2>5 DEF Gone, Backed
  <2> QED
    BY <2>1, <2>4, <2>5 DEF Backed, IsOpen, OpenStatus
<1> QED
  BY <1>4, <1>5 DEF RunId

LEMMA CreateExecs ==
    ASSUME NEW d \in Document, NEW n, NEW b, NEW ex, NEW a \in Agent, NEW e, Execs(d, n, b, ex),
           a \notin b
    PROVE  Execs(CreateAgent(d, a, e), n, b \cup {a}, ex)
<1> DEFINE d2 == CreateAgent(d, a, e)
<1>1. d2.runs = d.runs /\ \A c \in Agent \ {a} : d2.agents[c] = d.agents[c]
  BY DEF CreateAgent, Document
<1> HIDE DEF d2
<1>2. ASSUME NEW r \in RunId, Works(ex[r])
      PROVE  ex[r].agent \in Agent /\ Backed(d2, b \cup {a}, r, ex[r])
  BY <1>1, <1>2 DEF Execs, Backed, Gone, HasAgent
<1> QED
  BY <1>2 DEF Execs, d2

LEMMA SetsExecs ==
    ASSUME NEW d \in Document, NEW d2, NEW n, NEW b, NEW ex, NEW ex2, NEW r \in RunId, NEW s, NEW to,
           Execs(d, n, b, ex), MovesTo(ex, ex2, r, to), Sets(d, d2, r, ex[r].agent, s),
           \/ to = "attempt" /\ s = "running"
           \/ to = "closing" /\ s \in RunStatus
    PROVE  Execs(d2, n, b, ex2)
<1>1. ex[r].agent \in Agent /\ Backed(d, b, r, ex[r]) /\ ex[r].pc # "idle"
  BY DEF Execs, MovesTo, Works, Executing
<1>2. s \in RunStatus /\ s # "absent"
  BY DEF RunStatus
<1>3. /\ \A q \in RunId : d2.runs[q] = IF q = r /\ d.runs[q].status # "absent"
                                       THEN [d.runs[q] EXCEPT !.status = s] ELSE d.runs[q]
      /\ \A q \in RunId : /\ d2.runs[q].agent = d.runs[q].agent
                          /\ (d2.runs[q].status = "absent") = (d.runs[q].status = "absent")
                             \/ s = "absent"
      /\ \A c \in Agent : HasAgent(d2, c) = HasAgent(d, c)
  BY <1>1, SetsView
<1> SUFFICES ASSUME NEW q \in RunId
             PROVE  /\ ex2[q].pc # "idle" => q < n
                    /\ Works(ex2[q]) => ex2[q].agent \in Agent /\ Backed(d2, b, q, ex2[q])
  BY DEF Execs
<1>4. CASE q # r
  <2>1. ex2[q] = ex[q] /\ d2.runs[q] = d.runs[q]
    BY <1>3, <1>4 DEF MovesTo
  <2> QED
    BY <1>3, <2>1 DEF Execs, Backed, Gone
<1>5. CASE q = r
  <2>1. q < n /\ ex2[q].pc = to /\ ex2[q].agent = ex[q].agent
    BY <1>1, <1>5 DEF Execs, MovesTo
  <2>2. CASE to = "closing"
    BY <2>1, <2>2 DEF Works
  <2>3. CASE to = "attempt" /\ s = "running"
    <3>1. CASE Gone(d, b, q, ex[q].agent)
      BY <1>1, <1>2, <1>3, <1>5, <2>1, <3>1 DEF Gone, Backed
    <3>2. CASE d.runs[q].status # "absent" /\ d.runs[q].agent = ex[q].agent
      <4>1. d2.runs[q] = [d.runs[q] EXCEPT !.status = s] /\ d.runs[q] \in RunRec
        BY <1>3, <1>5, <3>2 DEF Document
      <4>2. d2.runs[q].status = "running" /\ d2.runs[q].agent = ex[q].agent
        BY <2>3, <3>2, <4>1 DEF RunRec
      <4> QED
        BY <1>1, <1>5, <2>1, <2>3, <4>2 DEF Backed
    <3> QED
      BY <1>1, <1>5, <3>1, <3>2 DEF Backed
  <2> QED
    BY <2>2, <2>3
<1> QED
  BY <1>4, <1>5

LEMMA StaysAlone == ASSUME NEW ex, NEW ex2, Alone(ex), Stays(ex, ex2) PROVE Alone(ex2)
BY DEF Alone, Stays, Works, Executing

\* A queued run is the only open run of its agent, and its agent is there.
LEMMA DispatchAlone ==
    ASSUME NEW d, NEW n, NEW b, NEW ex, NEW ex2, History(d, n, b), Execs(d, n, b, ex), Alone(ex),
           Dispatches(d, ex, ex2)
    PROVE  Alone(ex2)
<1> SUFFICES ASSUME NEW q \in RunId, NEW r \in RunId, Works(ex2[q]), Works(ex2[r]),
                    ex2[q].agent = ex2[r].agent
             PROVE  q = r
  BY DEF Alone
<1> DEFINE Fresh(p) == d.runs[p].status = "queued" /\ ex2[p].agent = d.runs[p].agent
<1>1. \A p \in RunId : ex2[p] = ex[p] \/ Fresh(p)
  BY DEF Dispatches
<1>2. \A p \in RunId : Works(ex2[p]) => \/ Open(d, p, ex2[p].agent)
                                        \/ ex2[p] = ex[p] /\ ~HasAgent(d, ex2[p].agent)
  BY <1>1 DEF Execs, Backed, Gone, Open, IsOpen, OpenStatus
<1>3. \A p \in RunId : Open(d, p, ex2[p].agent) => HasAgent(d, ex2[p].agent)
  BY DEF History, RunsBelong, Open, IsOpen, OpenStatus
<1>4. CASE ex2[q] = ex[q] /\ ex2[r] = ex[r]
  BY <1>4 DEF Alone
<1>5. CASE Open(d, q, ex2[q].agent) /\ Open(d, r, ex2[r].agent)
  <2>1. q <= r /\ r <= q
    BY <1>5 DEF Open, History, OpenIsNewest
  <2> QED
    BY <2>1 DEF RunId
<1> QED
  BY <1>2, <1>3, <1>4, <1>5

---------------------------------------------------------------------------
(* The document and the invocations without the agents of F. *)

Known(d, F) ==
    [agents    |-> [a \in Agent |-> IF a \in F THEN NoAgentRec ELSE d.agents[a]],
     envs      |-> d.envs,
     runs      |-> [r \in RunId |-> IF d.runs[r].agent \in Agent \ F THEN d.runs[r] ELSE NoRun],
     approvals |-> d.approvals]

Busy(ex, F) == [r \in RunId |-> IF ex[r].pc = "idle" \/ ex[r].agent \in F THEN IdleExec ELSE ex[r]]

\* The agents of W are withdrawn with their runs.
Less(d, d2, W) ==
    /\ \A r \in RunId : d2.runs[r] = IF d.runs[r].agent \in W THEN NoRun ELSE d.runs[r]
    /\ \A a \in Agent : d2.agents[a] = IF a \in W THEN NoAgentRec ELSE d.agents[a]

\* What is known is true.
Truth(d, n, b, ex) == History(d, n, b) /\ Execs(d, n, b, ex) /\ Alone(ex)

LEMMA KnownView ==
    ASSUME NEW d \in Document, NEW F
    PROVE  /\ Known(d, F) \in Document
           /\ Known(d, F).runs = [r \in RunId |-> IF d.runs[r].agent \in Agent \ F THEN d.runs[r]
                                                  ELSE NoRun]
           /\ \A r \in RunId : Known(d, F).runs[r] = IF d.runs[r].agent \in Agent \ F
                                                     THEN d.runs[r] ELSE NoRun
           /\ Known(d, F).agents = [a \in Agent |-> IF a \in F THEN NoAgentRec ELSE d.agents[a]]
           /\ \A a \in Agent : Known(d, F).agents[a] = IF a \in F THEN NoAgentRec ELSE d.agents[a]
<1>1. [a \in Agent |-> IF a \in F THEN NoAgentRec ELSE d.agents[a]] \in [Agent -> AgentRec]
  BY DEF Document, NoAgentRec, AgentRec
<1>2. [r \in RunId |-> IF d.runs[r].agent \in Agent \ F THEN d.runs[r] ELSE NoRun]
        \in [RunId -> RunRec]
  BY DEF Document, NoRun, RunRec
<1>3. d.envs \in [Env -> EnvRec] /\ d.approvals \in [RunId -> ApprovalRec]
  BY DEF Document
<1>4. Known(d, F) \in Document
  BY <1>1, <1>2, <1>3 DEF Known, Document
<1> QED
  BY <1>4 DEF Known

LEMMA LessHistory ==
    ASSUME NEW d, NEW d2, NEW n, NEW b, NEW W \in SUBSET Agent, History(d, n, b), Less(d, d2, W)
    PROVE  History(d2, n, b)
<1>1. /\ \A r \in RunId : d2.runs[r] = IF d.runs[r].agent \in W THEN NoRun ELSE d.runs[r]
      /\ \A a \in W : ~HasAgent(d2, a)
      /\ \A c \in Agent \ W : d2.agents[c] = d.agents[c]
  BY DEF Less, HasAgent, NoAgentRec
<1>2. RunsBelong(d2, n)
  BY <1>1 DEF History, RunsBelong, HasAgent, NoRun
<1>3. OpenIsNewest(d2)
  <2> SUFFICES ASSUME NEW q \in RunId, NEW r \in RunId, IsOpen(d2, r),
                      d2.runs[q].agent = d2.runs[r].agent
               PROVE  q <= r
    BY DEF OpenIsNewest
  <2>1. d2.runs[r] = d.runs[r] /\ IsOpen(d, r)
    BY <1>1 DEF IsOpen, OpenStatus, NoRun
  <2>2. d.runs[r].agent \in Agent
    BY <2>1 DEF History, RunsBelong, IsOpen, OpenStatus
  <2>3. d.runs[q].agent = d.runs[r].agent
    BY <1>1, <2>1, <2>2, StoreAssumption DEF NoRun
  <2> QED
    BY <2>1, <2>3 DEF History, OpenIsNewest
<1>4. AgentsBorn(d2, b)
  BY <1>1 DEF History, AgentsBorn, HasAgent
<1>5. \A c \in Agent : IF c \in W THEN RunsOf(d2, c) = {} ELSE RunsOf(d2, c) = RunsOf(d, c)
  BY <1>1, StoreAssumption DEF RunsOf, NoRun
<1>6. LastIsNewest(d2)
  <2> SUFFICES ASSUME NEW c \in Agent, NEW r \in RunsOf(d2, c),
                      \A q \in RunsOf(d2, c) : q <= r
               PROVE  d2.agents[c].last = d2.runs[r].status
    BY DEF LastIsNewest
  <2>1. c \notin W /\ RunsOf(d2, c) = RunsOf(d, c)
    BY <1>5
  <2>2. r \in RunId /\ d.runs[r].agent = c
    BY <2>1 DEF RunsOf
  <2>3. d2.runs[r] = d.runs[r] /\ d2.agents[c] = d.agents[c]
    BY <1>1, <2>1, <2>2
  <2> QED
    BY <2>1, <2>3 DEF History, LastIsNewest
<1> QED
  BY <1>2, <1>3, <1>4, <1>6 DEF History

LEMMA LessExecs ==
    ASSUME NEW d, NEW d2, NEW n, NEW b, NEW ex, NEW W \in SUBSET Agent,
           History(d, n, b), Execs(d, n, b, ex), Less(d, d2, W)
    PROVE  Execs(d2, n, b, ex)
<1> SUFFICES ASSUME NEW r \in RunId, Works(ex[r])
             PROVE  ex[r].agent \in Agent /\ Backed(d2, b, r, ex[r])
  BY DEF Execs
<1> DEFINE a == ex[r].agent
<1>1. a \in Agent /\ Backed(d, b, r, ex[r])
  BY DEF Execs
<1>2. /\ d2.runs[r] = IF d.runs[r].agent \in W THEN NoRun ELSE d.runs[r]
      /\ d2.agents[a] = IF a \in W THEN NoAgentRec ELSE d.agents[a]
  BY <1>1 DEF Less
<1>3. CASE a \in W
  <2>1. d2.runs[r].status = "absent" /\ ~HasAgent(d2, a)
    BY <1>1, <1>2, <1>3 DEF Backed, Gone, NoRun, NoAgentRec, HasAgent
  <2>2. a \in b
    BY <1>1 DEF Backed, Gone, History, RunsBelong, AgentsBorn
  <2> QED
    BY <1>1, <2>1, <2>2 DEF Backed, Gone
<1>4. CASE a \notin W
  <2>1. HasAgent(d2, a) = HasAgent(d, a)
    BY <1>2, <1>4 DEF HasAgent
  <2> QED
    BY <1>1, <1>2, <1>4, <2>1 DEF Backed, Gone, NoRun
<1> QED
  BY <1>3, <1>4

---------------------------------------------------------------------------
(* What the updaters of a document do to what is known of it. *)

LEMMA SameKnown ==
    ASSUME NEW d \in Document, NEW d2 \in Document, NEW F, SameRuns(d, d2)
    PROVE  SameRuns(Known(d, F), Known(d2, F))
<1>1. Known(d2, F).runs = Known(d, F).runs
  BY DEF Known, SameRuns
<1>2. \A a \in Agent : /\ Known(d2, F).agents[a].last = Known(d, F).agents[a].last
                       /\ HasAgent(Known(d2, F), a) = HasAgent(Known(d, F), a)
  BY DEF Known, SameRuns, HasAgent
<1> QED
  BY <1>1, <1>2 DEF SameRuns

LEMMA BusyEases ==
    ASSUME NEW ex, NEW ex2, NEW F, Eases(ex, ex2) PROVE Eases(Busy(ex, F), Busy(ex2, F))
<1> SUFFICES ASSUME NEW r \in RunId
             PROVE  /\ Busy(ex2, F)[r].pc # "idle" => /\ Busy(ex, F)[r].pc # "idle"
                                                     /\ Busy(ex2, F)[r].agent = Busy(ex, F)[r].agent
                    /\ Works(Busy(ex2, F)[r]) =>
                          /\ Works(Busy(ex, F)[r])
                          /\ (Busy(ex2, F)[r].pc = "keys") = (Busy(ex, F)[r].pc = "keys")
  BY DEF Eases, Stays
<1>1. Busy(ex2, F)[r] \in {IdleExec, ex2[r]}
  BY DEF Busy
<1>2. CASE Busy(ex2, F)[r] = IdleExec
  BY <1>2 DEF IdleExec, Works, Executing
<1>3. CASE Busy(ex2, F)[r] = ex2[r] /\ ex2[r].pc # "idle" /\ ex2[r].agent \notin F
  <2>1. ex[r].pc # "idle" /\ ex[r].agent \notin F
    BY <1>3 DEF Eases, Stays
  <2>2. Busy(ex, F)[r] = ex[r]
    BY <2>1 DEF Busy
  <2> QED
    BY <1>3, <2>2 DEF Eases, Stays
<1> QED
  BY <1>1, <1>2, <1>3 DEF Busy

LEMMA BusyDispatches ==
    ASSUME NEW d \in Document, NEW ex, NEW ex2, NEW F, Dispatches(d, ex, ex2),
           \A r \in RunId : d.runs[r].status # "absent" => d.runs[r].agent \in Agent
    PROVE  Dispatches(Known(d, F), Busy(ex, F), Busy(ex2, F))
<1> SUFFICES ASSUME NEW r \in RunId
             PROVE  \/ Busy(ex2, F)[r] = Busy(ex, F)[r]
                    \/ /\ Busy(ex, F)[r].pc = "idle" /\ Known(d, F).runs[r].status = "queued"
                       /\ Busy(ex2, F)[r].pc = "keys"
                       /\ Busy(ex2, F)[r].agent = Known(d, F).runs[r].agent
  BY DEF Dispatches
<1>1. CASE ex2[r] = ex[r]
  BY <1>1 DEF Busy
<1>2. CASE /\ ex[r].pc = "idle" /\ d.runs[r].status = "queued"
           /\ ex2[r].pc = "keys" /\ ex2[r].agent = d.runs[r].agent
  <2>1. Busy(ex, F)[r] = IdleExec /\ d.runs[r].agent \in Agent
    BY <1>2 DEF Busy
  <2>2. CASE d.runs[r].agent \in F
    BY <1>2, <2>1, <2>2 DEF Busy
  <2>3. CASE d.runs[r].agent \notin F
    BY <1>2, <2>1, <2>3, KnownView DEF Busy, IdleExec
  <2> QED
    BY <2>2, <2>3
<1> QED
  BY <1>1, <1>2 DEF Dispatches

\* A request of a known agent queues a run of what is known, one of a forgotten
\* agent leaves it as it is.
LEMMA KnownQueue ==
    ASSUME NEW d \in Document, NEW F, NEW a \in Agent, NEW n \in RunId, CanQueue(d, a),
           Known(d, F).runs[n] = NoRun
    PROVE  IF a \in F THEN SameRuns(Known(d, F), Known(QueueRun(d, a, n), F))
           ELSE /\ CanQueue(Known(d, F), a)
                /\ SameRuns(QueueRun(Known(d, F), a, n), Known(QueueRun(d, a, n), F))
<1> DEFINE V  == Known(d, F)
           d2 == QueueRun(d, a, n)
           V2 == Known(d2, F)
<1>0. d2 \in Document
  BY QueueRunType
<1>1. /\ QueueRun(d, a, n).runs[n] = [agent |-> a, env |-> d.agents[a].home,
                                       status |-> "queued"]
      /\ \A q \in RunId \ {n} :
            \/ QueueRun(d, a, n).runs[q] = d.runs[q]
            \/ /\ QueueRun(d, a, n).runs[q] = NoRun
               /\ d.runs[q].agent = a /\ ~IsOpen(d, q)
      /\ QueueRun(d, a, n).agents[a] = [d.agents[a] EXCEPT !.last = "queued"]
      /\ \A c \in Agent \ {a} : QueueRun(d, a, n).agents[c] = d.agents[c]
  BY QueueView
<1>2. /\ V \in Document
      /\ V.runs = [r \in RunId |-> IF d.runs[r].agent \in Agent \ F THEN d.runs[r] ELSE NoRun]
      /\ \A r \in RunId : V.runs[r] = IF d.runs[r].agent \in Agent \ F THEN d.runs[r] ELSE NoRun
      /\ \A c \in Agent : V.agents[c] = IF c \in F THEN NoAgentRec ELSE d.agents[c]
  BY KnownView DEF Known
<1>3. /\ V2.runs = [r \in RunId |-> IF d2.runs[r].agent \in Agent \ F THEN d2.runs[r] ELSE NoRun]
      /\ \A c \in Agent : V2.agents[c] = IF c \in F THEN NoAgentRec ELSE d2.agents[c]
  BY DEF Known
<1>4. CASE a \in F
  <2>1. \A q \in RunId : V2.runs[q] = V.runs[q]
    <3> SUFFICES ASSUME NEW q \in RunId PROVE V2.runs[q] = V.runs[q]
      OBVIOUS
    <3>1. CASE q = n
      BY <1>1, <1>3, <1>4, <3>1
    <3>2. CASE q # n /\ d2.runs[q] = d.runs[q]
      BY <1>2, <1>3, <3>2
    <3>3. CASE d2.runs[q] = NoRun /\ d.runs[q].agent = a
      BY <1>2, <1>3, <1>4, <3>3
    <3> QED
      BY <1>1, <3>1, <3>2, <3>3
  <2>2. V2.runs = V.runs
    BY <1>2, <1>3, <2>1
  <2>3. \A c \in Agent : V2.agents[c] = V.agents[c]
    BY <1>1, <1>2, <1>3, <1>4
  <2> HIDE DEF V, V2
  <2>4. SameRuns(V, V2)
    BY <2>2, <2>3 DEF SameRuns, HasAgent
  <2> QED
    BY <1>4, <2>4 DEF V, V2
<1>5. CASE a \notin F
  <2>1. V.agents[a] = d.agents[a] /\ RunsOf(V, a) = RunsOf(d, a)
    BY <1>2, <1>5, StoreAssumption DEF RunsOf, NoRun
  <2>2. \A r \in RunsOf(d, a) : V.runs[r] = d.runs[r]
    BY <1>2, <1>5 DEF RunsOf
  <2>3. CanQueue(V, a)
    BY <2>1, <2>2 DEF CanQueue, HasAgent, HasOpenRun, IsOpen
  <2> DEFINE mine == RunsOf(d, a)
             trimmed == {q \in mine : Cardinality({p \in mine : p > q}) + 1 >= HistoryLimit}
             Queued(e) == [e EXCEPT
                 !.runs = [q \in RunId |->
                     IF q = n THEN [agent |-> a, env |-> e.agents[a].home, status |-> "queued"]
                     ELSE IF q \in trimmed THEN NoRun ELSE e.runs[q]],
                 !.agents[a].last = "queued"]
  <2>4. QueueRun(d, a, n) = Queued(d) /\ QueueRun(V, a, n) = Queued(V)
    BY <2>1 DEF QueueRun
  <2>5. \A q \in trimmed : d.runs[q].agent = a
    BY DEF RunsOf
  <2> HIDE DEF trimmed, V, V2, d2
  <2>6. /\ d2.runs = [q \in RunId |->
              IF q = n THEN [agent |-> a, env |-> d.agents[a].home, status |-> "queued"]
              ELSE IF q \in trimmed THEN NoRun ELSE d.runs[q]]
        /\ QueueRun(V, a, n).runs = [q \in RunId |->
              IF q = n THEN [agent |-> a, env |-> d.agents[a].home, status |-> "queued"]
              ELSE IF q \in trimmed THEN NoRun ELSE V.runs[q]]
        /\ QueueRun(V, a, n).agents = [V.agents EXCEPT ![a].last = "queued"]
        /\ d2.agents = [d.agents EXCEPT ![a].last = "queued"]
    BY <1>2, <2>1, <2>4 DEF Document, d2
  <2>7. QueueRun(V, a, n).runs = V2.runs
    <3>1. ASSUME NEW q \in RunId PROVE QueueRun(V, a, n).runs[q] = V2.runs[q]
      <4>1. CASE q = n
        BY <1>3, <1>5, <2>6, <4>1
      <4>2. CASE q # n /\ q \in trimmed
        BY <1>3, <2>6, <4>2
      <4>3. CASE q # n /\ q \notin trimmed
        BY <1>2, <1>3, <2>6, <4>3
      <4> QED
        BY <4>1, <4>2, <4>3
    <3> QED
      BY <1>3, <2>6, <3>1
  <2>8. \A c \in Agent : QueueRun(V, a, n).agents[c] = V2.agents[c]
    <3> SUFFICES ASSUME NEW c \in Agent PROVE QueueRun(V, a, n).agents[c] = V2.agents[c]
      OBVIOUS
    <3>1. CASE c = a
      BY <1>2, <1>3, <1>5, <2>1, <2>6, <3>1 DEF Document
    <3>2. CASE c # a
      BY <1>2, <1>3, <2>6, <3>2 DEF Document
    <3> QED
      BY <3>1, <3>2
  <2>9. SameRuns(QueueRun(V, a, n), V2)
    BY <2>7, <2>8 DEF SameRuns, HasAgent
  <2> QED
    BY <1>5, <2>3, <2>9 DEF V, V2, d2
<1> QED
  BY <1>4, <1>5

LEMMA KnownDelete ==
    ASSUME NEW d \in Document, NEW F, NEW a \in Agent
    PROVE  Less(Known(d, F), Known(DeleteAgent(d, a), F), {a})
<1> DEFINE d2 == DeleteAgent(d, a)
<1>1. /\ \A r \in RunId : DeleteAgent(d, a).runs[r] = IF d.runs[r].agent = a THEN NoRun
                                                       ELSE d.runs[r]
      /\ \A c \in Agent \ {a} : DeleteAgent(d, a).agents[c] = d.agents[c]
  BY DeleteView
<1>2. d2.agents[a] = NoAgentRec
  BY DEF DeleteAgent, Document
<1> HIDE DEF d2
<1>3. \A r \in RunId : d2.runs[r] = IF d.runs[r].agent = a THEN NoRun ELSE d.runs[r]
  BY <1>1 DEF d2
<1>4. \A r \in RunId : Known(d2, F).runs[r] = IF Known(d, F).runs[r].agent \in {a} THEN NoRun
                                              ELSE Known(d, F).runs[r]
  BY <1>3, StoreAssumption DEF Known, NoRun
<1>5. \A c \in Agent : Known(d2, F).agents[c] = IF c \in {a} THEN NoAgentRec
                                                ELSE Known(d, F).agents[c]
  BY <1>1, <1>2 DEF Known, d2
<1> QED
  BY <1>4, <1>5 DEF Less, d2

LEMMA KnownCreate ==
    ASSUME NEW d \in Document, NEW F, NEW a \in Agent, NEW e \in Env
    PROVE  IF a \in F THEN SameRuns(Known(d, F), Known(CreateAgent(d, a, e), F))
           ELSE SameRuns(CreateAgent(Known(d, F), a, e), Known(CreateAgent(d, a, e), F))
<1>1. CreateAgent(d, a, e) \in Document /\ Known(d, F) \in Document
  BY CreateAgentType, KnownView
<1>2. ASSUME NEW x \in Document
      PROVE  /\ CreateAgent(x, a, e).runs = x.runs
             /\ \A c \in Agent : CreateAgent(x, a, e).agents[c] =
                                   IF c = a THEN [home |-> e, last |-> "none"] ELSE x.agents[c]
  BY DEF CreateAgent, Document
<1>3. Known(CreateAgent(d, a, e), F).runs = Known(d, F).runs
  BY <1>1, <1>2 DEF Known
<1>4. CreateAgent(Known(d, F), a, e).runs = Known(d, F).runs
  BY <1>1, <1>2
<1>5. \A c \in Agent :
         Known(CreateAgent(d, a, e), F).agents[c] =
           IF c = a /\ a \notin F THEN [home |-> e, last |-> "none"] ELSE Known(d, F).agents[c]
  BY <1>1, <1>2 DEF Known
<1>6. \A c \in Agent :
         CreateAgent(Known(d, F), a, e).agents[c] =
           IF c = a THEN [home |-> e, last |-> "none"] ELSE Known(d, F).agents[c]
  BY <1>1, <1>2
<1> QED
  BY <1>3, <1>4, <1>5, <1>6 DEF SameRuns, HasAgent

\* An invocation of a known agent gives a status to what is known, one of a
\* forgotten agent leaves it as it is: run r is the agent's own.
LEMMA KnownSets ==
    ASSUME NEW d \in Document, NEW d2 \in Document, NEW F, NEW r \in RunId, NEW a \in Agent,
           NEW s, Sets(d, d2, r, a, s), d.runs[r] = NoRun \/ d.runs[r].agent = a
    PROVE  IF a \in F THEN SameRuns(Known(d, F), Known(d2, F))
           ELSE Sets(Known(d, F), Known(d2, F), r, a, s)
<1> DEFINE V == Known(d, F)
           V2 == Known(d2, F)
<1>1. /\ \A q \in RunId : d2.runs[q] = IF q = r /\ d.runs[q].status # "absent"
                                       THEN [d.runs[q] EXCEPT !.status = s] ELSE d.runs[q]
      /\ \A c \in Agent : d2.agents[c] = IF c = a /\ HasAgent(d, a)
                                         THEN [d.agents[c] EXCEPT !.last = s] ELSE d.agents[c]
      /\ \A q \in RunId : d2.runs[q].agent = d.runs[q].agent
  BY SetsView
<1>2. /\ V \in Document
      /\ V.runs = [q \in RunId |-> IF d.runs[q].agent \in Agent \ F THEN d.runs[q] ELSE NoRun]
      /\ \A q \in RunId : V.runs[q] = IF d.runs[q].agent \in Agent \ F THEN d.runs[q] ELSE NoRun
      /\ V.agents = [c \in Agent |-> IF c \in F THEN NoAgentRec ELSE d.agents[c]]
      /\ \A c \in Agent : V.agents[c] = IF c \in F THEN NoAgentRec ELSE d.agents[c]
  BY KnownView DEF Known
<1>3. /\ V2.runs = [q \in RunId |-> IF d2.runs[q].agent \in Agent \ F THEN d2.runs[q] ELSE NoRun]
      /\ \A q \in RunId : V2.runs[q] = IF d2.runs[q].agent \in Agent \ F THEN d2.runs[q] ELSE NoRun
      /\ V2.agents = [c \in Agent |-> IF c \in F THEN NoAgentRec ELSE d2.agents[c]]
      /\ \A c \in Agent : V2.agents[c] = IF c \in F THEN NoAgentRec ELSE d2.agents[c]
  BY DEF Known
<1> HIDE DEF V, V2
<1>4. CASE a \in F
  <2>1. \A q \in RunId : V2.runs[q] = V.runs[q]
    <3> SUFFICES ASSUME NEW q \in RunId PROVE V2.runs[q] = V.runs[q]
      OBVIOUS
    <3>1. CASE d.runs[q].agent \in Agent \ F
      <4>1. q # r
        BY <1>4, <3>1, StoreAssumption DEF NoRun
      <4>2. d2.runs[q] = d.runs[q]
        BY <1>1, <4>1
      <4> QED
        BY <1>2, <1>3, <4>2
    <3>2. CASE d.runs[q].agent \notin Agent \ F
      <4>1. d2.runs[q].agent = d.runs[q].agent
        BY <1>1
      <4> QED
        BY <1>2, <1>3, <3>2, <4>1
    <3> QED
      BY <3>1, <3>2
  <2>2. V2.runs = V.runs
    BY <1>2, <1>3, <2>1
  <2>3. \A c \in Agent : V2.agents[c] = V.agents[c]
    <3> SUFFICES ASSUME NEW c \in Agent PROVE V2.agents[c] = V.agents[c]
      OBVIOUS
    <3>1. CASE c = a
      BY <1>2, <1>3, <1>4, <3>1
    <3>2. CASE c # a
      <4>1. d2.agents[c] = d.agents[c]
        BY <1>1, <3>2
      <4> QED
        BY <1>2, <1>3, <4>1
    <3> QED
      BY <3>1, <3>2
  <2>4. SameRuns(V, V2)
    BY <2>2, <2>3 DEF SameRuns, HasAgent
  <2> QED
    BY <1>4, <2>4 DEF V, V2
<1>5. CASE a \notin F
  <2>1. \A q \in RunId : V2.runs[q] = IF q = r /\ V.runs[q].status # "absent"
                                      THEN [V.runs[q] EXCEPT !.status = s] ELSE V.runs[q]
    <3> SUFFICES ASSUME NEW q \in RunId
                 PROVE  V2.runs[q] = IF q = r /\ V.runs[q].status # "absent"
                                     THEN [V.runs[q] EXCEPT !.status = s] ELSE V.runs[q]
      OBVIOUS
    <3>1. CASE d.runs[q].agent \in Agent \ F
      BY <1>1, <1>2, <1>3, <3>1
    <3>2. CASE d.runs[q].agent \notin Agent \ F
      <4>1. V2.runs[q] = NoRun /\ V.runs[q] = NoRun
        BY <1>1, <1>2, <1>3, <3>2
      <4> QED
        BY <4>1 DEF NoRun
    <3> QED
      BY <3>1, <3>2
  <2>2. V2.runs = SetStatus(V, r, s)
    BY <1>3, <2>1 DEF SetStatus
  <2>3. \A c \in Agent : V2.agents[c] = IF c = a /\ HasAgent(V, c)
                                        THEN [V.agents[c] EXCEPT !.last = s] ELSE V.agents[c]
    BY <1>1, <1>2, <1>3, <1>5 DEF HasAgent
  <2>4. V2.agents = SetLast(V, a, s)
    BY <1>3, <2>3 DEF SetLast
  <2> QED
    BY <1>5, <2>2, <2>4 DEF Sets, V, V2
<1> QED
  BY <1>4, <1>5

---------------------------------------------------------------------------
(* What a step does to the document d it starts from, which may have        *)
(* replaced the cache, and to the invocations; and, read without the        *)
(* forgotten agents, to what is known.                                      *)

Quiets(d, d2, ex, ex2) ==
    SameRuns(d, d2) /\ Eases(ex, ex2) /\ nextRun' = nextRun /\ born \subseteq born'
Drains(d, d2, ex, ex2) ==
    SameRuns(d, d2) /\ Dispatches(d, ex, ex2) /\ nextRun' = nextRun /\ born' = born
Queues(d, d2, ex, ex2) ==
    \E a \in Agent : /\ CanQueue(d, a)
                     /\ nextRun \in RunId /\ nextRun' = nextRun + 1
                     /\ SameRuns(QueueRun(d, a, nextRun), d2)
                     /\ ex2 = ex /\ born' = born
Spends(d, d2, ex, ex2) ==
    /\ nextRun \in RunId /\ nextRun' = nextRun + 1
    /\ SameRuns(d, d2)
    /\ ex2 = ex /\ born' = born
Deletes(d, d2, ex, ex2) ==
    \E a \in Agent : Less(d, d2, {a}) /\ ex2 = ex /\ nextRun' = nextRun /\ born' = born
Creates(d, d2, ex, ex2) ==
    \E a \in Agent, e \in Env : /\ a \notin born
                                /\ SameRuns(CreateAgent(d, a, e), d2)
                                /\ born' = born \cup {a}
                                /\ ex2 = ex /\ nextRun' = nextRun
Changes(d, d2, ex, ex2) ==
    \E r \in RunId, s \in RunStatus, to \in {"attempt", "closing"} :
        /\ to = "attempt" => s = "running"
        /\ to = "closing" => s \notin OpenStatus
        /\ MovesTo(ex, ex2, r, to)
        /\ Sets(d, d2, r, ex[r].agent, s)
        /\ nextRun' = nextRun /\ born' = born /\ forgotten' = forgotten

Does(d, d2, ex, ex2) ==
    \/ Quiets(d, d2, ex, ex2) \/ Drains(d, d2, ex, ex2) \/ Queues(d, d2, ex, ex2)
    \/ Deletes(d, d2, ex, ex2) \/ Creates(d, d2, ex, ex2) \/ Changes(d, d2, ex, ex2)

\* The run of an id is of one agent in every copy of the document, read or
\* still to be read, and in its invocation.
Says(d, n, o) ==
    \A r \in RunId : \/ d.runs[r] = NoRun
                     \/ r < n /\ d.runs[r].agent \in Agent /\ d.runs[r].agent = o[r]
ExecSays(ex, n, o) ==
    \A r \in RunId : ex[r].pc # "idle" =>
        r < n /\ ex[r].agent \in Agent /\ ex[r].agent = o[r]
CopySays(d, n, o) == d = NoDocument \/ Says(d, n, o)

Drawn(o) ==
    /\ o \in [RunId -> Agent \cup {NoAgent}]
    /\ Says(cache, nextRun, o) /\ Says(disk, nextRun, o) /\ CopySays(legacy, nextRun, o)
    /\ \A c \in Call : /\ CopySays(calls[c].snap, nextRun, o)
                       /\ CopySays(calls[c].fallback, nextRun, o)
    /\ ExecSays(exec, nextRun, o)

LEMMA TruthKept ==
    ASSUME NEW d \in Document, NEW d2 \in Document, NEW ex, NEW ex2, Truth(d, nextRun, born, ex),
           Does(d, d2, ex, ex2) \/ Spends(d, d2, ex, ex2)
    PROVE  Truth(d2, nextRun', born', ex2)
<1>0. History(d, nextRun, born) /\ Execs(d, nextRun, born, ex) /\ Alone(ex)
  BY DEF Truth
<1>1. Eases(ex, ex)
  BY DEF Eases, Stays
<1>2. CASE Quiets(d, d2, ex, ex2)
  <2>1. History(d2, nextRun, born') /\ Execs(d2, nextRun, born', ex2)
    BY <1>0, <1>2, SameHistory, SameExecs DEF Quiets
  <2>2. Alone(ex2)
    BY <1>0, <1>2, StaysAlone DEF Quiets, Eases
  <2> QED
    BY <1>2, <2>1, <2>2 DEF Truth, Quiets
<1>3. CASE Drains(d, d2, ex, ex2)
  <2>1. History(d2, nextRun, born)
    BY <1>0, <1>3, SameHistory DEF Drains
  <2>2. Execs(d2, nextRun, born, ex2)
    BY <1>0, <1>3, DispatchExecs DEF Drains, History
  <2>3. Alone(ex2)
    BY <1>0, <1>3, DispatchAlone DEF Drains
  <2> QED
    BY <1>3, <2>1, <2>2, <2>3 DEF Truth, Drains
<1>4. CASE Queues(d, d2, ex, ex2)
  <2>1. PICK a \in Agent : /\ CanQueue(d, a)
                           /\ nextRun \in RunId /\ nextRun' = nextRun + 1
                           /\ SameRuns(QueueRun(d, a, nextRun), d2)
                           /\ ex2 = ex /\ born' = born
    BY <1>4 DEF Queues
  <2>2. /\ History(QueueRun(d, a, nextRun), nextRun + 1, born)
        /\ Execs(QueueRun(d, a, nextRun), nextRun + 1, born, ex)
    BY <1>0, <2>1, QueueHistory, QueueExecs
  <2>3. History(d2, nextRun + 1, born) /\ Execs(d2, nextRun + 1, born, ex)
    BY <1>1, <2>1, <2>2, SameHistory, SameExecs
  <2> QED
    BY <1>0, <2>1, <2>3 DEF Truth
<1>5. CASE Spends(d, d2, ex, ex2)
  <2>1. nextRun \in Nat
    BY <1>5 DEF Spends, RunId
  <2>2. \A r \in RunId : r < nextRun => r < nextRun + 1
    BY <2>1 DEF RunId
  <2>3. History(d, nextRun + 1, born) /\ Execs(d, nextRun + 1, born, ex)
    BY <1>0, <2>2 DEF History, RunsBelong, Execs
  <2>4. History(d2, nextRun + 1, born) /\ Execs(d2, nextRun + 1, born, ex)
    BY <1>1, <1>5, <2>3, SameHistory, SameExecs DEF Spends
  <2> QED
    BY <1>0, <1>5, <2>4 DEF Truth, Spends
<1>6. CASE Deletes(d, d2, ex, ex2)
  <2>1. PICK a \in Agent : Less(d, d2, {a}) /\ ex2 = ex /\ nextRun' = nextRun /\ born' = born
    BY <1>6 DEF Deletes
  <2>2. History(d2, nextRun, born) /\ Execs(d2, nextRun, born, ex)
    BY <1>0, <2>1, LessHistory, LessExecs
  <2> QED
    BY <1>0, <2>1, <2>2 DEF Truth
<1>7. CASE Creates(d, d2, ex, ex2)
  <2>1. PICK a \in Agent, e \in Env : /\ a \notin born
                                      /\ SameRuns(CreateAgent(d, a, e), d2)
                                      /\ born' = born \cup {a}
                                      /\ ex2 = ex /\ nextRun' = nextRun
    BY <1>7 DEF Creates
  <2>2. /\ History(CreateAgent(d, a, e), nextRun, born \cup {a})
        /\ Execs(CreateAgent(d, a, e), nextRun, born \cup {a}, ex)
    BY <1>0, <2>1, CreateHistory, CreateExecs
  <2>3. History(d2, nextRun, born \cup {a}) /\ Execs(d2, nextRun, born \cup {a}, ex)
    BY <1>1, <2>1, <2>2, SameHistory, SameExecs
  <2> QED
    BY <1>0, <2>1, <2>3 DEF Truth
<1>8. CASE Changes(d, d2, ex, ex2)
  <2>1. PICK r \in RunId, s \in RunStatus, to \in {"attempt", "closing"} :
               /\ to = "attempt" => s = "running"
               /\ MovesTo(ex, ex2, r, to)
               /\ Sets(d, d2, r, ex[r].agent, s)
               /\ nextRun' = nextRun /\ born' = born
    BY <1>8 DEF Changes
  <2>2. ex[r].agent \in Agent /\ Backed(d, born, r, ex[r])
    BY <1>0, <2>1 DEF Execs, MovesTo
  <2>3. Open(d, r, ex[r].agent) \/ Gone(d, born, r, ex[r].agent)
    BY <2>2 DEF Backed, Open, IsOpen, OpenStatus
  <2>4. History(d2, nextRun, born)
    BY <1>0, <2>1, <2>2, <2>3, SetsHistory
  <2>5. Execs(d2, nextRun, born, ex2)
    BY <1>0, <2>1, SetsExecs
  <2>6. Stays(ex, ex2)
    BY <2>1 DEF MovesTo, Stays, Works, Executing
  <2>7. Alone(ex2)
    BY <1>0, <2>6, StaysAlone
  <2> QED
    BY <2>1, <2>4, <2>5, <2>7 DEF Truth
<1> QED
  BY <1>2, <1>3, <1>4, <1>5, <1>6, <1>7, <1>8 DEF Does

LEMMA LessKnown ==
    ASSUME NEW d, NEW d2, NEW F, NEW a \in Agent, Less(d, d2, {a})
    PROVE  Less(Known(d, F), Known(d2, F), {a})
<1>1. \A r \in RunId : Known(d2, F).runs[r] = IF Known(d, F).runs[r].agent \in {a} THEN NoRun
                                              ELSE Known(d, F).runs[r]
  BY StoreAssumption DEF Less, Known, NoRun
<1>2. \A c \in Agent : Known(d2, F).agents[c] = IF c \in {a} THEN NoAgentRec
                                                ELSE Known(d, F).agents[c]
  BY DEF Less, Known
<1> QED
  BY <1>1, <1>2 DEF Less

\* The step, read without the agents of F.
LEMMA KnownDoes ==
    ASSUME Typed, NEW d \in Document, NEW d2 \in Document, NEW ex2, NEW F, NEW o,
           Says(d, nextRun, o), ExecSays(exec, nextRun, o),
           Truth(Known(d, F), nextRun, born, Busy(exec, F)), Does(d, d2, exec, ex2)
    PROVE  \/ Does(Known(d, F), Known(d2, F), Busy(exec, F), Busy(ex2, F))
           \/ Spends(Known(d, F), Known(d2, F), Busy(exec, F), Busy(ex2, F))
<1> DEFINE V == Known(d, F)
           V2 == Known(d2, F)
           E == Busy(exec, F)
           E2 == Busy(ex2, F)
<1>0. V \in Document /\ V2 \in Document
  BY KnownView
<1> HIDE DEF V, V2, E, E2
<1>a. ex2 = exec => E2 = E
  BY DEF E, E2
<1>b. Eases(E, E)
  BY DEF Eases, Stays
<1>1. CASE Quiets(d, d2, exec, ex2)
  <2>1. SameRuns(V, V2) /\ Eases(E, E2)
    BY <1>1, SameKnown, BusyEases DEF Quiets, V, V2, E, E2
  <2> QED
    BY <1>1, <2>1 DEF Quiets, Does, V, V2, E, E2
<1>2. CASE Drains(d, d2, exec, ex2)
  <2>1. \A r \in RunId : d.runs[r].status # "absent" => d.runs[r].agent \in Agent
    BY DEF Says, NoRun
  <2>2. SameRuns(V, V2) /\ Dispatches(V, E, E2)
    BY <1>2, <2>1, SameKnown, BusyDispatches DEF Drains, V, V2, E, E2
  <2> QED
    BY <1>2, <2>2 DEF Drains, Does, V, V2, E, E2
<1>3. CASE Queues(d, d2, exec, ex2)
  <2>1. PICK a \in Agent : /\ CanQueue(d, a)
                           /\ nextRun \in RunId /\ nextRun' = nextRun + 1
                           /\ SameRuns(QueueRun(d, a, nextRun), d2)
                           /\ ex2 = exec /\ born' = born
    BY <1>3 DEF Queues
  <2>2. V.runs[nextRun] = NoRun
    <3>1. V.runs[nextRun].agent = NoAgent \/ nextRun < nextRun
      BY <2>1 DEF Truth, History, RunsBelong, V
    <3>2. V.runs[nextRun] = NoRun \/ V.runs[nextRun].agent \in Agent
      BY <2>1 DEF Known, V
    <3> QED
      BY <2>1, <3>1, <3>2, StoreAssumption DEF RunId
  <2> DEFINE U == QueueRun(d, a, nextRun)
  <2>3. U \in Document
    BY <2>1, QueueRunType
  <2>4. IF a \in F THEN SameRuns(V, Known(U, F))
        ELSE CanQueue(V, a) /\ SameRuns(QueueRun(V, a, nextRun), Known(U, F))
    BY <2>1, <2>2, KnownQueue DEF V
  <2> HIDE DEF U
  <2>5. SameRuns(Known(U, F), V2)
    BY <2>1, <2>3, SameKnown DEF V2, U
  <2>6. IF a \in F THEN SameRuns(V, V2)
        ELSE CanQueue(V, a) /\ SameRuns(QueueRun(V, a, nextRun), V2)
    BY <2>4, <2>5 DEF SameRuns
  <2>7. CASE a \in F
    BY <1>a, <2>1, <2>6, <2>7 DEF Spends, V, V2, E, E2
  <2>8. CASE a \notin F
    BY <1>a, <2>1, <2>6, <2>8 DEF Queues, Does, V, V2, E, E2
  <2> QED
    BY <2>7, <2>8
<1>4. CASE Deletes(d, d2, exec, ex2)
  <2>1. PICK a \in Agent : Less(d, d2, {a}) /\ ex2 = exec /\ nextRun' = nextRun /\ born' = born
    BY <1>4 DEF Deletes
  <2>2. Less(V, V2, {a})
    BY <2>1, LessKnown DEF V, V2
  <2> QED
    BY <1>a, <2>1, <2>2 DEF Deletes, Does, V, V2, E, E2
<1>5. CASE Creates(d, d2, exec, ex2)
  <2>1. PICK a \in Agent, e \in Env : /\ a \notin born
                                      /\ SameRuns(CreateAgent(d, a, e), d2)
                                      /\ born' = born \cup {a}
                                      /\ ex2 = exec /\ nextRun' = nextRun
    BY <1>5 DEF Creates
  <2> DEFINE U == CreateAgent(d, a, e)
  <2>2. U \in Document
    BY CreateAgentType
  <2>3. IF a \in F THEN SameRuns(V, Known(U, F))
        ELSE SameRuns(CreateAgent(V, a, e), Known(U, F))
    BY KnownCreate DEF V
  <2> HIDE DEF U
  <2>4. SameRuns(Known(U, F), V2)
    BY <2>1, <2>2, SameKnown DEF V2, U
  <2>5. IF a \in F THEN SameRuns(V, V2) ELSE SameRuns(CreateAgent(V, a, e), V2)
    BY <2>3, <2>4 DEF SameRuns
  <2>6. CASE a \in F
    BY <1>a, <1>b, <2>1, <2>5, <2>6 DEF Quiets, Does, V, V2, E, E2
  <2>7. CASE a \notin F
    BY <1>a, <2>1, <2>5, <2>7 DEF Creates, Does, V, V2, E, E2
  <2> QED
    BY <2>6, <2>7
<1>6. CASE Changes(d, d2, exec, ex2)
  <2>1. PICK r \in RunId, s \in RunStatus, to \in {"attempt", "closing"} :
               /\ to = "attempt" => s = "running"
               /\ to = "closing" => s \notin OpenStatus
               /\ MovesTo(exec, ex2, r, to)
               /\ Sets(d, d2, r, exec[r].agent, s)
               /\ nextRun' = nextRun /\ born' = born /\ forgotten' = forgotten
    BY <1>6 DEF Changes
  <2> DEFINE a == exec[r].agent
  <2>2. exec[r].pc # "idle" /\ ex2[r].pc # "idle" /\ ex2[r].agent = a
    BY <2>1 DEF MovesTo, Works, Executing
  <2>3. a \in Agent /\ (d.runs[r] = NoRun \/ d.runs[r].agent = a)
    BY <2>2 DEF ExecSays, Says
  <2>4. IF a \in F THEN SameRuns(V, V2) ELSE Sets(V, V2, r, a, s)
    BY <2>1, <2>3, KnownSets DEF V, V2
  <2>5. \A q \in RunId \ {r} : E2[q] = E[q]
    BY <2>1 DEF MovesTo, Busy, E, E2
  <2>6. CASE a \in F
    <3>1. E2[r] = E[r]
      BY <2>2, <2>6 DEF Busy, E, E2
    <3>2. Eases(E, E2)
      BY <2>5, <3>1 DEF Eases, Stays
    <3> QED
      BY <2>1, <2>4, <2>6, <3>2 DEF Quiets, Does, V, V2, E, E2
  <2>7. CASE a \notin F
    <3>1. E[r] = exec[r] /\ E2[r] = ex2[r]
      BY <2>2, <2>7 DEF Busy, E, E2
    <3>2. MovesTo(E, E2, r, to)
      BY <2>1, <2>5, <3>1 DEF MovesTo
    <3>3. Changes(V, V2, E, E2)
      BY <2>1, <2>4, <2>7, <3>1, <3>2 DEF Changes
    <3> QED
      BY <3>3 DEF Does, V, V2, E, E2
  <2> QED
    BY <2>6, <2>7
<1> QED
  BY <1>1, <1>2, <1>3, <1>4, <1>5, <1>6 DEF Does

\* A document that replaces the cache takes from what is known the agents of
\* which it tells something else.
LEMMA ReplaceForgets ==
    ASSUME NEW d \in Document, NEW d2 \in Document, NEW F \in SUBSET Agent, NEW F2,
           F2 = F \cup {a \in Agent : ~TellSame(d, d2, a)}
    PROVE  Less(Known(d, F), Known(d2, F2), F2 \ F)
<1>1. \A a \in Agent \ F2 :
         /\ d2.agents[a] = d.agents[a]
         /\ \A r \in RunId : a \in {d.runs[r].agent, d2.runs[r].agent} => d2.runs[r] = d.runs[r]
  BY DEF TellSame
<1>2. ASSUME NEW r \in RunId
      PROVE  Known(d2, F2).runs[r] = IF Known(d, F).runs[r].agent \in F2 \ F THEN NoRun
                                     ELSE Known(d, F).runs[r]
  <2>1. CASE d2.runs[r].agent \in Agent \ F2
    <3>1. d2.runs[r] = d.runs[r]
      BY <1>1, <2>1
    <3> QED
      BY <2>1, <3>1 DEF Known
  <2>2. CASE d2.runs[r].agent \notin Agent \ F2
    <3>1. Known(d2, F2).runs[r] = NoRun
      BY <2>2 DEF Known
    <3>2. d.runs[r].agent \notin Agent \ F2
      BY <1>1, <2>2
    <3> QED
      BY <3>1, <3>2 DEF Known
  <2> QED
    BY <2>1, <2>2
<1>3. ASSUME NEW a \in Agent
      PROVE  Known(d2, F2).agents[a] = IF a \in F2 \ F THEN NoAgentRec ELSE Known(d, F).agents[a]
  BY <1>1 DEF Known
<1> QED
  BY <1>2, <1>3 DEF Less

LEMMA TruthOfFewer ==
    ASSUME NEW d \in Document, NEW d2 \in Document, NEW F \in SUBSET Agent, NEW F2 \in SUBSET Agent,
           NEW n, NEW b, NEW ex, Truth(Known(d, F), n, b, Busy(ex, F)), F \subseteq F2,
           Less(Known(d, F), Known(d2, F2), F2 \ F)
    PROVE  Truth(Known(d2, F2), n, b, Busy(ex, F2))
<1> DEFINE V == Known(d2, F2)
<1>1. History(V, n, b) /\ Execs(V, n, b, Busy(ex, F))
  BY LessHistory, LessExecs DEF Truth
<1>2. Eases(Busy(ex, F), Busy(ex, F2))
  BY DEF Eases, Stays, Busy, IdleExec, Works, Executing
<1> HIDE DEF V
<1>3. SameRuns(V, V)
  BY DEF SameRuns
<1>4. Execs(V, n, b, Busy(ex, F2))
  BY <1>1, <1>2, <1>3, SameExecs
<1>5. Alone(Busy(ex, F2))
  BY <1>2, StaysAlone DEF Truth, Eases
<1> QED
  BY <1>1, <1>4, <1>5 DEF Truth, V

---------------------------------------------------------------------------
(* The steps of the program. *)

LEMMA QuietUpdates ==
    ASSUME NEW d \in Document
    PROVE  /\ SameRuns(d, d)
           /\ \A a \in Agent, e \in Env : SameRuns(d, UpdateAgent(d, a, e))
           /\ \A e \in Env : /\ SameRuns(d, CreateEnv(d, e))
                             /\ SameRuns(d, EditEnv(d, e))
                             /\ SameRuns(d, DeleteEnv(d, e))
           /\ \A e \in Env, on \in BOOLEAN : SameRuns(d, SwitchEnv(d, e, on))
           /\ \A a, r : SameRuns(d, AddApprovals(d, a, r))
           /\ \A r, s : SameRuns(d, ResolveApproval(d, r, s))
<1>1. ASSUME NEW a \in Agent, NEW e \in Env PROVE SameRuns(d, UpdateAgent(d, a, e))
  <2>1. CASE ~HasAgent(d, a)
    BY <2>1 DEF UpdateAgent, SameRuns
  <2>2. CASE HasAgent(d, a)
    <3> DEFINE d2 == UpdateAgent(d, a, e)
    <3>1. d.agents \in [Agent -> AgentRec]
      BY DEF Document
    <3>2. d2 = [d EXCEPT !.agents = [d.agents EXCEPT ![a].home = e]]
      BY <2>2 DEF UpdateAgent, Document
    <3>3. d2.runs = d.runs /\ d2.agents = [d.agents EXCEPT ![a].home = e]
      BY <3>2 DEF Document
    <3> HIDE DEF d2
    <3>4. \A c \in Agent : /\ d2.agents[c].last = d.agents[c].last
                           /\ d2.agents[c].home = IF c = a THEN e ELSE d.agents[c].home
      BY <3>1, <3>3 DEF AgentRec
    <3>5. SameRuns(d, d2)
      BY <2>2, <3>3, <3>4, StoreAssumption DEF SameRuns, HasAgent
    <3> QED
      BY <3>5 DEF d2
  <2> QED
    BY <2>1, <2>2
<1>2. ASSUME NEW d2, d2.runs = d.runs, d2.agents = d.agents PROVE SameRuns(d, d2)
  BY <1>2 DEF SameRuns, HasAgent
<1>3. ASSUME NEW e \in Env
      PROVE  /\ SameRuns(d, CreateEnv(d, e))
             /\ SameRuns(d, EditEnv(d, e))
             /\ SameRuns(d, DeleteEnv(d, e))
             /\ \A on \in BOOLEAN : SameRuns(d, SwitchEnv(d, e, on))
  BY <1>2 DEF CreateEnv, EditEnv, DeleteEnv, SwitchEnv, Document
<1>4. \A a, r : SameRuns(d, AddApprovals(d, a, r))
  BY <1>2 DEF AddApprovals, Document
<1>5. \A r, s : SameRuns(d, ResolveApproval(d, r, s))
  BY <1>2 DEF ResolveApproval, Document
<1> QED
  BY <1>1, <1>2, <1>3, <1>4, <1>5

LEMMA RunUpdates ==
    ASSUME NEW d \in Document, NEW r, NEW a
    PROVE  /\ \A e : Sets(d, MarkRunning(d, a, e, r), r, a, "running")
           /\ \A s : Sets(d, FinishRun(d, a, r, s), r, a, s)
<1>1. ASSUME NEW e PROVE Sets(d, MarkRunning(d, a, e, r), r, a, "running")
  <2> DEFINE d2 == MarkRunning(d, a, e, r)
             envs == SetEnvStatus(d, e, IF d.envs[e].enabled THEN "active" ELSE "paused")
  <2>1. d2 = [d EXCEPT !.runs = SetStatus(d, r, "running"), !.agents = SetLast(d, a, "running"),
                       !.envs = envs]
    BY DEF MarkRunning
  <2> HIDE DEF d2, envs
  <2>2. d2.runs = SetStatus(d, r, "running") /\ d2.agents = SetLast(d, a, "running")
    BY <2>1 DEF Document
  <2> QED
    BY <2>2 DEF Sets, d2
<1>2. ASSUME NEW s PROVE Sets(d, FinishRun(d, a, r, s), r, a, s)
  <2> DEFINE d2 == FinishRun(d, a, r, s)
             e == BookedEnv(d, r)
             envs == SetEnvStatus(d, e, DerivedEnvStatus(d, e, r))
  <2>1. d2 = [d EXCEPT !.runs = SetStatus(d, r, s), !.agents = SetLast(d, a, s), !.envs = envs]
    BY DEF FinishRun
  <2> HIDE DEF d2, e, envs
  <2>2. d2.runs = SetStatus(d, r, s) /\ d2.agents = SetLast(d, a, s)
    BY <2>1 DEF Document
  <2> QED
    BY <2>2 DEF Sets, d2
<1> QED
  BY <1>1, <1>2

LEMMA NormalizeSays ==
    ASSUME NEW d \in Document, NEW n, NEW o, Says(d, n, o) PROVE Says(Normalize(d), n, o)
<1>1. Normalize(d).runs = d.runs
  BY DEF Normalize, Document
<1> QED
  BY <1>1 DEF Says

LEMMA EmptySays == \A n, o : Says(EmptyDocument, n, o)
BY DEF EmptyDocument, Says

\* The document that an answer, a fallback or a restart puts in the place of
\* the cache tells nothing of a run that the copies do not.
LEMMA AnswerSays ==
    ASSUME Typed, NEW o, Drawn(o), NEW c \in Call, calls[c].pc = "load"
    PROVE  Says(Answer(c), nextRun, o) /\ Says(Fallback(c), nextRun, o)
<1>1. /\ disk \in Document
      /\ calls[c].fallback \in Document \cup {NoDocument}
      /\ ~LoadsAtomic => calls[c].snap \in Document
  BY DEF Typed, CopiesOK, CallsOK, CallRec, CallsWellFormed, CallOK
<1>2. \A d \in Document : CopySays(d, nextRun, o) => Says(Normalize(d), nextRun, o)
  BY NormalizeSays, RunnerAssumption DEF CopySays
<1>3. Says(Normalize(EmptyDocument), nextRun, o)
  BY EmptySays, EmptyIsDocument, NormalizeSays
<1>4. CopySays(disk, nextRun, o) /\ CopySays(calls[c].snap, nextRun, o)
      /\ CopySays(calls[c].fallback, nextRun, o)
  BY DEF Drawn, CopySays
<1>5. Says(Answer(c), nextRun, o)
  BY <1>1, <1>2, <1>4 DEF Answer
<1>6. Says(Fallback(c), nextRun, o)
  BY <1>1, <1>2, <1>3, <1>4 DEF Fallback
<1> QED
  BY <1>5, <1>6

\* Every invocation holds its reservation.
Held == /\ ReservationsMatch
        /\ \A r \in RunId : exec[r].pc # "idle" => exec[r].env \in Env

LEMMA SaveCache == ASSUME NEW d, Save(d) PROVE cache' = d
BY DEF Save

LEMMA NothingForgotten == ASSUME forgotten' = forgotten PROVE Replaces(cache)
BY DEF Replaces, TellSame

LEMMA EasesRefl == ASSUME NEW ex PROVE Eases(ex, ex)
BY DEF Eases, Stays

LEMMA QuietDoes ==
    ASSUME NEW d, NEW d2, SameRuns(d, d2), cache' = d2,
           nextRun' = nextRun, born \subseteq born', Eases(exec, exec')
    PROVE  Does(d, cache', exec, exec')
BY DEF Does, Quiets

LEMMA StartAllDispatches ==
    ASSUME Typed, Held, NEW d \in Document, NEW D \in SUBSET UNION {QueuedIn(d, e) : e \in Env},
           StartAll(d, D)
    PROVE  Dispatches(d, exec, exec')
<1> SUFFICES ASSUME NEW r \in RunId
             PROVE  \/ exec'[r] = exec[r]
                    \/ /\ exec[r].pc = "idle" /\ d.runs[r].status = "queued"
                       /\ exec'[r].pc = "keys" /\ exec'[r].agent = d.runs[r].agent
  BY DEF Dispatches
<1>1. CASE r \in D \ Reserved
  <2>1. d.runs[r].status = "queued"
    BY <1>1 DEF QueuedIn
  <2>2. exec[r].pc = "idle"
    BY <1>1 DEF Reserved, Held, ReservationsMatch
  <2>3. exec'[r] = [pc |-> "keys", agent |-> d.runs[r].agent, env |-> d.runs[r].env,
                    attempt |-> 0, queued |-> FALSE]
    BY <1>1 DEF StartAll
  <2> QED
    BY <2>1, <2>2, <2>3
<1>2. CASE r \notin D \ Reserved
  BY <1>2 DEF StartAll
<1> QED
  BY <1>1, <1>2

\* A call goes on with the document d.
LEMMA ContinueDoes ==
    ASSUME Typed, Held, NEW c \in Call, NEW d \in Document, NEW Keep \in BOOLEAN,
           Keep => cache' = d, Continue(c, d, Keep), UNCHANGED born
    PROVE  Does(d, cache', exec, exec')
<1>0. SameRuns(d, d)
  BY QuietUpdates
<1>1. CASE calls[c].kind = "run" /\ QueueNewRun(d, c) /\ UNCHANGED runner
  <2> DEFINE a == calls[c].agent
             d2 == QueueRun(d, a, nextRun)
  <2>1. a \in Agent
    BY <1>1 DEF Typed, CallsOK, CallsWellFormed, CallOK
  <2>2. nextRun \in RunId /\ nextRun' = nextRun + 1 /\ CanQueue(d, a) /\ Save(d2)
    BY <1>1, BoundsAreNat DEF QueueNewRun, Typed, CountOK, RunId
  <2>3. d2 \in Document
    BY <2>1, <2>2, QueueRunType
  <2>4. SameRuns(d2, cache')
    <3> HIDE DEF d2
    <3> QED BY <2>2, <2>3, SaveCache, QuietUpdates
  <2>5. Queues(d, cache', exec, exec')
    BY <1>1, <2>1, <2>2, <2>4 DEF Queues, runner
  <2> QED
    BY <2>5 DEF Does
<1>2. CASE Keep /\ Proceeds(c, d)
  <2>1. CASE UNCHANGED <<runner, nextRun>>
    <3>1. exec' = exec /\ nextRun' = nextRun
      BY <2>1 DEF runner
    <3> QED
      BY <1>0, <1>2, <3>1, EasesRefl, QuietDoes
  <2>2. CASE Drain(d, c)
    <3>1. PICK D \in SUBSET UNION {QueuedIn(d, e) : e \in Env} : StartAll(d, D)
      BY <2>2 DEF Drain
    <3>2. Dispatches(d, exec, exec')
      BY <3>1, StartAllDispatches
    <3>3. nextRun' = nextRun
      BY <2>2 DEF Drain
    <3>4. Drains(d, cache', exec, exec')
      BY <1>0, <1>2, <3>2, <3>3 DEF Drains
    <3> QED
      BY <3>4 DEF Does
  <2> QED
    BY <1>2, <2>1, <2>2 DEF Proceeds
<1> QED
  BY <1>1, <1>2, ContinueCases

\* The step starts from the document d, which replaces the cache or is the cache.
StartsFrom(d, o) ==
    d \in Document /\ Says(d, nextRun, o) /\ Replaces(d) /\ Does(d, cache', exec, exec')

LEMMA CallDoes ==
    ASSUME Typed, Held, NEW o, Drawn(o), CallSteps PROVE \E d : StartsFrom(d, o)
<1>0. cache \in Document /\ SameRuns(cache, cache) /\ Says(cache, nextRun, o)
  BY QuietUpdates DEF Typed, CopiesOK, Drawn
<1>1. PICK c \in Call : \/ LoadReturns(c) \/ LoadFails(c) \/ FallbackSaved(c)
                        \/ RunSaved(c) \/ EventSaved(c)
  BY DEF CallSteps
<1>2. CASE LoadReturns(c)
  <2> DEFINE d == Answer(c)
             Keep == cache' = d /\ UNCHANGED <<disk, legacy, faults>>
  <2>1. d \in Document /\ Says(d, nextRun, o)
    BY <1>2, AnswerOK, AnswerSays DEF LoadReturns, Typed
  <2>2. Continue(c, d, Keep) /\ Replaces(d) /\ UNCHANGED born
    BY <1>2 DEF LoadReturns, bounds
  <2>3. (Keep => cache' = d) /\ Keep \in BOOLEAN
    OBVIOUS
  <2> HIDE DEF d, Keep
  <2>4. Does(d, cache', exec, exec')
    BY <2>1, <2>2, <2>3, ContinueDoes
  <2> QED
    BY <2>1, <2>2, <2>4 DEF StartsFrom
<1>3. CASE LoadFails(c)
  <2> DEFINE d == Fallback(c)
  <2>1. d \in Document /\ Says(d, nextRun, o)
    BY <1>3, AnswerOK, AnswerSays DEF LoadFails, Typed
  <2>2. cache' = d /\ Replaces(d) /\ exec' = exec /\ nextRun' = nextRun /\ born' = born
    BY <1>3 DEF LoadFails, runner, bounds
  <2> HIDE DEF d
  <2>3. Does(d, cache', exec, exec')
    BY <2>1, <2>2, QuietUpdates, EasesRefl, QuietDoes
  <2> QED
    BY <2>1, <2>2, <2>3 DEF StartsFrom
<1>4. CASE FallbackSaved(c)
  <2> DEFINE Keep == UNCHANGED <<cache, disk, legacy, faults>>
  <2>1. Continue(c, cache, Keep) /\ UNCHANGED born /\ forgotten' = forgotten
    BY <1>4 DEF FallbackSaved, bounds
  <2>2. Keep \in BOOLEAN /\ (Keep => cache' = cache)
    OBVIOUS
  <2> HIDE DEF Keep
  <2>3. Does(cache, cache', exec, exec')
    BY <1>0, <2>1, <2>2, ContinueDoes
  <2> QED
    BY <1>0, <2>1, <2>3, NothingForgotten DEF StartsFrom
<1>5. CASE RunSaved(c) \/ EventSaved(c)
  <2>1. cache' = cache
    BY <1>5, SaveCache DEF RunSaved, EventSaved, store
  <2>2. exec' = exec /\ nextRun' = nextRun /\ born' = born /\ forgotten' = forgotten
    BY <1>5 DEF RunSaved, EventSaved, runner, bounds
  <2>3. Does(cache, cache', exec, exec')
    BY <1>0, <2>1, <2>2, EasesRefl, QuietDoes
  <2> QED
    BY <1>0, <2>2, <2>3, NothingForgotten DEF StartsFrom
<1> QED
  BY <1>1, <1>2, <1>3, <1>4, <1>5

LEMMA MovesToFacts ==
    ASSUME Typed, NEW r \in RunId, NEW to \in {"attempt", "closing"}, Works(exec[r]),
           \/ exec' = [exec EXCEPT ![r].pc = to]
           \/ to = "attempt" /\ exec' = [exec EXCEPT ![r].pc = "attempt", ![r].attempt = 1]
           \/ /\ to = exec[r].pc
              /\ \E n : exec' = [exec EXCEPT ![r].attempt = n]
    PROVE  MovesTo(exec, exec', r, to)
<1>1. exec \in [RunId -> ExecRec] /\ exec[r] \in ExecRec
  BY DEF Typed, RunnerOK
<1>2. \A q \in RunId \ {r} : exec'[q] = exec[q]
  BY <1>1
<1>3. exec'[r].pc = to /\ exec'[r].agent = exec[r].agent
  BY <1>1 DEF ExecRec
<1> QED
  BY <1>2, <1>3 DEF MovesTo

LEMMA RunStepDoes ==
    ASSUME Typed, NEW r \in RunId, FirstAttempt(r) \/ Retry(r) \/ Finish(r) \/ Fail(r)
    PROVE  Does(cache, cache', exec, exec')
<1>0. cache \in Document
  BY DEF Typed, CopiesOK
<1>1. exec[r].pc \in {"keys", "attempt", "report"}
  BY DEF FirstAttempt, Retry, Finish, Fail, ExecStep
<1>2. Works(exec[r])
  BY <1>1 DEF Works, Executing
<1>3. nextRun' = nextRun /\ born' = born /\ forgotten' = forgotten
  BY DEF FirstAttempt, Retry, Finish, Fail, ExecStep, bounds
<1>4. CASE FirstAttempt(r) \/ Retry(r)
  <2> DEFINE d2 == MarkRunning(cache, exec[r].agent, exec[r].env, r)
  <2>1. cache' = d2
    BY <1>4, SaveCache DEF FirstAttempt, Retry
  <2>2. Sets(cache, d2, r, exec[r].agent, "running")
    BY <1>0, RunUpdates
  <2>3. MovesTo(exec, exec', r, "attempt")
    BY <1>2, <1>4, MovesToFacts DEF FirstAttempt, Retry, ExecStep
  <2> HIDE DEF d2
  <2>4. "running" \in RunStatus
    BY DEF RunStatus
  <2>5. Changes(cache, cache', exec, exec')
    BY <1>3, <2>1, <2>2, <2>3, <2>4 DEF Changes
  <2> QED
    BY <2>5 DEF Does
<1>5. CASE Finish(r) \/ Fail(r)
  <2>1. PICK s \in {"success", "approval_required", "failed"} :
               Save(FinishRun(cache, exec[r].agent, r, s))
    BY <1>5 DEF Finish, Fail
  <2> DEFINE d2 == FinishRun(cache, exec[r].agent, r, s)
  <2>2. cache' = d2
    BY <2>1, SaveCache
  <2>3. s \in RunStatus /\ s \notin OpenStatus
    BY DEF RunStatus, OpenStatus
  <2>4. Sets(cache, d2, r, exec[r].agent, s)
    BY <1>0, RunUpdates
  <2>5. MovesTo(exec, exec', r, "closing")
    BY <1>2, <1>5, MovesToFacts DEF Finish, Fail, Goto
  <2> HIDE DEF d2
  <2>6. Changes(cache, cache', exec, exec')
    BY <1>3, <2>2, <2>3, <2>4, <2>5 DEF Changes
  <2> QED
    BY <2>6 DEF Does
<1> QED
  BY <1>4, <1>5

LEMMA ExecDoes == ASSUME Typed, ExecSteps PROVE Does(cache, cache', exec, exec')
<1>0. cache \in Document /\ SameRuns(cache, cache)
  BY QuietUpdates DEF Typed, CopiesOK
<1>1. PICK r \in RunId :
    \/ FirstAttempt(r) \/ RecordEvent(r) \/ QueueFollowup(r) \/ Retry(r)
    \/ AttemptEnds(r) \/ CreateReport(r) \/ Finish(r) \/ Fail(r) \/ Close(r)
  BY DEF ExecSteps
<1>2. exec \in [RunId -> ExecRec] /\ exec[r] \in ExecRec
  BY DEF Typed, RunnerOK
<1>3. CASE RecordEvent(r) \/ QueueFollowup(r) \/ AttemptEnds(r) \/ CreateReport(r)
  <2>1. exec[r].pc \in {"attempt", "approvals"} /\ nextRun' = nextRun /\ born' = born
    BY <1>3 DEF RecordEvent, QueueFollowup, AttemptEnds, CreateReport, ExecStep, bounds
  <2>2. \/ exec' = exec
        \/ exec' = [exec EXCEPT ![r].queued = TRUE]
        \/ \E pc \in {"approvals", "report"} : exec' = [exec EXCEPT ![r].pc = pc]
    BY <1>3 DEF RecordEvent, QueueFollowup, AttemptEnds, CreateReport, Goto
  <2>3. /\ exec'[r].agent = exec[r].agent
        /\ exec'[r].pc \in {"attempt", "approvals", "report"}
        /\ \A q \in RunId \ {r} : exec'[q] = exec[q]
    BY <1>2, <2>1, <2>2 DEF ExecRec
  <2>4. Eases(exec, exec')
    BY <2>1, <2>3 DEF Eases, Stays, Works, Executing
  <2>5. Save(cache) \/ \E a : Save(AddApprovals(cache, a, r))
    BY <1>3 DEF RecordEvent, QueueFollowup, AttemptEnds, CreateReport
  <2>6. PICK d2 : SameRuns(cache, d2) /\ Save(d2)
    BY <1>0, <2>5, QuietUpdates
  <2> QED
    BY <2>1, <2>4, <2>6, SaveCache, QuietDoes
<1>4. CASE Close(r)
  <2>1. exec'[r].pc = "idle" /\ \A q \in RunId \ {r} : exec'[q] = exec[q]
    BY <1>2, <1>4 DEF Close, IdleExec
  <2>2. Eases(exec, exec')
    BY <2>1 DEF Eases, Stays, Works, Executing
  <2>3. cache' = cache /\ nextRun' = nextRun /\ born' = born
    BY <1>4 DEF Close, store, bounds
  <2> QED
    BY <1>0, <2>2, <2>3, QuietDoes
<1> QED
  BY <1>1, <1>3, <1>4, RunStepDoes

LEMMA EditsDoes == ASSUME Typed, Edits PROVE Does(cache, cache', exec, exec')
<1>0. cache \in Document
  BY DEF Typed, CopiesOK
<1>1. ASSUME NEW d2, Edit(d2) PROVE cache' = d2 /\ exec' = exec /\ nextRun' = nextRun
  BY <1>1, SaveCache DEF Edit, runner
<1>2. ASSUME NEW d2, Edit(d2), SameRuns(cache, d2), born \subseteq born'
      PROVE  Does(cache, cache', exec, exec')
  BY <1>1, <1>2, EasesRefl, QuietDoes
<1>3. ASSUME NEW a \in Agent, NEW e \in Env, AddAgent(a, e)
      PROVE  Does(cache, cache', exec, exec')
  <2> DEFINE d2 == CreateAgent(cache, a, e)
  <2>1. a \notin born /\ Edit(d2) /\ born' = born \cup {a}
    BY <1>3 DEF AddAgent
  <2>2. SameRuns(d2, d2)
    BY <1>0, CreateAgentType, QuietUpdates
  <2> HIDE DEF d2
  <2>3. cache' = d2 /\ exec' = exec /\ nextRun' = nextRun
    BY <1>1, <2>1
  <2>4. Creates(cache, cache', exec, exec')
    BY <2>1, <2>2, <2>3 DEF Creates, d2
  <2> QED
    BY <2>4 DEF Does
<1>4. ASSUME NEW e \in Env, AddEnv(e) PROVE Does(cache, cache', exec, exec')
  <2>1. Edit(CreateEnv(cache, e)) /\ born \subseteq born'
    BY <1>4 DEF AddEnv
  <2> QED
    BY <1>0, <1>2, <2>1, QuietUpdates
<1>5. CASE EditAgents /\ UNCHANGED born
  <2>1. PICK a \in Agent : \/ Edit(DeleteAgent(cache, a))
                           \/ \E e \in Env : Edit(UpdateAgent(cache, a, e))
    BY <1>5 DEF EditAgents
  <2>2. CASE Edit(DeleteAgent(cache, a))
    <3>1. cache' = DeleteAgent(cache, a) /\ exec' = exec /\ nextRun' = nextRun
      BY <1>1, <2>2
    <3>2. /\ \A r \in RunId : DeleteAgent(cache, a).runs[r] =
                                IF cache.runs[r].agent = a THEN NoRun ELSE cache.runs[r]
          /\ \A c \in Agent \ {a} : DeleteAgent(cache, a).agents[c] = cache.agents[c]
          /\ DeleteAgent(cache, a).agents[a] = NoAgentRec
      <4>1. DeleteAgent(cache, a).agents[a] = NoAgentRec
        BY <1>0 DEF DeleteAgent, Document
      <4> QED
        BY <1>0, <4>1, DeleteView
    <3>3. Less(cache, cache', {a})
      BY <3>1, <3>2 DEF Less
    <3>4. Deletes(cache, cache', exec, exec')
      BY <1>5, <3>1, <3>3 DEF Deletes
    <3> QED
      BY <3>4 DEF Does
  <2>3. ASSUME NEW e \in Env, Edit(UpdateAgent(cache, a, e))
        PROVE  Does(cache, cache', exec, exec')
    <3>1. SameRuns(cache, UpdateAgent(cache, a, e))
      BY <1>0, QuietUpdates
    <3> QED
      BY <1>2, <1>5, <2>3, <3>1
  <2> QED
    BY <2>1, <2>2, <2>3
<1>6. CASE EditEnvs /\ UNCHANGED born
  <2>1. PICK e \in Env : \/ Edit(SwitchEnv(cache, e, ~cache.envs[e].enabled))
                         \/ Edit(EditEnv(cache, e))
                         \/ Edit(DeleteEnv(cache, e))
    BY <1>6 DEF EditEnvs
  <2> DEFINE on == ~cache.envs[e].enabled
  <2>2. on \in BOOLEAN
    OBVIOUS
  <2>3. Edit(SwitchEnv(cache, e, on)) \/ Edit(EditEnv(cache, e)) \/ Edit(DeleteEnv(cache, e))
    BY <2>1
  <2> HIDE DEF on
  <2>4. PICK d2 : Edit(d2) /\ SameRuns(cache, d2)
    BY <1>0, <2>2, <2>3, QuietUpdates
  <2> QED
    BY <1>2, <1>6, <2>4
<1>7. CASE EditRuns /\ UNCHANGED born
  <2>1. PICK r \in RunId :
          Edit(cache) \/ \E s \in {"approved", "rejected"} : Edit(ResolveApproval(cache, r, s))
    BY <1>7 DEF EditRuns
  <2>2. PICK d2 : Edit(d2) /\ SameRuns(cache, d2)
    BY <1>0, <2>1, QuietUpdates
  <2> QED
    BY <1>2, <1>7, <2>2
<1> QED
  BY <1>3, <1>4, <1>5, <1>6, <1>7 DEF Edits

LEMMA StepDoes ==
    ASSUME Typed, Held, NEW o, Drawn(o), [Next]_vars PROVE \E d : StartsFrom(d, o)
<1>0. /\ cache \in Document /\ disk \in Document /\ SameRuns(cache, cache)
      /\ Says(cache, nextRun, o) /\ Says(disk, nextRun, o)
  BY QuietUpdates DEF Typed, CopiesOK, Drawn
<1>1. CASE ExecSteps \/ Edits
  <2>1. forgotten' = forgotten
    BY <1>1 DEF ExecSteps, ExecStep, FirstAttempt, RecordEvent, QueueFollowup, Retry, AttemptEnds,
                CreateReport, Finish, Fail, Close, Edits, AddAgent, AddEnv, EditAgents,
                EditEnvs, EditRuns, Edit
  <2> QED
    BY <1>0, <1>1, <2>1, ExecDoes, EditsDoes, NothingForgotten DEF StartsFrom
<1>2. CASE Requests \/ UNCHANGED vars
  <2>1. cache' = cache /\ exec' = exec /\ nextRun' = nextRun /\ born' = born
    BY <1>2 DEF Requests, RequestRun, ScanDue, Refresh, vars, store, runner, bounds
  <2>2. forgotten' = forgotten
    BY <1>2 DEF Requests, RequestRun, ScanDue, Refresh, vars
  <2>3. Does(cache, cache', exec, exec')
    BY <1>0, <2>1, EasesRefl, QuietDoes
  <2> QED
    BY <1>0, <2>2, <2>3, NothingForgotten DEF StartsFrom
<1>3. CASE Restart
  <2> DEFINE d == Normalize(disk)
  <2>1. d \in Document /\ Says(d, nextRun, o)
    BY <1>0, NormalizeType, NormalizeSays
  <2>2. cache' = d /\ Replaces(d) /\ nextRun' = nextRun /\ born' = born
    BY <1>3 DEF Restart
  <2>3. \A r \in RunId : exec'[r].pc = "idle"
    BY <1>3 DEF Restart, IdleExec
  <2>4. Eases(exec, exec')
    BY <2>3 DEF Eases, Stays, Works, Executing
  <2> HIDE DEF d
  <2>5. Does(d, cache', exec, exec')
    BY <2>1, <2>2, <2>4, QuietUpdates, QuietDoes
  <2> QED
    BY <2>1, <2>2, <2>5 DEF StartsFrom
<1> QED
  BY <1>1, <1>2, <1>3, CallDoes DEF Next


---------------------------------------------------------------------------
(* The run of an id stays of one agent in every copy. *)

\* A save reaches the copies, a load carries what it reads.
LEMMA Carries ==
    ASSUME Typed, [Next]_vars
    PROVE  /\ disk' \in {disk, cache'}
           /\ legacy' \in {legacy, cache', NoDocument}
           /\ \A c \in Call : /\ calls'[c].snap \in {calls[c].snap, disk, NoDocument}
                              /\ calls'[c].fallback \in {calls[c].fallback, legacy, NoDocument}
<1> DEFINE Copies == disk' \in {disk, cache'} /\ legacy' \in {legacy, cache', NoDocument}
           Carried(rec, old) == /\ rec.snap \in {old.snap, disk, NoDocument}
                                /\ rec.fallback \in {old.fallback, legacy, NoDocument}
           Loads == \A c \in Call : Carried(calls'[c], calls[c])
<1>1. calls \in [Call -> CallRec]
  BY DEF Typed, CallsOK
<1>2. ASSUME NEW d, Save(d) PROVE Copies
  BY <1>2 DEF Save
<1>3. ASSUME UNCHANGED <<disk, legacy>> PROVE Copies
  BY <1>3
<1>4. \A old : Carried(IdleCall, old) /\ Carried(old, old)
  BY DEF IdleCall
<1>5. \A kind, a, old : Carried(Loading(kind, a), old)
  BY DEF Loading
<1> HIDE DEF Carried
<1>6. ASSUME calls' = calls PROVE Loads
  BY <1>4, <1>6
<1>7. ASSUME NEW c \in Call, NEW rec, Carried(rec, calls[c]), calls' = [calls EXCEPT ![c] = rec]
      PROVE  Loads
  BY <1>1, <1>4, <1>7
<1>8. ASSUME NEW kind, NEW a, IssueLoad(kind, a) PROVE Loads
  BY <1>5, <1>7, <1>8 DEF IssueLoad
<1>9. ASSUME NEW c \in Call, Done(c) PROVE Loads
  BY <1>4, <1>7, <1>9 DEF Done
<1>10. ASSUME NEW c \in Call, CallDrain(c) PROVE Loads
  BY <1>5, <1>7, <1>10 DEF CallDrain
<1>11. ASSUME NEW c \in Call, NEW d, NEW Keep \in BOOLEAN, Keep => UNCHANGED <<disk, legacy>>,
              Continue(c, d, Keep)
       PROVE  Copies /\ Loads
  <2>1. CASE QueueNewRun(d, c)
    <3>1. Copies
      BY <1>2, <2>1 DEF QueueNewRun
    <3>2. Loads
      <4> DEFINE rec == [IdleCall EXCEPT !.pc = "queued", !.agent = calls[c].agent,
                                         !.env = d.agents[calls[c].agent].home]
      <4>1. Carried(rec, calls[c])
        BY DEF Carried, IdleCall
      <4>2. calls' = [calls EXCEPT ![c] = rec]
        BY <2>1 DEF QueueNewRun
      <4> HIDE DEF rec
      <4> QED
        BY <1>7, <4>1, <4>2
    <3> QED
      BY <3>1, <3>2
  <2>2. CASE Keep /\ Proceeds(c, d)
    <3>1. Copies
      BY <1>3, <1>11, <2>2
    <3>2. CASE Done(c)
      BY <1>9, <3>1, <3>2
    <3>3. CASE StartDue(d, c)
      <4>1. PICK who \in [{b \in Call : b = c \/ calls[b].pc = "free"} -> Agent \cup {NoAgent}] :
              calls' = [b \in Call |->
                          IF b \notin DOMAIN who THEN calls[b]
                          ELSE IF who[b] = NoAgent THEN IdleCall ELSE Loading("run", who[b])]
        BY <3>3 DEF StartDue
      <4>2. Loads
        BY <1>4, <1>5, <4>1
      <4> QED
        BY <3>1, <4>2
    <3> QED
      BY <2>2, <3>1, <3>2, <3>3 DEF Proceeds, Drain
  <2> QED
    BY <1>11, <2>1, <2>2, ContinueCases
<1>12. ASSUME NEW c \in Call, LoadReturns(c) PROVE Copies /\ Loads
  <2> DEFINE d == Answer(c)
             Keep == cache' = d /\ UNCHANGED <<disk, legacy, faults>>
  <2>1. Continue(c, d, Keep) /\ Keep \in BOOLEAN /\ (Keep => UNCHANGED <<disk, legacy>>)
    BY <1>12 DEF LoadReturns
  <2> HIDE DEF d, Keep
  <2> QED
    BY <1>11, <2>1
<1>13. ASSUME NEW c \in Call, LoadFails(c) PROVE Copies /\ Loads
  <2> DEFINE rec == [calls[c] EXCEPT !.pc = "fallback", !.snap = NoDocument,
                                     !.fallback = NoDocument]
  <2>1. Copies
    BY <1>13 DEF LoadFails
  <2>2. rec.snap = NoDocument /\ rec.fallback = NoDocument
    BY <1>1 DEF CallRec
  <2>3. Carried(rec, calls[c])
    BY <2>2 DEF Carried
  <2>4. calls' = [calls EXCEPT ![c] = rec]
    BY <1>1, <1>13 DEF LoadFails
  <2> HIDE DEF rec
  <2> QED
    BY <1>7, <2>1, <2>3, <2>4
<1>14. ASSUME NEW c \in Call, FallbackSaved(c) PROVE Copies /\ Loads
  <2> DEFINE Keep == UNCHANGED <<cache, disk, legacy, faults>>
  <2>1. Continue(c, cache, Keep) /\ Keep \in BOOLEAN /\ (Keep => UNCHANGED <<disk, legacy>>)
    BY <1>14 DEF FallbackSaved
  <2> HIDE DEF Keep
  <2> QED
    BY <1>11, <2>1
<1>15. ASSUME NEW c \in Call, RunSaved(c) \/ EventSaved(c) PROVE Copies /\ Loads
  <2>1. Copies
    BY <1>2, <1>3, <1>15 DEF RunSaved, EventSaved, store
  <2>2. CASE calls' = [calls EXCEPT ![c].pc = "event"]
    <3> DEFINE rec == [calls[c] EXCEPT !.pc = "event"]
    <3>1. rec.snap = calls[c].snap /\ rec.fallback = calls[c].fallback
      BY <1>1 DEF CallRec
    <3>2. Carried(rec, calls[c])
      BY <3>1 DEF Carried
    <3>3. calls' = [calls EXCEPT ![c] = rec]
      BY <1>1, <2>2
    <3> HIDE DEF rec
    <3> QED
      BY <1>7, <2>1, <3>2, <3>3
  <2> QED
    BY <1>9, <1>10, <1>15, <2>1, <2>2 DEF RunSaved, EventSaved
<1>16. CASE CallSteps
  BY <1>12, <1>13, <1>14, <1>15, <1>16 DEF CallSteps, Carried
<1>17. CASE ExecSteps
  <2>1. PICK r \in RunId :
      \/ FirstAttempt(r) \/ RecordEvent(r) \/ QueueFollowup(r) \/ Retry(r)
      \/ AttemptEnds(r) \/ CreateReport(r) \/ Finish(r) \/ Fail(r) \/ Close(r)
    BY <1>17 DEF ExecSteps
  <2>2. CASE Close(r)
    BY <1>3, <1>8, <2>2 DEF Close, store, Carried
  <2>3. CASE ~Close(r)
    <3>1. \E d : Save(d)
      BY <2>1, <2>3 DEF FirstAttempt, RecordEvent, QueueFollowup, Retry, AttemptEnds,
                        CreateReport, Finish, Fail
    <3>2. calls' = calls
      BY <2>1, <2>3 DEF FirstAttempt, RecordEvent, QueueFollowup, Retry, AttemptEnds,
                        CreateReport, Finish, Fail, ExecStep
    <3> QED
      BY <1>2, <1>6, <3>1, <3>2 DEF Carried
  <2> QED
    BY <2>2, <2>3
<1>18. CASE Requests
  BY <1>3, <1>8, <1>18 DEF Requests, RequestRun, ScanDue, Refresh, store, Carried
<1>19. CASE Edits
  <2>1. \E d : Edit(d)
    BY <1>19 DEF Edits, AddAgent, AddEnv, EditAgents, EditEnvs, EditRuns
  <2> QED
    BY <1>2, <1>6, <2>1 DEF Edit, Carried
<1>20. CASE Restart
  BY <1>3, <1>4, <1>20 DEF Restart, Carried
<1>21. CASE UNCHANGED vars
  BY <1>3, <1>6, <1>21 DEF vars, store, Carried
<1> QED
  BY <1>16, <1>17, <1>18, <1>19, <1>20, <1>21 DEF Next

\* The document that results, and the invocations, name the same agents, or one more.
LEMMA DoesSays ==
    ASSUME Typed, NEW d \in Document, NEW o \in [RunId -> Agent \cup {NoAgent}], Says(d, nextRun, o),
           ExecSays(exec, nextRun, o), Does(d, cache', exec, exec')
    PROVE  \E o2 \in [RunId -> Agent \cup {NoAgent}] :
              /\ \A r \in RunId : r < nextRun => o2[r] = o[r]
              /\ \A r \in RunId : r < nextRun => r < nextRun'
              /\ Says(cache', nextRun', o2) /\ ExecSays(exec', nextRun', o2)
<1>1. CASE Quiets(d, cache', exec, exec')
  <2>1. Says(cache', nextRun', o) /\ ExecSays(exec', nextRun', o)
    BY <1>1 DEF Quiets, SameRuns, Says, ExecSays, Eases, Stays
  <2> QED
    BY <1>1, <2>1 DEF Quiets
<1>2. CASE Drains(d, cache', exec, exec')
  <2>1. Says(cache', nextRun', o)
    BY <1>2 DEF Drains, SameRuns, Says
  <2>2. ExecSays(exec', nextRun', o)
    BY <1>2 DEF Drains, Dispatches, Says, ExecSays, NoRun
  <2> QED
    BY <1>2, <2>1, <2>2 DEF Drains
<1>3. CASE Queues(d, cache', exec, exec')
  <2>1. PICK a \in Agent : /\ CanQueue(d, a)
                           /\ nextRun \in RunId /\ nextRun' = nextRun + 1
                           /\ SameRuns(QueueRun(d, a, nextRun), cache')
                           /\ exec' = exec
    BY <1>3 DEF Queues
  <2>2. PICK o2 : o2 = [o EXCEPT ![nextRun] = a]
    OBVIOUS
  <2>3. o2 \in [RunId -> Agent \cup {NoAgent}] /\ o2[nextRun] = a /\ \A r \in RunId \ {nextRun} : o2[r] = o[r]
    BY <2>1, <2>2
  <2>4. nextRun < nextRun' /\ \A r \in RunId : r < nextRun => r # nextRun /\ r < nextRun'
    BY <2>1 DEF RunId
  <2>5. /\ cache'.runs[nextRun] = [agent |-> a, env |-> d.agents[a].home, status |-> "queued"]
        /\ \A q \in RunId \ {nextRun} : cache'.runs[q] \in {d.runs[q], NoRun}
    <3>1. cache'.runs = QueueRun(d, a, nextRun).runs
      BY <2>1 DEF SameRuns
    <3>2. /\ QueueRun(d, a, nextRun).runs[nextRun] =
                [agent |-> a, env |-> d.agents[a].home, status |-> "queued"]
          /\ \A q \in RunId \ {nextRun} :
                \/ QueueRun(d, a, nextRun).runs[q] = d.runs[q]
                \/ /\ QueueRun(d, a, nextRun).runs[q] = NoRun
                   /\ d.runs[q].agent = a /\ ~IsOpen(d, q)
          /\ QueueRun(d, a, nextRun).agents[a] = [d.agents[a] EXCEPT !.last = "queued"]
          /\ \A c \in Agent \ {a} : QueueRun(d, a, nextRun).agents[c] = d.agents[c]
      BY <2>1, QueueView
    <3> QED
      BY <3>1, <3>2
  <2>6. Says(cache', nextRun', o2)
    BY <2>3, <2>4, <2>5 DEF Says
  <2>7. ExecSays(exec', nextRun', o2)
    BY <2>1, <2>3, <2>4 DEF ExecSays
  <2> QED
    BY <2>3, <2>4, <2>6, <2>7
<1>4. CASE Deletes(d, cache', exec, exec')
  <2>1. Says(cache', nextRun', o) /\ ExecSays(exec', nextRun', o)
    BY <1>4 DEF Deletes, Less, Says, ExecSays
  <2> QED
    BY <1>4, <2>1 DEF Deletes
<1>5. CASE Creates(d, cache', exec, exec')
  <2>1. cache'.runs = d.runs
    BY <1>5 DEF Creates, SameRuns, CreateAgent, Document
  <2>2. Says(cache', nextRun', o) /\ ExecSays(exec', nextRun', o)
    BY <1>5, <2>1 DEF Creates, Says, ExecSays
  <2> QED
    BY <1>5, <2>2 DEF Creates
<1>6. CASE Changes(d, cache', exec, exec')
  <2>1. PICK r \in RunId, s \in RunStatus, to \in {"attempt", "closing"} :
               /\ MovesTo(exec, exec', r, to)
               /\ Sets(d, cache', r, exec[r].agent, s)
               /\ nextRun' = nextRun
    BY <1>6 DEF Changes
  <2>2. exec[r].pc # "idle" /\ exec'[r].agent = exec[r].agent
    BY <2>1 DEF MovesTo, Works, Executing
  <2>3. ExecSays(exec', nextRun', o)
    BY <2>1, <2>2 DEF ExecSays, MovesTo
  <2>4. \A q \in RunId : /\ cache'.runs[q] = IF q = r /\ d.runs[q].status # "absent"
                                             THEN [d.runs[q] EXCEPT !.status = s] ELSE d.runs[q]
                         /\ cache'.runs[q].agent = d.runs[q].agent
    BY <2>1, <2>2, SetsView DEF ExecSays
  <2>5. ASSUME NEW q \in RunId
        PROVE  \/ cache'.runs[q] = NoRun
               \/ /\ q < nextRun' /\ cache'.runs[q].agent \in Agent
                  /\ cache'.runs[q].agent = o[q]
    <3>1. CASE d.runs[q] = NoRun
      <4>1. d.runs[q].status = "absent"
        BY <3>1 DEF NoRun
      <4>2. cache'.runs[q] = d.runs[q]
        BY <2>4, <4>1
      <4> QED
        BY <3>1, <4>2
    <3>2. CASE d.runs[q] # NoRun
      <4>1. q < nextRun /\ d.runs[q].agent \in Agent /\ d.runs[q].agent = o[q]
        BY <3>2 DEF Says
      <4>2. cache'.runs[q].agent = d.runs[q].agent
        BY <2>4
      <4> QED
        BY <2>1, <4>1, <4>2
    <3> QED
      BY <3>1, <3>2
  <2>6. Says(cache', nextRun', o)
    BY <2>5 DEF Says
  <2> QED
    BY <2>1, <2>3, <2>6
<1> QED
  BY <1>1, <1>2, <1>3, <1>4, <1>5, <1>6 DEF Does

LEMMA DrawnKept ==
    ASSUME Typed, NEW o, Drawn(o), NEW d, StartsFrom(d, o), [Next]_vars
    PROVE  \E o2 : Drawn(o2)'
<1>1. PICK o2 \in [RunId -> Agent \cup {NoAgent}] :
         /\ \A r \in RunId : r < nextRun => o2[r] = o[r]
         /\ \A r \in RunId : r < nextRun => r < nextRun'
         /\ Says(cache', nextRun', o2) /\ ExecSays(exec', nextRun', o2)
  BY DoesSays DEF StartsFrom, Drawn
<1>2. \A x : Says(x, nextRun, o) => Says(x, nextRun', o2)
  BY <1>1 DEF Says
<1>3. CopySays(NoDocument, nextRun', o2) /\ CopySays(cache', nextRun', o2)
  BY <1>1 DEF CopySays
<1>4. \A x : CopySays(x, nextRun, o) => CopySays(x, nextRun', o2)
  BY <1>2 DEF CopySays
<1>5. /\ disk' \in {disk, cache'}
      /\ legacy' \in {legacy, cache', NoDocument}
      /\ \A c \in Call : /\ calls'[c].snap \in {calls[c].snap, disk, NoDocument}
                         /\ calls'[c].fallback \in {calls[c].fallback, legacy, NoDocument}
  BY Carries
<1>6. /\ Says(disk, nextRun, o) /\ CopySays(disk, nextRun, o) /\ CopySays(legacy, nextRun, o)
      /\ \A c \in Call : /\ CopySays(calls[c].snap, nextRun, o)
                         /\ CopySays(calls[c].fallback, nextRun, o)
  BY DEF Drawn, CopySays
<1>7. Says(disk', nextRun', o2) /\ CopySays(legacy', nextRun', o2)
  BY <1>1, <1>2, <1>3, <1>4, <1>5, <1>6
<1>8. \A c \in Call : /\ CopySays(calls'[c].snap, nextRun', o2)
                      /\ CopySays(calls'[c].fallback, nextRun', o2)
  BY <1>3, <1>4, <1>5, <1>6
<1>9. Drawn(o2)'
  BY <1>1, <1>7, <1>8 DEF Drawn
<1> QED
  BY <1>9


---------------------------------------------------------------------------
(* The invariant, and the step of the abstract queue. *)

Trusted == Known(cache, forgotten)
TrustedExec == Busy(exec, forgotten)

KnownInv == /\ Typed /\ Held /\ forgotten \subseteq Agent
            /\ \E o : Drawn(o)
            /\ Truth(Trusted, nextRun, born, TrustedExec)

LEMMA KnownInit == Init => KnownInv
<1> SUFFICES ASSUME Init PROVE KnownInv
  OBVIOUS
<1>1. Typed /\ forgotten \subseteq Agent
  BY TypedInit DEF Init
<1>2. \A r \in RunId : exec[r].pc = "idle"
  BY DEF Init, IdleExec
<1>3. Held
  BY <1>2 DEF Init, Held, ReservationsMatch
<1>4. /\ cache.runs = [r \in RunId |-> NoRun] /\ disk.runs = [r \in RunId |-> NoRun]
      /\ \A a \in Agent : cache.agents[a].home = InitAgents[a]
  BY DEF Init, InitDocument, EmptyDocument
<1>5. \E o : Drawn(o)
  <2>1. PICK o : o = [r \in RunId |-> NoAgent]
    OBVIOUS
  <2>2. Says(cache, nextRun, o) /\ Says(disk, nextRun, o) /\ ExecSays(exec, nextRun, o)
    BY <1>2, <1>4 DEF Says, ExecSays
  <2>3. legacy = NoDocument /\ \A c \in Call : /\ calls[c].snap = NoDocument
                                               /\ calls[c].fallback = NoDocument
    BY DEF Init, IdleCall
  <2> QED
    BY <2>1, <2>2, <2>3 DEF Drawn, CopySays
<1>6. \A r \in RunId : Trusted.runs[r].status = "absent" /\ Trusted.runs[r].agent = NoAgent
  BY <1>4 DEF Trusted, Known, NoRun
<1>7. RunsBelong(Trusted, nextRun) /\ OpenIsNewest(Trusted) /\ LastIsNewest(Trusted)
  BY <1>6, StoreAssumption DEF RunsBelong, OpenIsNewest, LastIsNewest, IsOpen, OpenStatus, RunsOf
<1>8. AgentsBorn(Trusted, born)
  BY <1>4 DEF AgentsBorn, HasAgent, Trusted, Known, NoAgentRec, Init
<1>9. Execs(Trusted, nextRun, born, TrustedExec) /\ Alone(TrustedExec)
  BY <1>2 DEF Execs, Alone, Works, Executing, TrustedExec, Busy, IdleExec
<1> QED
  BY <1>1, <1>3, <1>5, <1>7, <1>8, <1>9 DEF KnownInv, Truth, History

\* A step withdraws the agents of which the document it starts from tells
\* something else, and then does what it does to what is still known.
LEMMA KnownStep ==
    ASSUME KnownInv, [Next]_vars
    PROVE  /\ KnownInv'
           /\ \E U \in Document :
                 /\ Less(Trusted, U, forgotten' \ forgotten)
                 /\ Truth(U, nextRun, born, Busy(exec, forgotten'))
                 /\ \/ Does(U, Trusted', Busy(exec, forgotten'), TrustedExec')
                    \/ Spends(U, Trusted', Busy(exec, forgotten'), TrustedExec')
<1>1. Typed' /\ forgotten' \subseteq Agent
  BY TypedStep, ForgetsAgents DEF KnownInv
<1>2. Held'
  BY ReservationsStep, StartsIdleOnly DEF KnownInv, Held
<1>3. PICK o : Drawn(o)
  BY DEF KnownInv
<1>4. PICK d : StartsFrom(d, o)
  BY <1>3, StepDoes DEF KnownInv
<1>5. \E o2 : Drawn(o2)'
  BY <1>3, <1>4, DrawnKept DEF KnownInv
<1>6. /\ cache \in Document /\ cache' \in Document /\ d \in Document
      /\ forgotten' = forgotten \cup {a \in Agent : ~TellSame(cache, d, a)}
      /\ Says(d, nextRun, o) /\ ExecSays(exec, nextRun, o)
      /\ Does(d, cache', exec, exec')
      /\ forgotten \in SUBSET Agent /\ forgotten' \in SUBSET Agent
      /\ Truth(Known(cache, forgotten), nextRun, born, Busy(exec, forgotten))
  BY <1>1, <1>3, <1>4 DEF KnownInv, Typed, CopiesOK, StartsFrom, Drawn, Replaces, Trusted, TrustedExec
<1> DEFINE U == Known(d, forgotten')
           B == Busy(exec, forgotten')
<1>7. Less(Trusted, U, forgotten' \ forgotten)
  BY <1>6, ReplaceForgets DEF Trusted
<1>8. Truth(U, nextRun, born, B)
  BY <1>6, <1>7, TruthOfFewer DEF Trusted
<1>9. Does(U, Trusted', B, TrustedExec') \/ Spends(U, Trusted', B, TrustedExec')
  BY <1>6, <1>8, KnownDoes DEF KnownInv, Trusted, TrustedExec
<1>10. U \in Document /\ Trusted' \in Document
  <2>1. \A x \in Document, F \in SUBSET Agent : Known(x, F) \in Document
    BY KnownView
  <2> QED
    BY <1>6, <2>1 DEF Trusted
<1> HIDE DEF U, B
<1>11. Truth(Trusted', nextRun', born', TrustedExec')
  BY <1>8, <1>9, <1>10, TruthKept
<1>12. KnownInv'
  BY <1>1, <1>2, <1>5, <1>11 DEF KnownInv
<1> QED
  BY <1>7, <1>8, <1>9, <1>10, <1>12 DEF U, B

LEMMA KnownAlways == Spec => []KnownInv
<1>1. KnownInv /\ [Next]_vars => KnownInv'
  BY KnownStep
<1> QED
  BY <1>1, KnownInit, PTL DEF Spec

\* No agent is investigated twice at a time unless a document that told something else
\* of it has replaced the cache: over every edit, failure and restart, and over answers
\* that forgot other agents, `hasOpenRun` (BackgroundAgentRunner.ts) sees every open run
\* of the agent, and a deleted agent's id is not drawn again.
THEOREM RunsAlone == Spec => []AgentRunsAlone
<1>1. KnownInv => AgentRunsAlone
  <2> SUFFICES ASSUME KnownInv, NEW q \in RunId, NEW r \in RunId, AtWork(q), AtWork(r),
                      exec[q].agent = exec[r].agent, exec[q].agent \notin forgotten
               PROVE  q = r
    BY DEF AgentRunsAlone
  <2>1. TrustedExec[q] = exec[q] /\ TrustedExec[r] = exec[r]
    BY DEF AtWork, Executing, TrustedExec, Busy
  <2> QED
    BY <2>1 DEF KnownInv, Truth, Alone, AtWork, Works
<1> QED
  BY <1>1, KnownAlways, PTL

\* The status shown with an agent is that of its newest run, whatever ends, is retried,
\* is trimmed from the history or is deleted meanwhile, and whoever else was forgotten.
THEOREM LastStatus == Spec => []LastStatusIsNewest
<1>1. KnownInv => LastStatusIsNewest
  <2> SUFFICES ASSUME KnownInv, NEW a \in Agent \ forgotten, NEW r \in RunsOf(cache, a),
                      \A q \in RunsOf(cache, a) : q <= r
               PROVE  cache.agents[a].last = cache.runs[r].status
    BY DEF LastStatusIsNewest
  <2>1. /\ RunsOf(Trusted, a) = RunsOf(cache, a)
        /\ Trusted.runs[r] = cache.runs[r] /\ Trusted.agents[a] = cache.agents[a]
    BY StoreAssumption DEF Trusted, Known, RunsOf, NoRun
  <2> QED
    BY <2>1 DEF KnownInv, Truth, History, LastIsNewest
<1> QED
  BY <1>1, KnownAlways, PTL

---------------------------------------------------------------------------
(* The abstract queue. *)

Jobs(d) == [r \in RunId |-> [owner |-> d.runs[r].agent, phase |-> Phase(d.runs[r].status)]]
RunJobs == [r \in RunId |-> JobOf(cache.runs[r])]

LEMMA JobsAreKnown == KnownInv => RunJobs = Jobs(Trusted)
<1> SUFFICES ASSUME KnownInv, NEW r \in RunId
             PROVE  JobOf(cache.runs[r]) = [owner |-> Trusted.runs[r].agent,
                                            phase |-> Phase(Trusted.runs[r].status)]
  BY DEF RunJobs, Jobs
<1>1. cache.runs[r] = NoRun \/ cache.runs[r].agent \in Agent
  BY DEF KnownInv, Drawn, Says
<1>2. Trusted.runs[r] = IF cache.runs[r].agent \in Agent \ forgotten THEN cache.runs[r] ELSE NoRun
  BY DEF Trusted, Known
<1>3. Phase("absent") = "none" /\ NoRun.agent = NoAgent /\ NoRun.status = "absent"
  BY DEF Phase, NoRun
<1>4. NoAgent \notin forgotten
  BY StoreAssumption DEF KnownInv
<1> QED
  BY <1>1, <1>2, <1>3, <1>4 DEF JobOf

\* Without the agents of W.
LEMMA LessJobs ==
    ASSUME NEW d, NEW d2, NEW W \in SUBSET Agent, Less(d, d2, W)
    PROVE  Jobs(d2) = [j \in RunId |-> IF Jobs(d)[j].owner \in W
                                       THEN [owner |-> NoAgent, phase |-> "none"] ELSE Jobs(d)[j]]
<1>1. Phase("absent") = "none" /\ NoRun.agent = NoAgent /\ NoRun.status = "absent"
  BY DEF Phase, NoRun
<1>2. \A r \in RunId : d2.runs[r] = IF d.runs[r].agent \in W THEN NoRun ELSE d.runs[r]
  BY DEF Less
<1> QED
  BY <1>1, <1>2 DEF Jobs

\* The jobs once a has a new one, n, and those of t are gone.
Submitted(jobs, a, n, t) ==
    [j \in RunId |-> IF j = n THEN [owner |-> a, phase |-> "waiting"]
                     ELSE IF j \in t THEN [owner |-> NoAgent, phase |-> "none"] ELSE jobs[j]]

LEMMA QueueSubmits ==
    ASSUME NEW d \in Document, NEW a \in Agent, NEW n \in RunId, CanQueue(d, a)
    PROVE  /\ \A j \in RunId : d.runs[j].agent = a => Phase(d.runs[j].status) \notin {"waiting", "working"}
           /\ \E trimmed \in SUBSET {j \in RunId : d.runs[j].agent = a} :
                 Jobs(QueueRun(d, a, n)) = Submitted(Jobs(d), a, n, trimmed)
<1> DEFINE d2 == QueueRun(d, a, n)
           trimmed == {q \in RunId \ {n} : d2.runs[q] # d.runs[q]}
<1>1. /\ QueueRun(d, a, n).runs[n] = [agent |-> a, env |-> d.agents[a].home, status |-> "queued"]
      /\ \A q \in RunId \ {n} :
            \/ QueueRun(d, a, n).runs[q] = d.runs[q]
            \/ /\ QueueRun(d, a, n).runs[q] = NoRun
               /\ d.runs[q].agent = a /\ ~IsOpen(d, q)
      /\ QueueRun(d, a, n).agents[a] = [d.agents[a] EXCEPT !.last = "queued"]
      /\ \A c \in Agent \ {a} : QueueRun(d, a, n).agents[c] = d.agents[c]
  BY QueueView
<1>2. Jobs(d2) = Submitted(Jobs(d), a, n, trimmed)
  BY <1>1 DEF Submitted, Jobs, Phase, NoRun
<1>3. trimmed \in SUBSET {j \in RunId : d.runs[j].agent = a}
  BY <1>1
<1>4. ASSUME NEW j \in RunId, d.runs[j].agent = a
      PROVE  Phase(d.runs[j].status) \notin {"waiting", "working"}
  <2>1. ~IsOpen(d, j)
    BY <1>4 DEF CanQueue, HasOpenRun, RunsOf
  <2> QED
    BY <2>1 DEF IsOpen, OpenStatus, Phase
<1> HIDE DEF trimmed
<1> QED
  BY <1>2, <1>3, <1>4

LEMMA ChangesAdvance ==
    ASSUME NEW d \in Document, NEW d2 \in Document, NEW ex, NEW ex2,
           Execs(d, nextRun, born, ex), Changes(d, d2, ex, ex2)
    PROVE  \/ Jobs(d2) = Jobs(d)
           \/ \E r \in RunId :
                 \/ /\ Jobs(d)[r].phase = "waiting"
                    /\ Jobs(d2) = [Jobs(d) EXCEPT ![r].phase = "working"]
                 \/ /\ Jobs(d)[r].phase \in {"waiting", "working"}
                    /\ Jobs(d2) = [Jobs(d) EXCEPT ![r].phase = "over"]
<1>1. PICK r \in RunId, s \in RunStatus, to \in {"attempt", "closing"} :
             /\ to = "attempt" => s = "running"
             /\ to = "closing" => s \notin OpenStatus
             /\ MovesTo(ex, ex2, r, to)
             /\ Sets(d, d2, r, ex[r].agent, s)
  BY DEF Changes
<1>2. ex[r].agent \in Agent /\ Backed(d, born, r, ex[r])
  BY <1>1 DEF Execs, MovesTo
<1>3. /\ \A q \in RunId : d2.runs[q] = IF q = r /\ d.runs[q].status # "absent"
                                       THEN [d.runs[q] EXCEPT !.status = s] ELSE d.runs[q]
      /\ \A q \in RunId : d2.runs[q].agent = d.runs[q].agent
  BY <1>1, <1>2, SetsView
<1>4. Jobs(d)[r] = [owner |-> d.runs[r].agent, phase |-> Phase(d.runs[r].status)]
  BY DEF Jobs
<1>5. CASE d.runs[r].status = "absent"
  BY <1>3, <1>5 DEF Jobs
<1>6. CASE d.runs[r].status \in OpenStatus
  <2>1. d2.runs[r].status = s
    <3>1. d.runs[r] \in RunRec
      BY DEF Document
    <3> QED
      BY <1>3, <1>6, <3>1 DEF RunRec, OpenStatus
  <2>2. \A q \in RunId \ {r} : d2.runs[q] = d.runs[q]
    BY <1>3
  <2>3. Jobs(d2) = [Jobs(d) EXCEPT ![r].phase = Phase(s)]
    BY <1>3, <2>1, <2>2 DEF Jobs
  <2>4. Phase(d.runs[r].status) = IF d.runs[r].status = "queued" THEN "waiting" ELSE "working"
    BY <1>6 DEF OpenStatus, Phase
  <2>5. CASE s \notin OpenStatus
    <3>1. Phase(s) = "over"
      BY <2>5 DEF RunStatus, OpenStatus, Phase
    <3>2. Jobs(d)[r].phase \in {"waiting", "working"}
      BY <1>4, <2>4
    <3>3. Jobs(d2) = [Jobs(d) EXCEPT ![r].phase = "over"]
      BY <2>3, <3>1
    <3> QED
      BY <3>2, <3>3
  <2>6. CASE s = "running" /\ d.runs[r].status = "queued"
    <3>1. Phase(s) = "working"
      BY <2>6 DEF Phase
    <3>2. Jobs(d)[r].phase = "waiting"
      BY <1>4, <2>4, <2>6
    <3>3. Jobs(d2) = [Jobs(d) EXCEPT ![r].phase = "working"]
      BY <2>3, <3>1
    <3> QED
      BY <3>2, <3>3
  <2>7. CASE s = "running" /\ d.runs[r].status = "running"
    <3>1. \A q \in RunId : d2.runs[q].agent = d.runs[q].agent /\ d2.runs[q].status = d.runs[q].status
      BY <1>3, <2>1, <2>2, <2>7
    <3> QED
      BY <3>1 DEF Jobs
  <2> QED
    BY <1>1, <1>6, <2>5, <2>6, <2>7 DEF OpenStatus
<1> QED
  BY <1>2, <1>5, <1>6 DEF Backed, Gone, OpenStatus

LEMMA JobsAreKnownNext == KnownInv' => (RunJobs = Jobs(Trusted))'
BY JobsAreKnown, PTL

LEMMA QueueStep == KnownInv /\ [Next]_vars => [Queue!Next]_<<RunJobs, nextRun>>
<1> SUFFICES ASSUME KnownInv, [Next]_vars PROVE [Queue!Next]_<<RunJobs, nextRun>>
  OBVIOUS
<1> DEFINE W == forgotten' \ forgotten
           B == Busy(exec, forgotten')
           NoJob == [owner |-> NoAgent, phase |-> "none"]
<1>1. PICK U \in Document :
         /\ Less(Trusted, U, W)
         /\ Truth(U, nextRun, born, B)
         /\ Does(U, Trusted', B, TrustedExec') \/ Spends(U, Trusted', B, TrustedExec')
  BY KnownStep
<1>2. KnownInv'
  BY KnownStep
<1>3. RunJobs = Jobs(Trusted) /\ RunJobs' = Jobs(Trusted')
  <2>1. RunJobs' = Jobs(Trusted)'
    BY <1>2, JobsAreKnownNext
  <2> QED
    BY <2>1, JobsAreKnown DEF Jobs
<1>4. W \in SUBSET Agent /\ Trusted' \in Document
  <2>1. \A x \in Document, F \in SUBSET Agent : Known(x, F) \in Document
    BY KnownView
  <2> QED
    BY <1>2, <2>1 DEF KnownInv, Typed, CopiesOK, Trusted
<1> HIDE DEF W, B
<1>5. Jobs(U) = [j \in RunId |-> IF Jobs(Trusted)[j].owner \in W THEN NoJob ELSE Jobs(Trusted)[j]]
  BY <1>1, <1>4, LessJobs
<1>6. Queue!Without(W) = Jobs(U)
  BY <1>3, <1>5 DEF Queue!Without, Queue!NoJob, RunJobs
<1>7. CASE /\ Trusted'.runs = U.runs /\ nextRun' = nextRun
  <2>1. RunJobs' = Jobs(U)
    BY <1>3, <1>7 DEF Jobs
  <2>2. Queue!Withdraw(W)
    BY <1>6, <1>7, <2>1 DEF Queue!Withdraw, RunJobs
  <2> QED
    BY <1>4, <2>2 DEF Queue!Next
<1>8. CASE Quiets(U, Trusted', B, TrustedExec') \/ Drains(U, Trusted', B, TrustedExec')
  BY <1>7, <1>8 DEF Quiets, Drains, SameRuns
<1>9. CASE Creates(U, Trusted', B, TrustedExec')
  BY <1>7, <1>9 DEF Creates, SameRuns, CreateAgent, Document
<1>10. CASE Spends(U, Trusted', B, TrustedExec')
  <2>1. RunJobs' = Jobs(U) /\ nextRun \in RunId /\ nextRun' = nextRun + 1
    BY <1>3, <1>10 DEF Spends, SameRuns, Jobs
  <2>2. Queue!Spend(W)
    BY <1>6, <2>1 DEF Queue!Spend, RunJobs
  <2> QED
    BY <1>4, <2>2 DEF Queue!Next
<1>11. CASE Deletes(U, Trusted', B, TrustedExec')
  <2>1. PICK a \in Agent : Less(U, Trusted', {a}) /\ nextRun' = nextRun
    BY <1>11 DEF Deletes
  <2>2. Jobs(Trusted') = [j \in RunId |-> IF Jobs(U)[j].owner \in {a} THEN NoJob ELSE Jobs(U)[j]]
    BY <2>1, LessJobs
  <2>3. Jobs(Trusted') = [j \in RunId |-> IF Jobs(Trusted)[j].owner \in W \cup {a} THEN NoJob
                                          ELSE Jobs(Trusted)[j]]
    BY <1>5, <2>2
  <2>4. Queue!Without(W \cup {a}) = RunJobs'
    BY <1>3, <2>3 DEF Queue!Without, Queue!NoJob, RunJobs
  <2>5. Queue!Withdraw(W \cup {a})
    BY <2>1, <2>4 DEF Queue!Withdraw, RunJobs
  <2> QED
    BY <1>4, <2>5 DEF Queue!Next
<1>12. CASE Queues(U, Trusted', B, TrustedExec')
  <2>1. PICK a \in Agent : /\ CanQueue(U, a)
                           /\ nextRun \in RunId /\ nextRun' = nextRun + 1
                           /\ SameRuns(QueueRun(U, a, nextRun), Trusted')
    BY <1>12 DEF Queues
  <2>2. /\ \A j \in RunId : U.runs[j].agent = a => Phase(U.runs[j].status) \notin {"waiting", "working"}
        /\ \E trimmed \in SUBSET {j \in RunId : U.runs[j].agent = a} :
                 Jobs(QueueRun(U, a, nextRun)) = Submitted(Jobs(U), a, nextRun, trimmed)
    <3>1. \A j \in RunId : U.runs[j].agent = a => Phase(U.runs[j].status) \notin {"waiting", "working"}
      BY <2>1, QueueSubmits
    <3>2. \E trimmed \in SUBSET {j \in RunId : U.runs[j].agent = a} :
                 Jobs(QueueRun(U, a, nextRun)) = Submitted(Jobs(U), a, nextRun, trimmed)
      BY <2>1, QueueSubmits
    <3> QED
      BY <3>1, <3>2
  <2>3. a \notin W
    BY <1>1, <2>1 DEF Less, CanQueue, HasAgent, NoAgentRec
  <2>4. \A j \in RunId : /\ Jobs(U)[j] = [owner |-> U.runs[j].agent, phase |-> Phase(U.runs[j].status)]
                         /\ Jobs(Trusted)[j].owner = a => Jobs(U)[j] = Jobs(Trusted)[j]
                         /\ U.runs[j].agent = a => Jobs(Trusted)[j].owner = a
    <3>1. \A j \in RunId : Jobs(U)[j] = [owner |-> U.runs[j].agent, phase |-> Phase(U.runs[j].status)]
      BY DEF Jobs
    <3>2. \A j \in RunId : Jobs(Trusted)[j].owner = a => Jobs(U)[j] = Jobs(Trusted)[j]
      BY <1>5, <2>3
    <3>3. \A j \in RunId : U.runs[j].agent = a => Jobs(Trusted)[j].owner = a
      <4> SUFFICES ASSUME NEW j \in RunId, U.runs[j].agent = a PROVE Jobs(Trusted)[j].owner = a
        OBVIOUS
      <4>1. Jobs(U)[j].owner = a
        BY DEF Jobs
      <4>2. Jobs(U)[j] = IF Jobs(Trusted)[j].owner \in W THEN NoJob ELSE Jobs(Trusted)[j]
        BY <1>5
      <4>3. NoJob.owner # a
        BY StoreAssumption
      <4> QED
        BY <4>1, <4>2, <4>3
    <3> QED
      BY <3>1, <3>2, <3>3
  <2>5. RunJobs' = Jobs(QueueRun(U, a, nextRun))
    BY <1>3, <2>1 DEF SameRuns, Jobs
  <2>6. \A j \in Queue!JobOf(a) : ~Queue!IsOpenJob(j)
    <3> SUFFICES ASSUME NEW j \in RunId, Jobs(Trusted)[j].owner = a
                 PROVE  Jobs(Trusted)[j].phase \notin {"waiting", "working"}
      BY <1>3 DEF Queue!JobOf, Queue!IsOpenJob, RunJobs
    <3>1. Jobs(U)[j] = Jobs(Trusted)[j]
      BY <2>4
    <3>2. U.runs[j].agent = a /\ Jobs(U)[j].phase = Phase(U.runs[j].status)
      BY <2>4, <3>1 DEF Jobs
    <3> QED
      BY <2>2, <3>1, <3>2
  <2>7. Queue!JobOf(a) = {j \in RunId : Jobs(Trusted)[j].owner = a}
    BY <1>3 DEF Queue!JobOf, RunJobs
  <2>8. \E trimmed \in SUBSET Queue!JobOf(a) :
           RunJobs' = [j \in RunId |-> IF j = nextRun THEN [owner |-> a, phase |-> "waiting"]
                                       ELSE IF j \in trimmed THEN Queue!NoJob
                                       ELSE Queue!Without(W)[j]]
    <3>1. PICK trimmed \in SUBSET {j \in RunId : U.runs[j].agent = a} :
                 Jobs(QueueRun(U, a, nextRun)) = Submitted(Jobs(U), a, nextRun, trimmed)
      BY <2>2
    <3>2. trimmed \in SUBSET Queue!JobOf(a)
      BY <2>4, <2>7
    <3>3. Queue!NoJob = NoJob
      BY DEF Queue!NoJob
    <3>4. RunJobs' = [j \in RunId |->
                     IF j = nextRun THEN [owner |-> a, phase |-> "waiting"]
                     ELSE IF j \in trimmed THEN Queue!NoJob ELSE Queue!Without(W)[j]]
      BY <1>6, <2>5, <3>1, <3>3 DEF Submitted
    <3> QED
      BY <3>2, <3>4
  <2>9. Queue!Submit(a, W)
    BY <2>1, <2>6, <2>8 DEF Queue!Submit, RunJobs
  <2> QED
    BY <1>4, <2>3, <2>9 DEF Queue!Next
<1>13. CASE Changes(U, Trusted', B, TrustedExec')
  <2>1. W = {} /\ nextRun' = nextRun
    BY <1>13 DEF Changes, W
  <2>2. Jobs(U) = Jobs(Trusted)
    BY <1>5, <2>1 DEF Jobs
  <2>3. \/ RunJobs' = RunJobs
        \/ \E r \in RunId :
              \/ /\ RunJobs[r].phase = "waiting"
                 /\ RunJobs' = [RunJobs EXCEPT ![r].phase = "working"]
              \/ /\ RunJobs[r].phase \in {"waiting", "working"}
                 /\ RunJobs' = [RunJobs EXCEPT ![r].phase = "over"]
    BY <1>1, <1>3, <1>4, <1>13, <2>2, ChangesAdvance DEF Truth
  <2>4. CASE RunJobs' = RunJobs
    BY <2>1, <2>4
  <2>5. ASSUME NEW r \in RunId, RunJobs[r].phase = "waiting",
               RunJobs' = [RunJobs EXCEPT ![r].phase = "working"]
        PROVE  Queue!Begin(r)
    BY <2>1, <2>5 DEF Queue!Begin, Queue!Advance, RunJobs
  <2>6. ASSUME NEW r \in RunId, RunJobs[r].phase \in {"waiting", "working"},
               RunJobs' = [RunJobs EXCEPT ![r].phase = "over"]
        PROVE  Queue!End(r)
    BY <2>1, <2>6 DEF Queue!End, Queue!Advance, RunJobs
  <2> QED
    BY <2>3, <2>4, <2>5, <2>6 DEF Queue!Next
<1> QED
  BY <1>1, <1>8, <1>9, <1>10, <1>11, <1>12, <1>13 DEF Does

\* The runs of the document implement the abstract queue, step by step, whatever answer
\* is late and whatever fails: a forgotten agent is withdrawn, and nothing else happens
\* to the others.
THEOREM RunQueueImplemented == Spec => ImplementsRunQueue
<1>1. Init => Queue!Init
  <2> SUFFICES ASSUME Init PROVE RunJobs = [r \in RunId |-> Queue!NoJob] /\ nextRun = 1
    BY DEF Queue!Init, RunJobs
  <2>1. cache.runs = [r \in RunId |-> NoRun] /\ forgotten = {}
    BY DEF Init, InitDocument, EmptyDocument
  <2> QED
    BY <2>1 DEF Init, RunJobs, JobOf, NoRun, Phase, Queue!NoJob
<1>2. Spec => [][Queue!Next]_<<RunJobs, nextRun>>
  BY QueueStep, KnownAlways, PTL DEF Spec
<1> QED
  BY <1>1, <1>2, PTL DEF Spec, RunJobs, ImplementsRunQueue, Queue!Spec

=============================================================================
