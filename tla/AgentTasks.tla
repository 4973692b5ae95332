----------------------------- MODULE AgentTasks -----------------------------
(***************************************************************************)
(* A chat request, the task engine and agent loop that serve it, and the   *)
(* plan queue in which destructive commands wait for the operator:         *)
(*   src/components/ai/AIChat.tsx      requests, stop, resume              *)
(*   src/lib/agent/TaskEngine.ts       subtasks, attempts, time-outs       *)
(*   src/lib/agent/AgentLoop.ts        rounds of the model and its tools   *)
(*   src/components/ai/PlanQueue.tsx   approval and execution of a step    *)
(*   src/lib/stores/WorkspaceStore.ts  the state they share                *)
(*                                                                         *)
(* Grain: one action is the code between two awaits.  A time-out rejects   *)
(* the promise the engine waits for but stops nothing: the loop goes on.   *)
(* A request has at most one loop at work, so loops are indexed by the     *)
(* request they serve.  Messages, the undo stack, commands that are not    *)
(* destructive, the confidence gate and the round counters are left out: a *)
(* loop takes any number of rounds and queues up to MaxSteps commands.     *)
(***************************************************************************)
EXTENDS TaskState, FiniteSets

CONSTANTS
    PlanSizes,         \* subtasks a plan may have (2 to 5 in the code)
    MaxAutoRetries,    \* MAX_AUTO_RETRIES
    MaxApprovers,      \* bound: executions of approved steps at once
    MaxSteps,          \* bound: steps that are ever queued
    MaxRestarts,       \* bound: restarts of the application
    MaxSwitches,       \* bound: times the operator leaves the chat panel
    ApproveAllUsed     \* the operator uses the Approve All button

ASSUME AgentTasksAssumption ==
    /\ PlanSizes \subseteq 2..MaxSubtasks
    /\ {MaxAutoRetries, MaxApprovers, MaxSteps, MaxRestarts, MaxSwitches} \subseteq Nat
    /\ ApproveAllUsed \in BOOLEAN

VARIABLES
    currentTask, taskCheckpoint, pendingTaskResume,   \* WorkspaceStore
    saved,          \* taskCheckpoint in the saved workspace session
    planQueue,      \* the steps, with those that left the queue
    ran,            \* times a step's command was dispatched (ghost, up to 2)
    approver,       \* invocations of handleApprove and approveAll
    request,        \* invocations of executeAgentRequest with their engine
    loop,           \* the agent loop of each request
    lastRequest,    \* requests started so far
    controller,     \* the request abortControllerRef points to, 0 when null
    isProcessing,
    restarts, switches

tasks    == <<currentTask, taskCheckpoint>>
queue    == <<planQueue, ran>>
requests == <<request, lastRequest, controller, isProcessing>>
bounds   == <<restarts, switches>>
vars     == <<tasks, pendingTaskResume, saved, queue, approver, requests, loop, bounds>>

Request  == TaskId
Step     == 1..MaxSteps
Approver == 1..MaxApprovers

StepRec == [status : {"none", "pending", "executing", "done", "failed", "rejected", "removed"},
            task : {0} \cup TaskId, subtask : 1..MaxSubtasks]
NoStep  == [status |-> "none", task |-> 0, subtask |-> 1]

\* An execution of a step, and the steps its loop has still to execute.
ApproverRec  == [pc : {"idle", "dispatch", "verify", "audit"}, step : {0} \cup Step,
                 todo : SUBSET Step]
IdleApprover == [pc |-> "idle", step |-> 0, todo |-> {}]

RequestRec == [pc : {"none", "planning", "loop", "verify", "closing", "done"},
               resume : Task \cup {NoTask}, task : Task \cup {NoTask}, planned : BOOLEAN,
               attempt : 0..MaxAutoRetries, aborted : BOOLEAN, orphan : BOOLEAN,
               clears : {0} \cup TaskId]
NewRequest == [pc |-> "none", resume |-> NoTask, task |-> NoTask, planned |-> FALSE,
               attempt |-> 0, aborted |-> FALSE, orphan |-> FALSE, clears |-> 0]

LoopRec == [pc : {"free", "model", "tools"}, task : {0} \cup TaskId,
            subtask : 1..MaxSubtasks, queued : BOOLEAN]
NoLoop  == [pc |-> "free", task |-> 0, subtask |-> 1, queued |-> FALSE]

\* The types of all variables: attempts stay within MAX_AUTO_RETRIES, and
\* statuses and indices are those TaskState.ts declares.
TypeOK ==
    /\ currentTask \in Task \cup {NoTask}
    /\ {taskCheckpoint, pendingTaskResume, saved} \subseteq Checkpoint \cup {NoCheckpoint}
    /\ planQueue \in [Step -> StepRec]
    /\ ran \in [Step -> 0..2]
    /\ approver \in [Approver -> ApproverRec]
    /\ request \in [Request -> RequestRec]
    /\ loop \in [Request -> LoopRec]
    /\ lastRequest \in 0..MaxRequests
    /\ controller \in 0..MaxRequests
    /\ isProcessing \in BOOLEAN
    /\ restarts \in 0..MaxRestarts
    /\ switches \in 0..MaxSwitches

Init ==
    /\ currentTask = NoTask
    /\ taskCheckpoint = NoCheckpoint
    /\ pendingTaskResume = NoCheckpoint
    /\ saved = NoCheckpoint
    /\ planQueue = [s \in Step |-> NoStep]
    /\ ran = [s \in Step |-> 0]
    /\ approver = [p \in Approver |-> IdleApprover]
    /\ request = [r \in Request |-> NewRequest]
    /\ loop = [r \in Request |-> NoLoop]
    /\ lastRequest = 0
    /\ controller = 0
    /\ isProcessing = FALSE
    /\ restarts = 0
    /\ switches = 0

---------------------------------------------------------------------------
(* Requests. *)

\* abortControllerRef.current?.abort(): the signal is read by the loop only.
Abortable(r) == request[r].pc \in {"planning", "loop", "verify"} \/ loop[r].pc # "free"

\* Mutant: nothing is aborted.
AbortedNone(q) == q

Aborted(q) == IF controller = 0 THEN q
              ELSE [q EXCEPT ![controller].aborted = @ \/ Abortable(controller)]

\* executeAgentRequest up to its first await: the request before is aborted
\* and its checkpoint dropped.
StartRequest(resume) ==
    /\ lastRequest < MaxRequests
    /\ lastRequest' = lastRequest + 1
    /\ controller' = lastRequest'
    /\ request' = [Aborted(request) EXCEPT
                      ![lastRequest'] = [NewRequest EXCEPT !.pc = "planning", !.resume = resume]]
    /\ isProcessing' = TRUE
    /\ taskCheckpoint' = NoCheckpoint
    /\ UNCHANGED <<currentTask, saved, queue, approver, loop, bounds>>

\* handleSend: Enter sends while another request is served.
Send == StartRequest(NoTask) /\ UNCHANGED pendingTaskResume

\* The Resume button of a task that a restart interrupted.
ResumeInterrupted ==
    /\ ~isProcessing
    /\ taskCheckpoint # NoCheckpoint
    /\ taskCheckpoint.lifecycle = "interrupted"
    /\ StartRequest(taskCheckpoint.task)
    /\ UNCHANGED pendingTaskResume

\* The effect that waits for a resume requested by an approval.
ResumePending ==
    /\ ~isProcessing
    /\ pendingTaskResume # NoCheckpoint
    /\ pendingTaskResume' = NoCheckpoint
    /\ StartRequest(pendingTaskResume.task)

\* The Stop button, and a request without a provider, which aborts only.
Stop ==
    /\ controller # 0
    /\ Abortable(controller)
    /\ ~request[controller].aborted
    /\ request' = Aborted(request)
    /\ UNCHANGED <<tasks, pendingTaskResume, saved, queue, approver, lastRequest, controller,
                   isProcessing, loop, bounds>>

Abandon ==
    /\ taskCheckpoint # NoCheckpoint
    /\ taskCheckpoint.lifecycle = "interrupted"
    /\ taskCheckpoint' = [taskCheckpoint EXCEPT !.lifecycle = "abandoned"]
    /\ UNCHANGED <<currentTask, pendingTaskResume, saved, queue, approver, requests, loop, bounds>>

\* The finally block of executeAgentRequest; the state it sets is that of the
\* component that started the request.
EndRequest(r) ==
    /\ request[r].pc = "closing"
    /\ request' = [request EXCEPT ![r].pc = "done", ![r].orphan = FALSE]
    /\ isProcessing' = (isProcessing /\ request[r].orphan)
    /\ UNCHANGED <<tasks, pendingTaskResume, saved, queue, approver, lastRequest, controller,
                   loop, bounds>>

---------------------------------------------------------------------------
(* The task engine. *)

\* setCurrentTask and persistTaskCheckpoint, one after the other.
Publish(t) ==
    /\ currentTask' = t
    /\ taskCheckpoint' = CreateTaskCheckpoint(t)

\* An attempt at subtask i: the loop captures the task just published.
StartAttempt(r, task, i, planned, attempt) ==
    LET t == UpdateSubtask(task, i, "executing")
    IN  /\ Publish(t)
        /\ request' = [request EXCEPT ![r] = [@ EXCEPT
                !.pc = "loop", !.resume = NoTask, !.task = t,
                !.planned = planned, !.attempt = attempt]]
        /\ loop' = [loop EXCEPT ![r] =
                [pc |-> "model", task |-> t.id, subtask |-> t.currentIndex, queued |-> FALSE]]

\* Mutant: a task that is over keeps its checkpoint.
EndEngineKeeping(r, t) ==
    /\ Publish(t)
    /\ request' = [request EXCEPT ![r] =
            [NewRequest EXCEPT !.pc = "closing", !.clears = t.id,
                               !.aborted = request[r].aborted,
                               !.orphan = request[r].orphan]]

\* The engine is over: what it leaves in the store, and the timer that
\* removes the task from it.
EndEngine(r, t) ==
    /\ currentTask' = t
    /\ taskCheckpoint' = IF t.status = "awaiting_input" THEN CreateTaskCheckpoint(t)
                                                        ELSE NoCheckpoint
    /\ request' = [request EXCEPT ![r] =
            [NewRequest EXCEPT !.pc = "closing", !.clears = t.id,
                               !.aborted = request[r].aborted,
                               !.orphan = request[r].orphan]]

EngineOnly == UNCHANGED <<pendingTaskResume, saved, queue, approver, lastRequest, controller,
                          isProcessing, bounds>>

\* requestTaskPlan answers (no plan counts as one step) or fails.  A resumed
\* task keeps its subtasks and starts again with the first.
PlanAnswered(r) ==
    /\ request[r].pc = "planning"
    /\ \E n \in {1} \cup PlanSizes :
          LET task == IF request[r].resume = NoTask THEN NewTask(r, n)
                                                    ELSE ResumedTask(request[r].resume)
          IN  StartAttempt(r, task, 1, n # 1, 0)
    /\ EngineOnly

\* The verification of a subtask: the next one, another attempt, or the end.
Verified(r, passed) ==
    LET task == request[r].task
        i    == task.currentIndex
        done == UpdateSubtask(task, i, "complete")
    IN  CASE passed /\ HasSubtaskAfter(task, i) -> StartAttempt(r, done, i + 1, TRUE, 0)
          [] passed /\ ~HasSubtaskAfter(task, i) ->
                EndEngine(r, FinalizeTask(done, "complete")) /\ loop' = [loop EXCEPT ![r] = NoLoop]
          [] ~passed /\ request[r].attempt < MaxAutoRetries ->
                StartAttempt(r, task, i, TRUE, request[r].attempt + 1)
          [] OTHER ->
                /\ EndEngine(r, FinalizeTask(UpdateSubtask(task, i, "failed"), "failed"))
                /\ loop' = [loop EXCEPT ![r] = NoLoop]

\* requestVerificationPlan answers, fails or times out (then it passes).
VerificationAnswered(r, passed) ==
    /\ request[r].pc = "verify"
    /\ Verified(r, passed)
    /\ EngineOnly

\* runAgentLoop returns to the engine that waits for it.
LoopAnswers(r) ==
    LET task == request[r].task
        i    == task.currentIndex
        over == loop' = [loop EXCEPT ![r] = NoLoop]
    IN  /\ request[r].pc = "loop"
        /\ loop[r].pc # "free"
        /\ \/ /\ loop[r].queued
              /\ EndEngine(r, FinalizeTask(UpdateSubtask(task, i, "awaiting_approval"),
                                           "awaiting_input"))
              /\ over
           \/ /\ ~loop[r].queued
              /\ ~request[r].planned
              /\ EndEngine(r, FinalizeTask(UpdateSubtask(task, 1, "complete"), "complete"))
              /\ over
           \/ /\ ~loop[r].queued
              /\ request[r].planned
              /\ Publish(UpdateSubtask(task, i, "verifying"))
              /\ request' = [request EXCEPT ![r].pc = "verify", ![r].task = currentTask']
              /\ over
           \/ /\ ~loop[r].queued
              /\ request[r].planned
              /\ Verified(r, TRUE)
        /\ EngineOnly

\* catch: the task failed, whatever the store holds by now.
FailEngine(r) ==
    LET task == request[r].task
    IN  EndEngine(r, FinalizeTask(UpdateSubtask(task, task.currentIndex, "failed"), "failed"))

\* The model call fails or is aborted.
LoopThrows(r) ==
    /\ request[r].pc = "loop"
    /\ loop[r].pc = "model"
    /\ FailEngine(r)
    /\ loop' = [loop EXCEPT ![r] = NoLoop]
    /\ EngineOnly

\* Mutant: nothing bounds the wait for the loop.
NeverTimesOut(r) == FALSE /\ UNCHANGED vars

\* withTimeout: the engine gives up, the loop goes on.
LoopTimesOut(r) ==
    /\ request[r].pc = "loop"
    /\ FailEngine(r)
    /\ UNCHANGED loop
    /\ EngineOnly

\* The timer of the finally block, 1.5 s later.
ClearTask(r) ==
    /\ request[r].clears # 0
    /\ request' = [request EXCEPT ![r].clears = 0]
    /\ currentTask' =
          IF /\ currentTask # NoTask
             /\ currentTask.id = request[r].clears
             /\ currentTask.status # "awaiting_input"
          THEN NoTask ELSE currentTask
    /\ UNCHANGED <<taskCheckpoint, pendingTaskResume, saved, queue, approver, lastRequest,
                   controller, isProcessing, loop, bounds>>

---------------------------------------------------------------------------
(* The agent loop: the model answers with tool calls, or the loop ends. *)

LoopOnly == UNCHANGED <<tasks, pendingTaskResume, saved, approver, requests, bounds>>

ModelAnswers(r) ==
    /\ loop[r].pc = "model"
    /\ ~request[r].aborted
    /\ loop' = [loop EXCEPT ![r].pc = "tools"]
    /\ UNCHANGED queue
    /\ LoopOnly

ToolsEnd(r) ==
    /\ loop[r].pc = "tools"
    /\ loop' = [loop EXCEPT ![r].pc = "model"]
    /\ UNCHANGED queue
    /\ LoopOnly

\* A destructive command is queued for approval, also by a loop that was
\* aborted or that nobody waits for any more.
QueueStep(r) ==
    /\ loop[r].pc = "tools"
    /\ \E s \in Step :
          /\ planQueue[s].status = "none"
          /\ \A q \in Step : planQueue[q].status = "none" => s <= q
          /\ planQueue' = [planQueue EXCEPT ![s] =
                [status |-> "pending", task |-> loop[r].task, subtask |-> loop[r].subtask]]
    /\ loop' = [loop EXCEPT ![r].queued = TRUE]
    /\ UNCHANGED ran
    /\ LoopOnly

\* A loop that timed out ends unnoticed.
ZombieEnds(r) ==
    /\ loop[r].pc # "free"
    /\ request[r].pc # "loop"
    /\ loop' = [loop EXCEPT ![r] = NoLoop]
    /\ UNCHANGED queue
    /\ LoopOnly

---------------------------------------------------------------------------
(* The plan queue. *)

\* updatePlanStep and setPlanStepStatus: a step that left the queue stays out.
SetStep(s, status) ==
    IF planQueue[s].status = "removed" THEN planQueue
    ELSE [planQueue EXCEPT ![s].status = status]

InQueue(s) == planQueue[s].status \notin {"none", "removed"}

\* syncTaskApprovalState: the subtask the step belongs to follows the step,
\* when its task is the one the store shows.
SyncTask(s, next) ==
    LET task == IF currentTask # NoTask THEN currentTask
                ELSE IF taskCheckpoint # NoCheckpoint THEN taskCheckpoint.task ELSE NoTask
        i    == planQueue[s].subtask
        to(subtask, status) ==
            [UpdateSubtask(task, i, subtask) EXCEPT !.status = status]
        resumed == UpdateSubtask(to("complete", "running"), i + 1, "planning")
    IN  CASE task = NoTask \/ task.id # planQueue[s].task \/ i \notin DOMAIN task.subtasks ->
                UNCHANGED <<tasks, pendingTaskResume>>
          [] OTHER ->
                \/ /\ next = "executing"
                   /\ currentTask' = to("executing", "running")
                   /\ taskCheckpoint' = IF taskCheckpoint = NoCheckpoint THEN NoCheckpoint
                                        ELSE CreateTaskCheckpoint(currentTask')
                   /\ UNCHANGED pendingTaskResume
                \/ /\ next = "complete"
                   /\ HasSubtaskAfter(task, i)
                   /\ currentTask' = resumed
                   /\ IF taskCheckpoint = NoCheckpoint
                      THEN UNCHANGED <<taskCheckpoint, pendingTaskResume>>
                      ELSE /\ taskCheckpoint' = CreateTaskCheckpoint(resumed)
                           /\ pendingTaskResume' = taskCheckpoint'
                \/ /\ next = "failed" \/ ~HasSubtaskAfter(task, i)
                   /\ next # "executing"
                   /\ currentTask' = to(next, next)
                   /\ taskCheckpoint' = NoCheckpoint
                   /\ pendingTaskResume' = NoCheckpoint

\* executeStep up to its first await: the status of the step is not read.
BeginStep(p, s, todo) ==
    /\ planQueue' = SetStep(s, "executing")
    /\ ran' = [ran EXCEPT ![s] = IF @ = 2 THEN 2 ELSE @ + 1]
    /\ approver' = [approver EXCEPT ![p] = [pc |-> "dispatch", step |-> s, todo |-> todo]]
    /\ SyncTask(s, "executing")

QueueOnly == UNCHANGED <<saved, requests, loop, bounds>>

Pending == {s \in Step : planQueue[s].status = "pending"}

\* Mutant: the button is shown for a step in any state.
ApprovableAlways(s) == InQueue(s)

\* The buttons of a step are shown while it is pending.
Approvable(s) == s \in Pending

FreeApprover(p) ==
    /\ approver[p].pc = "idle"
    /\ \A q \in Approver : approver[q].pc = "idle" => p <= q

\* handleApprove
Approve(s) ==
    /\ Approvable(s)
    /\ \E p \in Approver : FreeApprover(p) /\ BeginStep(p, s, {})
    /\ QueueOnly

Current(p) == approver[p].step

\* The loop of approveAll takes the next of its steps.
BeginFirst(p, steps) ==
    \E s \in steps : (\A q \in steps : s <= q) /\ BeginStep(p, s, steps \ {s})

\* approveAll: the loop runs over the steps that were pending when the
\* button was drawn.
ApproveAll ==
    /\ ApproveAllUsed
    /\ \E p \in Approver : FreeApprover(p) /\ BeginFirst(p, Pending)
    /\ QueueOnly

\* The command succeeded, its effect is verified.
Dispatched(p) ==
    /\ approver[p].pc = "dispatch"
    /\ approver' = [approver EXCEPT ![p].pc = "verify"]
    /\ UNCHANGED <<tasks, pendingTaskResume, queue>>
    /\ QueueOnly

\* Mutant: a command that throws leaves the step as it is.
StepFailsSilently(p) ==
    /\ approver[p].pc \in {"dispatch", "verify"}
    /\ approver' = [approver EXCEPT ![p].pc = "audit"]
    /\ UNCHANGED <<tasks, pendingTaskResume, queue>>
    /\ QueueOnly

\* The command failed or threw, or its effect was not found.
StepFails(p) ==
    /\ approver[p].pc \in {"dispatch", "verify"}
    /\ planQueue' = SetStep(Current(p), "failed")
    /\ SyncTask(Current(p), "failed")
    /\ approver' = [approver EXCEPT ![p].pc = "audit"]
    /\ UNCHANGED ran
    /\ QueueOnly

StepSucceeds(p) ==
    /\ approver[p].pc = "verify"
    /\ planQueue' = SetStep(Current(p), "done")
    /\ SyncTask(Current(p), "complete")
    /\ approver' = [approver EXCEPT ![p].pc = "audit"]
    /\ UNCHANGED ran
    /\ QueueOnly

\* recordPlanAudit answers: the next step of the loop, if any.
Audited(p) ==
    /\ approver[p].pc = "audit"
    /\ \/ /\ approver[p].todo = {}
          /\ approver' = [approver EXCEPT ![p] = IdleApprover]
          /\ UNCHANGED <<tasks, pendingTaskResume, queue>>
       \/ BeginFirst(p, approver[p].todo)
    /\ QueueOnly

Reject(s) ==
    /\ Approvable(s)
    /\ planQueue' = [planQueue EXCEPT ![s].status = "removed"]
    /\ SyncTask(s, "failed")
    /\ UNCHANGED <<ran, approver>>
    /\ QueueOnly

\* clearPlanQueue
ClearQueue ==
    /\ \E s \in Step : InQueue(s)
    /\ planQueue' = [s \in Step |-> IF InQueue(s) THEN [planQueue[s] EXCEPT !.status = "removed"]
                                                  ELSE planQueue[s]]
    /\ UNCHANGED <<tasks, pendingTaskResume, ran, approver>>
    /\ QueueOnly

\* Mutant: the timer is not set.
NeverRejects(s) == FALSE /\ UNCHANGED vars

\* The 30 s timer of a step, set when it is queued, does nothing when it is no
\* longer pending: its task is not told.
AutoReject(s) ==
    /\ s \in Pending
    /\ planQueue' = SetStep(s, "rejected")
    /\ UNCHANGED <<tasks, pendingTaskResume, ran, approver>>
    /\ QueueOnly

---------------------------------------------------------------------------
(* The application. *)

\* The session is saved 600 ms after a change (what is saved after the last
\* restart is never read).
SaveSession ==
    /\ restarts < MaxRestarts
    /\ saved # taskCheckpoint
    /\ saved' = taskCheckpoint
    /\ UNCHANGED <<tasks, pendingTaskResume, queue, approver, requests, loop, bounds>>

\* The operator leaves the chat panel and comes back: AIChat is unmounted,
\* its state and its reference to the abort controller are lost.
SwitchPanel ==
    /\ switches < MaxSwitches
    /\ switches' = switches + 1
    /\ controller' = 0
    /\ isProcessing' = FALSE
    /\ request' = [r \in Request |-> [request[r] EXCEPT !.orphan =
                      request[r].pc \in {"planning", "loop", "verify", "closing"}]]
    /\ UNCHANGED <<tasks, pendingTaskResume, saved, queue, approver, lastRequest, loop, restarts>>

\* hydrateWorkspaceSession after a restart.
Restart ==
    /\ restarts < MaxRestarts
    /\ restarts' = restarts + 1
    /\ currentTask' = NoTask
    /\ taskCheckpoint' =
          IF saved = NoCheckpoint THEN NoCheckpoint
          ELSE [saved EXCEPT !.lifecycle = IF @ = "running" THEN "interrupted" ELSE @]
    /\ pendingTaskResume' = NoCheckpoint
    /\ planQueue' = [s \in Step |-> IF InQueue(s) THEN [planQueue[s] EXCEPT !.status = "removed"]
                                                  ELSE planQueue[s]]
    /\ approver' = [p \in Approver |-> IdleApprover]
    /\ request' = [r \in Request |->
          IF r <= lastRequest THEN [NewRequest EXCEPT !.pc = "done"] ELSE NewRequest]
    /\ loop' = [r \in Request |-> NoLoop]
    /\ controller' = 0
    /\ isProcessing' = FALSE
    /\ UNCHANGED <<saved, ran, lastRequest, switches>>

Next ==
    \/ Send \/ ResumeInterrupted \/ ResumePending \/ Stop \/ Abandon
    \/ \E r \in Request :
          \/ PlanAnswered(r) \/ LoopAnswers(r) \/ LoopThrows(r) \/ LoopTimesOut(r)
          \/ \E passed \in BOOLEAN : VerificationAnswered(r, passed)
          \/ EndRequest(r) \/ ClearTask(r)
          \/ ModelAnswers(r) \/ ToolsEnd(r) \/ QueueStep(r) \/ ZombieEnds(r)
    \/ \E s \in Step : Approve(s) \/ Reject(s) \/ AutoReject(s)
    \/ \E p \in Approver : Dispatched(p) \/ StepFails(p) \/ StepSucceeds(p) \/ Audited(p)
    \/ ApproveAll \/ ClearQueue
    \/ SaveSession \/ SwitchPanel \/ Restart

Spec == Init /\ [][Next]_vars

\* What the code bounds: planning, a loop and a verification have time-outs,
\* the closing calls are native and local, and timers fire.
FairSpec ==
    /\ Spec
    /\ \A r \in Request :
          /\ WF_vars(PlanAnswered(r)) /\ WF_vars(LoopTimesOut(r))
          /\ WF_vars(\E passed \in BOOLEAN : VerificationAnswered(r, passed))
          /\ WF_vars(EndRequest(r))
    /\ \A s \in Step : WF_vars(AutoReject(s))

---------------------------------------------------------------------------
(* Properties. *)

Serving(r) == request[r].pc \in {"planning", "loop", "verify"}

\* "Abort any stale in-flight request before starting fresh" (AIChat.tsx:290):
\* of the requests still served, only one is not aborted.
OneLiveRequest ==
    \A q, r \in Request :
        Serving(q) /\ ~request[q].aborted /\ Serving(r) /\ ~request[r].aborted => q = r

\* "Ensure task UI, checkpoints, and approvals all reflect the same state
\* machine" (docs/production-readiness-plan.md:119): the task the store shows
\* and the checkpoint it would restore are the same, and a task that is over
\* leaves no checkpoint.
TaskAndCheckpointAgree ==
    currentTask # NoTask /\ taskCheckpoint # NoCheckpoint =>
        /\ taskCheckpoint.task = currentTask
        /\ currentTask.status \in {"running", "awaiting_input"}

\* A step shown as executing is being executed: no outcome of a command, no
\* failure of a call and no click leaves it spinning.
ExecutingStepHasApprover ==
    \A s \in Step : planQueue[s].status = "executing" =>
        \E p \in Approver : approver[p].pc \in {"dispatch", "verify"} /\ Current(p) = s

\* The queue implements the gate: a command runs once, after it was asked
\* for, and never after it was refused.
Decision(s) ==
    CASE ran[s] = 1 -> "ran"
      [] ran[s] = 2 -> "ran again"
      [] OTHER -> CASE planQueue[s].status = "none" -> "none"
                    [] planQueue[s].status = "pending" -> "asked"
                    [] OTHER -> "refused"

Gate == INSTANCE ApprovalGate WITH
    Command <- Step, decision <- [s \in Step |-> Decision(s)]

ImplementsApprovalGate == Gate!Spec

\* "Reject removes it without running" (PlanQueue.tsx:5): a step that is
\* rejected, by the operator or by its timer, is not executed afterwards.
RejectedStepsDoNotRun ==
    [][\A s \in Step : ran'[s] > ran[s] => planQueue[s].status = "pending"]_vars

\* Every request is over at some time: no model call holds the chat for ever.
RequestsEnd == \A r \in Request : request[r].pc = "planning" ~> request[r].pc = "done"

\* "Auto-reject after 30s" (AgentLoop.ts:1402): no step waits for ever.
StepsAreDecided == \A s \in Step : s \in Pending ~> s \notin Pending
=============================================================================
