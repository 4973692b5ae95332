----------------------------- MODULE AgentProofs -----------------------------
(***************************************************************************)
(* Theorems about the chat agent.  The tasks and the plan queue, for every *)
(* number of requests, subtasks, attempts, queued commands, executions,    *)
(* restarts and panel switches; and the conversation: what the model is    *)
(* sent pairs calls with their results, and live queries stay within their *)
(* budget, for any budget, number of rounds, attempts, calls and loops.    *)
(***************************************************************************)
EXTENDS AgentTasks, AgentLoop, FiniteSetTheorems, TLAPS

---------------------------------------------------------------------------
(* Tasks and checkpoints. *)

LEMMA NewTaskType ==
    ASSUME NEW id \in TaskId, NEW n \in 1..MaxSubtasks
    PROVE  NewTask(id, n) \in Task /\ NewTask(id, n).status = "running"
<1>1. [i \in 1..n |-> IF i = 1 THEN "planning" ELSE "pending"] \in Subtasks
  BY DEF Subtasks, SubTaskStatus
<1>2. 1 \in 1..MaxSubtasks
  BY TaskStateAssumption
<1> QED
  BY <1>1, <1>2 DEF NewTask, Task, TaskStatus

LEMMA ResumedTaskType ==
    ASSUME NEW t \in Task
    PROVE  ResumedTask(t) \in Task /\ ResumedTask(t).status = "running"
<1> DEFINE again == [i \in DOMAIN t.subtasks |->
                        IF i < t.currentIndex THEN "complete"
                        ELSE IF i = t.currentIndex THEN "planning" ELSE "pending"]
<1>1. PICK n \in 1..MaxSubtasks : t.subtasks \in [1..n -> SubTaskStatus]
  BY DEF Task, Subtasks
<1>2. again \in [1..n -> SubTaskStatus]
  BY <1>1 DEF SubTaskStatus
<1>3. again \in Subtasks
  BY <1>2 DEF Subtasks
<1> HIDE DEF again
<1>4. [t EXCEPT !.status = "running", !.subtasks = again] \in Task
  BY <1>3 DEF Task, TaskStatus
<1>5. [t EXCEPT !.status = "running", !.subtasks = again].status = "running"
  BY DEF Task
<1> QED
  BY <1>4, <1>5 DEF ResumedTask, again

LEMMA UpdateSubtaskType ==
    ASSUME NEW t \in Task, NEW i, NEW status \in SubTaskStatus
    PROVE  /\ UpdateSubtask(t, i, status) \in Task
           /\ UpdateSubtask(t, i, status).status = t.status
           /\ UpdateSubtask(t, i, status).id = t.id
<1>1. PICK n \in 1..MaxSubtasks : t.subtasks \in [1..n -> SubTaskStatus]
  BY DEF Task, Subtasks
<1>2. CASE i \in DOMAIN t.subtasks
  <2>1. [t.subtasks EXCEPT ![i] = status] \in Subtasks
    BY <1>1 DEF Subtasks
  <2>2. DOMAIN t.subtasks = 1..n
    BY <1>1
  <2>3. i \in 1..MaxSubtasks
    BY <1>2, <2>2, TaskStateAssumption
  <2> QED
    BY <1>2, <2>1, <2>3 DEF UpdateSubtask, Task
<1> QED
  BY <1>2 DEF UpdateSubtask

LEMMA FinalizeTaskType ==
    ASSUME NEW t \in Task, NEW status \in TaskStatus
    PROVE  /\ FinalizeTask(t, status) \in Task
           /\ FinalizeTask(t, status).status = status
           /\ FinalizeTask(t, status).id = t.id
BY DEF FinalizeTask, Task

LEMMA CheckpointType ==
    ASSUME NEW t \in Task
    PROVE  CreateTaskCheckpoint(t) \in Checkpoint /\ CreateTaskCheckpoint(t).task = t
BY DEF CreateTaskCheckpoint, Checkpoint

---------------------------------------------------------------------------
(* The invariant: the types, that a request whose engine is at work has a  *)
(* running task, and that an execution has a step.                         *)

TasksOK == /\ currentTask \in Task \cup {NoTask}
           /\ taskCheckpoint \in Checkpoint \cup {NoCheckpoint}
           /\ pendingTaskResume \in Checkpoint \cup {NoCheckpoint}
           /\ saved \in Checkpoint \cup {NoCheckpoint}
           /\ TaskAndCheckpointAgree

QueueOK == /\ planQueue \in [Step -> StepRec]
           /\ ran \in [Step -> 0..2]

ApproversOK == /\ approver \in [Approver -> ApproverRec]
               /\ \A p \in Approver : approver[p].pc # "idle" => approver[p].step \in Step

EngineOK(q)  == q.pc \in {"loop", "verify"} => q.task \in Task /\ q.task.status = "running"

RequestsOK == /\ request \in [Request -> RequestRec]
              /\ \A r \in Request : EngineOK(request[r])
              /\ loop \in [Request -> LoopRec]

CountsOK == /\ lastRequest \in 0..MaxRequests
            /\ controller \in 0..MaxRequests
            /\ isProcessing \in BOOLEAN
            /\ restarts \in 0..MaxRestarts
            /\ switches \in 0..MaxSwitches

Typed == TasksOK /\ QueueOK /\ ApproversOK /\ RequestsOK /\ CountsOK

LEMMA ConstantsAreNat ==
    /\ MaxRequests \in Nat \ {0} /\ MaxSubtasks \in Nat \ {0} /\ MaxAutoRetries \in Nat
    /\ MaxApprovers \in Nat /\ MaxSteps \in Nat /\ MaxRestarts \in Nat /\ MaxSwitches \in Nat
BY AgentTasksAssumption, TaskStateAssumption

LEMMA NewRequestType ==
    /\ NewRequest \in RequestRec
    /\ EngineOK(NewRequest)
    /\ NoLoop \in LoopRec
    /\ NoStep \in StepRec
    /\ IdleApprover \in ApproverRec
<1>1. NewRequest \in RequestRec
  BY ConstantsAreNat DEF NewRequest, RequestRec
<1>2. NoLoop \in LoopRec
  BY ConstantsAreNat DEF NoLoop, LoopRec
<1>3. NoStep \in StepRec
  BY ConstantsAreNat DEF NoStep, StepRec
<1> QED
  BY <1>1, <1>2, <1>3 DEF EngineOK, NewRequest, IdleApprover, ApproverRec

LEMMA TypedInit == Init => Typed
<1> SUFFICES ASSUME Init PROVE Typed
  OBVIOUS
<1> USE ConstantsAreNat, NewRequestType
<1>1. TasksOK
  BY DEF Init, TasksOK, TaskAndCheckpointAgree
<1>2. QueueOK
  BY DEF Init, QueueOK
<1>3. ApproversOK
  BY DEF Init, ApproversOK, IdleApprover
<1>4. RequestsOK
  BY DEF Init, RequestsOK
<1>5. CountsOK
  <2>1. isProcessing \in BOOLEAN
    BY DEF Init
  <2>2. /\ lastRequest = 0 /\ controller = 0 /\ restarts = 0 /\ switches = 0
        /\ 0 \in 0..MaxRequests /\ 0 \in 0..MaxRestarts /\ 0 \in 0..MaxSwitches
    BY DEF Init
  <2> QED
    BY <2>1, <2>2 DEF CountsOK
<1> QED
  BY <1>1, <1>2, <1>3, <1>4, <1>5 DEF Typed

---------------------------------------------------------------------------
(* What the engine writes. *)

LEMMA PublishOK ==
    ASSUME TasksOK, NEW t \in Task, t.status = "running", Publish(t),
           UNCHANGED <<pendingTaskResume, saved>>
    PROVE  TasksOK'
<1>1. CreateTaskCheckpoint(t) \in Checkpoint /\ CreateTaskCheckpoint(t).task = t
  BY CheckpointType
<1> QED
  BY <1>1 DEF TasksOK, Publish, TaskAndCheckpointAgree

LEMMA StartAttemptOK ==
    ASSUME Typed, NEW r \in Request, NEW task \in Task, task.status = "running", NEW i,
           NEW planned \in BOOLEAN, NEW try \in 0..MaxAutoRetries,
           StartAttempt(r, task, i, planned, try), EngineOnly
    PROVE  Typed'
<1> DEFINE t == UpdateSubtask(task, i, "executing")
           q == [request[r] EXCEPT !.pc = "loop", !.resume = NoTask, !.task = t,
                                   !.planned = planned, !.attempt = try]
           l == [pc |-> "model", task |-> t.id, subtask |-> t.currentIndex, queued |-> FALSE]
<1>1. t \in Task /\ t.status = "running"
  BY UpdateSubtaskType DEF SubTaskStatus
<1> HIDE DEF t
<1>2. /\ Publish(t)
      /\ request' = [request EXCEPT ![r] = q]
      /\ loop' = [loop EXCEPT ![r] = l]
  BY DEF StartAttempt, t
<1>3. q \in RequestRec /\ EngineOK(q)
  <2>1. request[r] \in RequestRec
    BY DEF Typed, RequestsOK
  <2>2. q \in RequestRec
    BY <1>1, <2>1 DEF RequestRec
  <2>3. q.task = t
    BY <2>1 DEF RequestRec
  <2> HIDE DEF q
  <2> QED
    BY <1>1, <2>2, <2>3 DEF EngineOK
<1>4. l \in LoopRec
  BY <1>1 DEF LoopRec, Task
<1> HIDE DEF q, l
<1>5. TasksOK'
  BY <1>1, <1>2, PublishOK DEF Typed, EngineOnly
<1>6. RequestsOK'
  BY <1>2, <1>3, <1>4 DEF Typed, RequestsOK
<1> QED
  BY <1>5, <1>6 DEF Typed, EngineOnly, QueueOK, ApproversOK, CountsOK, queue, bounds

LEMMA EndEngineOK ==
    ASSUME Typed, NEW r \in Request, NEW t \in Task, t.status # "running",
           EndEngine(r, t), EngineOnly, loop' \in [Request -> LoopRec]
    PROVE  Typed'
<1> DEFINE q == [NewRequest EXCEPT !.pc = "closing", !.clears = t.id,
                                   !.aborted = request[r].aborted, !.orphan = request[r].orphan]
<1>1. q \in RequestRec /\ EngineOK(q)
  BY NewRequestType DEF Typed, RequestsOK, RequestRec, EngineOK, Task
<1>2. request' = [request EXCEPT ![r] = q]
  BY DEF EndEngine
<1> HIDE DEF q
<1>3. TasksOK'
  BY CheckpointType DEF Typed, TasksOK, EndEngine, EngineOnly, TaskAndCheckpointAgree
<1>4. RequestsOK'
  BY <1>1, <1>2 DEF Typed, RequestsOK
<1> QED
  BY <1>3, <1>4 DEF Typed, EngineOnly, QueueOK, ApproversOK, CountsOK, queue, bounds

---------------------------------------------------------------------------
(* Requests. *)

LEMMA AbortedOK ==
    ASSUME RequestsOK, CountsOK
    PROVE  /\ Aborted(request) \in [Request -> RequestRec]
           /\ \A r \in Request : EngineOK(Aborted(request)[r])
<1>1. \A r \in Request : Abortable(r) \in BOOLEAN
  BY DEF Abortable
<1>2. CASE controller = 0
  BY <1>2 DEF Aborted, RequestsOK
<1>3. CASE controller # 0
  <2>1. controller \in Request
    BY <1>3 DEF CountsOK, Request, TaskId
  <2> DEFINE q == [request[controller] EXCEPT !.aborted = @ \/ Abortable(controller)]
  <2>2. q \in RequestRec /\ EngineOK(q)
    BY <1>1, <2>1 DEF RequestsOK, RequestRec, EngineOK
  <2>3. Aborted(request) = [request EXCEPT ![controller] = q]
    BY <1>3 DEF Aborted
  <2> HIDE DEF q
  <2> QED
    BY <2>1, <2>2, <2>3 DEF RequestsOK
<1> QED
  BY <1>2, <1>3

LEMMA StartRequestOK ==
    ASSUME Typed, NEW resume \in Task \cup {NoTask}, StartRequest(resume),
           pendingTaskResume' \in Checkpoint \cup {NoCheckpoint}
    PROVE  Typed'
<1> DEFINE q == [NewRequest EXCEPT !.pc = "planning", !.resume = resume]
<1>1. lastRequest' = lastRequest + 1 /\ lastRequest' \in 1..MaxRequests
  BY ConstantsAreNat DEF StartRequest, Typed, CountsOK
<1>2. request' = [Aborted(request) EXCEPT ![lastRequest'] = q]
  BY DEF StartRequest
<1>3. q \in RequestRec /\ EngineOK(q)
  BY NewRequestType DEF RequestRec, EngineOK
<1> HIDE DEF q
<1>4. RequestsOK'
  BY <1>1, <1>2, <1>3, AbortedOK DEF Typed, RequestsOK, StartRequest, Request, TaskId
<1>5. TasksOK'
  BY DEF Typed, TasksOK, StartRequest, TaskAndCheckpointAgree
<1>6. CountsOK'
  <2>1. isProcessing' \in BOOLEAN /\ UNCHANGED bounds /\ controller' = lastRequest'
    BY DEF StartRequest
  <2>2. lastRequest' \in 0..MaxRequests
    BY <1>1, ConstantsAreNat
  <2> QED
    BY <2>1, <2>2 DEF Typed, CountsOK, bounds
<1> QED
  BY <1>4, <1>5, <1>6 DEF Typed, StartRequest, QueueOK, ApproversOK, queue

LEMMA SendOK == ASSUME Typed, Send PROVE Typed'
BY StartRequestOK DEF Send, Typed, TasksOK

LEMMA ResumeInterruptedOK == ASSUME Typed, ResumeInterrupted PROVE Typed'
<1>1. taskCheckpoint.task \in Task
  BY DEF ResumeInterrupted, Typed, TasksOK, Checkpoint
<1> QED
  BY <1>1, StartRequestOK DEF ResumeInterrupted, Typed, TasksOK

LEMMA ResumePendingOK == ASSUME Typed, ResumePending PROVE Typed'
<1>1. pendingTaskResume.task \in Task
  BY DEF ResumePending, Typed, TasksOK, Checkpoint
<1> QED
  BY <1>1, StartRequestOK DEF ResumePending, Typed, TasksOK

LEMMA StopOK == ASSUME Typed, Stop PROVE Typed'
<1>1. RequestsOK'
  BY AbortedOK DEF Stop, Typed, RequestsOK
<1> QED
  BY <1>1 DEF Stop, Typed, TasksOK, QueueOK, ApproversOK, CountsOK, TaskAndCheckpointAgree,
              tasks, queue, bounds

LEMMA AbandonOK == ASSUME Typed, Abandon PROVE Typed'
<1>1. /\ taskCheckpoint' \in Checkpoint
      /\ taskCheckpoint # NoCheckpoint
      /\ taskCheckpoint'.task = taskCheckpoint.task
  BY DEF Abandon, Typed, TasksOK, Checkpoint
<1>2. TasksOK'
  BY <1>1 DEF Abandon, Typed, TasksOK, TaskAndCheckpointAgree
<1> QED
  BY <1>2 DEF Abandon, Typed, QueueOK, ApproversOK, RequestsOK, CountsOK, queue, requests, bounds

LEMMA EndRequestOK == ASSUME Typed, NEW r \in Request, EndRequest(r) PROVE Typed'
<1> DEFINE q == [request[r] EXCEPT !.pc = "done", !.orphan = FALSE]
<1>1. q \in RequestRec /\ EngineOK(q)
  BY DEF Typed, RequestsOK, RequestRec, EngineOK
<1>2. request' = [request EXCEPT ![r] = q]
  BY DEF EndRequest, Typed, RequestsOK, RequestRec
<1> HIDE DEF q
<1>3. RequestsOK'
  BY <1>1, <1>2 DEF EndRequest, Typed, RequestsOK
<1>4. isProcessing' \in BOOLEAN
  BY DEF EndRequest
<1> QED
  BY <1>3, <1>4 DEF EndRequest, Typed, TasksOK, QueueOK, ApproversOK, CountsOK,
                    TaskAndCheckpointAgree, tasks, queue, bounds

---------------------------------------------------------------------------
(* The task engine. *)

LEMMA PlanAnsweredOK == ASSUME Typed, NEW r \in Request, PlanAnswered(r) PROVE Typed'
<1>1. PICK n \in {1} \cup PlanSizes :
          StartAttempt(r, IF request[r].resume = NoTask THEN NewTask(r, n)
                          ELSE ResumedTask(request[r].resume), 1, n # 1, 0)
  BY DEF PlanAnswered
<1> DEFINE task == IF request[r].resume = NoTask THEN NewTask(r, n)
                   ELSE ResumedTask(request[r].resume)
<1>2. n \in 1..MaxSubtasks
  BY AgentTasksAssumption, TaskStateAssumption
<1>3. request[r].resume \in Task \cup {NoTask}
  BY DEF Typed, RequestsOK, RequestRec
<1>4. task \in Task /\ task.status = "running"
  BY <1>2, <1>3, NewTaskType, ResumedTaskType DEF Request
<1>5. 0 \in 0..MaxAutoRetries /\ (n # 1) \in BOOLEAN
  BY ConstantsAreNat
<1> HIDE DEF task
<1>6. StartAttempt(r, task, 1, n # 1, 0)
  BY <1>1 DEF task
<1> QED
  BY <1>4, <1>5, <1>6, StartAttemptOK DEF PlanAnswered

LEMMA VerifiedOK ==
    ASSUME Typed, NEW r \in Request, request[r].pc \in {"loop", "verify"},
           NEW passed \in BOOLEAN, Verified(r, passed), EngineOnly
    PROVE  Typed'
<1> DEFINE task == request[r].task
           i    == task.currentIndex
           done == UpdateSubtask(task, i, "complete")
<1>1. task \in Task /\ task.status = "running"
  BY DEF Typed, RequestsOK, EngineOK
<1>2. done \in Task /\ done.status = "running"
  BY <1>1, UpdateSubtaskType DEF SubTaskStatus
<1>3. request[r].attempt \in 0..MaxAutoRetries
  BY DEF Typed, RequestsOK, RequestRec
<1>4. loop \in [Request -> LoopRec] /\ [loop EXCEPT ![r] = NoLoop] \in [Request -> LoopRec]
  BY NewRequestType DEF Typed, RequestsOK
<1> HIDE DEF task, i, done
<1>5. CASE passed /\ HasSubtaskAfter(task, i)
  <2>1. StartAttempt(r, done, i + 1, TRUE, 0)
    BY <1>5 DEF Verified, task, i, done
  <2>2. 0 \in 0..MaxAutoRetries
    BY ConstantsAreNat
  <2> QED
    BY <1>2, <2>1, <2>2, StartAttemptOK
<1>6. CASE passed /\ ~HasSubtaskAfter(task, i)
  <2>1. EndEngine(r, FinalizeTask(done, "complete")) /\ loop' = [loop EXCEPT ![r] = NoLoop]
    BY <1>6 DEF Verified, task, i, done
  <2>2. FinalizeTask(done, "complete") \in Task /\ FinalizeTask(done, "complete").status # "running"
    BY <1>2, FinalizeTaskType DEF TaskStatus
  <2> QED
    BY <1>4, <2>1, <2>2, EndEngineOK
<1>7. CASE ~passed /\ request[r].attempt < MaxAutoRetries
  <2>1. StartAttempt(r, task, i, TRUE, request[r].attempt + 1)
    BY <1>7 DEF Verified, task, i, done
  <2>2. request[r].attempt + 1 \in 0..MaxAutoRetries
    BY <1>3, <1>7, ConstantsAreNat
  <2> QED
    BY <1>1, <2>1, <2>2, StartAttemptOK
<1>8. CASE ~passed /\ ~(request[r].attempt < MaxAutoRetries)
  <2> DEFINE failed == UpdateSubtask(task, i, "failed")
  <2>1. EndEngine(r, FinalizeTask(failed, "failed")) /\ loop' = [loop EXCEPT ![r] = NoLoop]
    BY <1>8 DEF Verified, task, i, done
  <2>2. failed \in Task
    BY <1>1, UpdateSubtaskType DEF SubTaskStatus
  <2>3. FinalizeTask(failed, "failed") \in Task /\ FinalizeTask(failed, "failed").status # "running"
    BY <2>2, FinalizeTaskType DEF TaskStatus
  <2> QED
    BY <1>4, <2>1, <2>3, EndEngineOK
<1> QED
  BY <1>5, <1>6, <1>7, <1>8

LEMMA VerificationAnsweredOK ==
    ASSUME Typed, NEW r \in Request, NEW passed \in BOOLEAN, VerificationAnswered(r, passed)
    PROVE  Typed'
BY VerifiedOK DEF VerificationAnswered

LEMMA LoopAnswersOK == ASSUME Typed, NEW r \in Request, LoopAnswers(r) PROVE Typed'
<1> DEFINE task == request[r].task
           i    == task.currentIndex
           over == loop' = [loop EXCEPT ![r] = NoLoop]
           asks == UpdateSubtask(task, i, "awaiting_approval")
           done == UpdateSubtask(task, 1, "complete")
           next == UpdateSubtask(task, i, "verifying")
<1>1. EngineOnly /\ request[r].pc = "loop"
  BY DEF LoopAnswers
<1>2. task \in Task /\ task.status = "running"
  BY <1>1 DEF Typed, RequestsOK, EngineOK
<1>3. /\ asks \in Task /\ done \in Task
      /\ next \in Task /\ next.status = "running"
  BY <1>2, UpdateSubtaskType DEF SubTaskStatus
<1>4. [loop EXCEPT ![r] = NoLoop] \in [Request -> LoopRec]
  BY NewRequestType DEF Typed, RequestsOK
<1>5. \/ EndEngine(r, FinalizeTask(asks, "awaiting_input")) /\ over
      \/ EndEngine(r, FinalizeTask(done, "complete")) /\ over
      \/ Publish(next) /\ request' = [request EXCEPT ![r].pc = "verify", ![r].task = next] /\ over
      \/ Verified(r, TRUE)
  BY DEF LoopAnswers, Publish
<1> HIDE DEF task, asks, done, next
<1>6. CASE EndEngine(r, FinalizeTask(asks, "awaiting_input")) /\ over
  <2>1. /\ FinalizeTask(asks, "awaiting_input") \in Task
        /\ FinalizeTask(asks, "awaiting_input").status # "running"
    BY <1>3, FinalizeTaskType DEF TaskStatus
  <2> QED
    BY <1>1, <1>4, <1>6, <2>1, EndEngineOK
<1>7. CASE EndEngine(r, FinalizeTask(done, "complete")) /\ over
  <2>1. FinalizeTask(done, "complete") \in Task /\ FinalizeTask(done, "complete").status # "running"
    BY <1>3, FinalizeTaskType DEF TaskStatus
  <2> QED
    BY <1>1, <1>4, <1>7, <2>1, EndEngineOK
<1>8. CASE /\ Publish(next)
           /\ request' = [request EXCEPT ![r].pc = "verify", ![r].task = next]
           /\ over
  <2> DEFINE q == [request[r] EXCEPT !.pc = "verify", !.task = next]
  <2>1. q \in RequestRec /\ EngineOK(q)
    BY <1>3 DEF Typed, RequestsOK, RequestRec, EngineOK
  <2>2. request' = [request EXCEPT ![r] = q]
    BY <1>8 DEF Typed, RequestsOK, RequestRec
  <2> HIDE DEF q
  <2>3. RequestsOK'
    BY <1>4, <1>8, <2>1, <2>2 DEF Typed, RequestsOK
  <2>4. TasksOK'
    BY <1>1, <1>3, <1>8, PublishOK DEF Typed, EngineOnly
  <2> QED
    BY <1>1, <2>3, <2>4 DEF Typed, EngineOnly, QueueOK, ApproversOK, CountsOK, queue, bounds
<1>9. CASE Verified(r, TRUE)
  BY <1>1, <1>9, VerifiedOK
<1> QED
  BY <1>5, <1>6, <1>7, <1>8, <1>9

LEMMA FailEngineOK ==
    ASSUME Typed, NEW r \in Request, request[r].pc = "loop", FailEngine(r), EngineOnly,
           loop' \in [Request -> LoopRec]
    PROVE  Typed'
<1> DEFINE task   == request[r].task
           failed == UpdateSubtask(task, task.currentIndex, "failed")
<1>1. task \in Task
  BY DEF Typed, RequestsOK, EngineOK
<1>2. failed \in Task
  BY <1>1, UpdateSubtaskType DEF SubTaskStatus
<1>3. FinalizeTask(failed, "failed") \in Task /\ FinalizeTask(failed, "failed").status # "running"
  BY <1>2, FinalizeTaskType DEF TaskStatus
<1>4. EndEngine(r, FinalizeTask(failed, "failed"))
  BY DEF FailEngine
<1> QED
  BY <1>3, <1>4, EndEngineOK

LEMMA LoopFailsOK ==
    ASSUME Typed, NEW r \in Request, LoopThrows(r) \/ LoopTimesOut(r) PROVE Typed'
<1>1. loop' \in [Request -> LoopRec]
  BY NewRequestType DEF LoopThrows, LoopTimesOut, Typed, RequestsOK
<1> QED
  BY <1>1, FailEngineOK DEF LoopThrows, LoopTimesOut

LEMMA ClearTaskOK == ASSUME Typed, NEW r \in Request, ClearTask(r) PROVE Typed'
<1> DEFINE q == [request[r] EXCEPT !.clears = 0]
<1>1. q \in RequestRec /\ EngineOK(q)
  BY DEF Typed, RequestsOK, RequestRec, EngineOK
<1>2. request' = [request EXCEPT ![r] = q]
  BY DEF ClearTask, Typed, RequestsOK, RequestRec
<1> HIDE DEF q
<1>3. RequestsOK'
  BY <1>1, <1>2 DEF ClearTask, Typed, RequestsOK
<1>4. TasksOK'
  <2>1. currentTask' \in {currentTask, NoTask}
    BY DEF ClearTask
  <2> QED
    BY <2>1 DEF ClearTask, Typed, TasksOK, TaskAndCheckpointAgree
<1> QED
  BY <1>3, <1>4 DEF ClearTask, Typed, QueueOK, ApproversOK, CountsOK, queue, bounds

---------------------------------------------------------------------------
(* The agent loop. *)

LEMMA LoopTurnsOK ==
    ASSUME Typed, NEW r \in Request, ModelAnswers(r) \/ ToolsEnd(r) \/ ZombieEnds(r)
    PROVE  Typed'
<1>1. loop' \in [Request -> LoopRec]
  BY NewRequestType DEF ModelAnswers, ToolsEnd, ZombieEnds, Typed, RequestsOK, LoopRec
<1>2. UNCHANGED queue /\ LoopOnly
  BY DEF ModelAnswers, ToolsEnd, ZombieEnds
<1> QED
  BY <1>1, <1>2 DEF Typed, TasksOK, QueueOK, ApproversOK, RequestsOK, CountsOK, LoopOnly,
                    TaskAndCheckpointAgree, tasks, queue, requests, bounds

LEMMA QueueStepOK == ASSUME Typed, NEW r \in Request, QueueStep(r) PROVE Typed'
<1> DEFINE step == [status |-> "pending", task |-> loop[r].task, subtask |-> loop[r].subtask]
<1>1. PICK s \in Step : planQueue' = [planQueue EXCEPT ![s] = step]
  BY DEF QueueStep
<1>2. step \in StepRec
  BY DEF Typed, RequestsOK, LoopRec, StepRec
<1> HIDE DEF step
<1>3. QueueOK'
  BY <1>1, <1>2 DEF QueueStep, Typed, QueueOK
<1>4. RequestsOK'
  BY DEF QueueStep, LoopOnly, Typed, RequestsOK, LoopRec, requests
<1>5. UNCHANGED <<tasks, pendingTaskResume, saved, approver, requests, bounds>>
  BY DEF QueueStep, LoopOnly
<1> QED
  BY <1>3, <1>4, <1>5 DEF Typed, TasksOK, ApproversOK, CountsOK, TaskAndCheckpointAgree,
                          tasks, requests, bounds

---------------------------------------------------------------------------
(* The plan queue. *)

LEMMA SetStepOK ==
    ASSUME QueueOK, NEW s \in Step, NEW status \in {"executing", "done", "failed", "rejected"}
    PROVE  SetStep(s, status) \in [Step -> StepRec]
BY DEF SetStep, QueueOK, StepRec

LEMMA SyncTaskOK ==
    ASSUME TasksOK, NEW s \in Step, NEW next \in {"executing", "complete", "failed"},
           SyncTask(s, next), UNCHANGED saved
    PROVE  TasksOK'
<1> DEFINE task == IF currentTask # NoTask THEN currentTask
                   ELSE IF taskCheckpoint # NoCheckpoint THEN taskCheckpoint.task ELSE NoTask
           i == planQueue[s].subtask
           to(subtask, status) == [UpdateSubtask(task, i, subtask) EXCEPT !.status = status]
           resumed == UpdateSubtask(to("complete", "running"), i + 1, "planning")
<1>1. CASE UNCHANGED <<tasks, pendingTaskResume>>
  BY <1>1 DEF TasksOK, TaskAndCheckpointAgree, tasks
<1>2. CASE task # NoTask
  <2>1. task \in Task
    BY <1>2 DEF TasksOK, Checkpoint
  <2> HIDE DEF task
  <2>2. \A subtask \in SubTaskStatus, status \in TaskStatus :
            to(subtask, status) \in Task /\ to(subtask, status).status = status
    <3> TAKE subtask \in SubTaskStatus, status \in TaskStatus
    <3>1. UpdateSubtask(task, i, subtask) \in Task
      BY <2>1, UpdateSubtaskType
    <3> QED
      BY <3>1 DEF Task
  <2> HIDE DEF to, i
  <2>3. resumed \in Task /\ resumed.status = "running"
    <3>1. to("complete", "running") \in Task /\ to("complete", "running").status = "running"
      BY <2>2 DEF SubTaskStatus, TaskStatus
    <3> QED
      BY <3>1, UpdateSubtaskType DEF SubTaskStatus
  <2> HIDE DEF resumed
  <2>4. \/ UNCHANGED <<tasks, pendingTaskResume>>
        \/ /\ currentTask' = to("executing", "running")
           /\ taskCheckpoint' = IF taskCheckpoint = NoCheckpoint THEN NoCheckpoint
                                ELSE CreateTaskCheckpoint(currentTask')
           /\ UNCHANGED pendingTaskResume
        \/ /\ currentTask' = resumed
           /\ IF taskCheckpoint = NoCheckpoint
              THEN UNCHANGED <<taskCheckpoint, pendingTaskResume>>
              ELSE /\ taskCheckpoint' = CreateTaskCheckpoint(resumed)
                   /\ pendingTaskResume' = taskCheckpoint'
        \/ /\ next \in {"complete", "failed"}
           /\ currentTask' = to(next, next)
           /\ taskCheckpoint' = NoCheckpoint
           /\ pendingTaskResume' = NoCheckpoint
    BY DEF SyncTask, task, i, to, resumed
  <2>5. \A t \in Task : CreateTaskCheckpoint(t) \in Checkpoint /\ CreateTaskCheckpoint(t).task = t
    BY CheckpointType
  <2>6. to("executing", "running") \in Task /\ to("executing", "running").status = "running"
    BY <2>2 DEF SubTaskStatus, TaskStatus
  <2>7. next \in {"complete", "failed"} => to(next, next) \in Task
    BY <2>2 DEF SubTaskStatus, TaskStatus
  <2> QED
    BY <1>1, <2>3, <2>4, <2>5, <2>6, <2>7 DEF TasksOK, TaskAndCheckpointAgree
<1> QED
  BY <1>1, <1>2 DEF SyncTask

\* What every action of the queue leaves alone.
LEMMA QueueOnlyOK ==
    ASSUME RequestsOK, CountsOK, QueueOnly PROVE RequestsOK' /\ CountsOK'
BY DEF RequestsOK, CountsOK, QueueOnly, requests, bounds

LEMMA BeginStepOK ==
    ASSUME Typed, NEW p \in Approver, NEW s \in Step, NEW todo \in SUBSET Step,
           BeginStep(p, s, todo), QueueOnly
    PROVE  Typed'
<1>1. TasksOK'
  BY SyncTaskOK DEF Typed, BeginStep, QueueOnly
<1>2. QueueOK'
  <2>1. \A n \in 0..2 : (IF n = 2 THEN 2 ELSE n + 1) \in 0..2
    OBVIOUS
  <2>2. ran' \in [Step -> 0..2]
    BY <2>1 DEF BeginStep, Typed, QueueOK
  <2> QED
    BY <2>2, SetStepOK DEF BeginStep, Typed, QueueOK
<1>3. ApproversOK'
  BY DEF BeginStep, Typed, ApproversOK, ApproverRec
<1> QED
  BY <1>1, <1>2, <1>3, QueueOnlyOK DEF Typed

LEMMA BeginFirstOK ==
    ASSUME Typed, NEW p \in Approver, NEW steps \in SUBSET Step, BeginFirst(p, steps), QueueOnly
    PROVE  Typed'
<1>1. PICK s \in steps : BeginStep(p, s, steps \ {s})
  BY DEF BeginFirst
<1> QED
  BY <1>1, BeginStepOK

LEMMA ApproveOK == ASSUME Typed, NEW s \in Step, Approve(s) PROVE Typed'
BY BeginStepOK DEF Approve

LEMMA ApproveAllOK == ASSUME Typed, ApproveAll PROVE Typed'
BY BeginFirstOK DEF ApproveAll, Pending

LEMMA DispatchedOK == ASSUME Typed, NEW p \in Approver, Dispatched(p) PROVE Typed'
<1>1. ApproversOK'
  BY DEF Dispatched, Typed, ApproversOK, ApproverRec
<1>2. UNCHANGED <<tasks, pendingTaskResume, queue>> /\ QueueOnly
  BY DEF Dispatched
<1> QED
  BY <1>1, <1>2, QueueOnlyOK DEF Typed, TasksOK, QueueOK, TaskAndCheckpointAgree, QueueOnly,
                                 tasks, queue

LEMMA StepEndsOK ==
    ASSUME Typed, NEW p \in Approver, StepFails(p) \/ StepSucceeds(p) PROVE Typed'
<1>1. Current(p) \in Step
  BY DEF StepFails, StepSucceeds, Current, Typed, ApproversOK
<1>2. ApproversOK'
  BY DEF StepFails, StepSucceeds, Typed, ApproversOK, ApproverRec
<1>3. TasksOK'
  BY <1>1, SyncTaskOK DEF StepFails, StepSucceeds, QueueOnly, Typed
<1>4. QueueOK'
  BY <1>1, SetStepOK DEF StepFails, StepSucceeds, Typed, QueueOK
<1> QED
  BY <1>2, <1>3, <1>4, QueueOnlyOK DEF Typed, StepFails, StepSucceeds

LEMMA AuditedOK == ASSUME Typed, NEW p \in Approver, Audited(p) PROVE Typed'
<1>1. QueueOnly
  BY DEF Audited
<1>2. CASE BeginFirst(p, approver[p].todo)
  <2>1. approver[p].todo \in SUBSET Step
    BY DEF Typed, ApproversOK, ApproverRec
  <2> QED
    BY <1>1, <1>2, <2>1, BeginFirstOK
<1>3. CASE /\ approver' = [approver EXCEPT ![p] = IdleApprover]
           /\ UNCHANGED <<tasks, pendingTaskResume, queue>>
  <2>1. ApproversOK'
    BY <1>3, NewRequestType DEF Typed, ApproversOK, IdleApprover
  <2> QED
    BY <1>1, <1>3, <2>1, QueueOnlyOK DEF Typed, TasksOK, QueueOK, TaskAndCheckpointAgree,
                                         QueueOnly, tasks, queue
<1> QED
  BY <1>2, <1>3 DEF Audited

LEMMA RejectOK == ASSUME Typed, NEW s \in Step, Reject(s) PROVE Typed'
<1>1. TasksOK'
  BY SyncTaskOK DEF Reject, QueueOnly, Typed
<1>2. QueueOK'
  BY DEF Reject, Typed, QueueOK, StepRec
<1> QED
  BY <1>1, <1>2, QueueOnlyOK DEF Reject, Typed, ApproversOK

LEMMA QueueLeftOK ==
    ASSUME Typed, ClearQueue \/ (\E s \in Step : AutoReject(s)) PROVE Typed'
<1>1. QueueOK'
  <2>1. CASE ClearQueue
    BY <2>1 DEF ClearQueue, Typed, QueueOK, StepRec
  <2>2. CASE \E s \in Step : AutoReject(s)
    BY <2>2, SetStepOK DEF AutoReject, Typed, QueueOK
  <2> QED
    BY <2>1, <2>2
<1>2. UNCHANGED <<tasks, pendingTaskResume, approver>> /\ QueueOnly
  BY DEF ClearQueue, AutoReject
<1> QED
  BY <1>1, <1>2, QueueOnlyOK DEF Typed, TasksOK, ApproversOK, TaskAndCheckpointAgree, QueueOnly,
                                 tasks

---------------------------------------------------------------------------
(* The application. *)

LEMMA SaveSessionOK == ASSUME Typed, SaveSession PROVE Typed'
BY DEF SaveSession, Typed, TasksOK, QueueOK, ApproversOK, RequestsOK, CountsOK,
       TaskAndCheckpointAgree, tasks, queue, requests, bounds

LEMMA SwitchPanelOK == ASSUME Typed, SwitchPanel PROVE Typed'
<1>1. RequestsOK'
  <2> DEFINE left(r) == [request[r] EXCEPT !.orphan =
                            request[r].pc \in {"planning", "loop", "verify", "closing"}]
  <2>1. \A r \in Request : left(r) \in RequestRec /\ EngineOK(left(r))
    <3> TAKE r \in Request
    <3>1. request[r] \in RequestRec /\ EngineOK(request[r])
      BY DEF Typed, RequestsOK
    <3>2. (request[r].pc \in {"planning", "loop", "verify", "closing"}) \in BOOLEAN
      OBVIOUS
    <3> QED
      BY <3>1, <3>2 DEF RequestRec, EngineOK
  <2>2. request' = [r \in Request |-> left(r)] /\ UNCHANGED loop
    BY DEF SwitchPanel
  <2> HIDE DEF left
  <2> QED
    BY <2>1, <2>2 DEF Typed, RequestsOK
<1>2. CountsOK'
  <2>1. switches' \in 0..MaxSwitches /\ controller' \in 0..MaxRequests
    BY ConstantsAreNat DEF SwitchPanel, Typed, CountsOK
  <2>2. isProcessing' \in BOOLEAN /\ UNCHANGED <<lastRequest, restarts>>
    BY DEF SwitchPanel
  <2> QED
    BY <2>1, <2>2 DEF Typed, CountsOK
<1> QED
  BY <1>1, <1>2 DEF SwitchPanel, Typed, TasksOK, QueueOK, ApproversOK, TaskAndCheckpointAgree,
                    tasks, queue

LEMMA RestartOK == ASSUME Typed, Restart PROVE Typed'
<1>1. RequestsOK'
  <2>1. /\ [NewRequest EXCEPT !.pc = "done"] \in RequestRec
        /\ EngineOK([NewRequest EXCEPT !.pc = "done"])
    BY NewRequestType DEF RequestRec, EngineOK
  <2> QED
    BY <2>1, NewRequestType DEF Restart, RequestsOK
<1>2. CountsOK'
  <2>1. restarts' \in 0..MaxRestarts /\ controller' \in 0..MaxRequests
    BY ConstantsAreNat DEF Restart, Typed, CountsOK
  <2>2. isProcessing' \in BOOLEAN /\ UNCHANGED <<lastRequest, switches>>
    BY DEF Restart
  <2> QED
    BY <2>1, <2>2 DEF Typed, CountsOK
<1>3. TasksOK'
  BY DEF Restart, Typed, TasksOK, Checkpoint, TaskAndCheckpointAgree
<1>4. QueueOK'
  BY DEF Restart, Typed, QueueOK, StepRec
<1>5. ApproversOK'
  BY NewRequestType DEF Restart, ApproversOK, IdleApprover
<1> QED
  BY <1>1, <1>2, <1>3, <1>4, <1>5 DEF Typed

LEMMA TypedStep == Typed /\ [Next]_vars => Typed'
<1> SUFFICES ASSUME Typed, [Next]_vars PROVE Typed'
  OBVIOUS
<1>1. CASE Send \/ ResumeInterrupted \/ ResumePending \/ Stop \/ Abandon
  BY <1>1, SendOK, ResumeInterruptedOK, ResumePendingOK, StopOK, AbandonOK
<1>2. CASE \E r \in Request :
          \/ PlanAnswered(r) \/ LoopAnswers(r) \/ LoopThrows(r) \/ LoopTimesOut(r)
          \/ \E passed \in BOOLEAN : VerificationAnswered(r, passed)
          \/ EndRequest(r) \/ ClearTask(r)
  BY <1>2, PlanAnsweredOK, LoopAnswersOK, LoopFailsOK, VerificationAnsweredOK, EndRequestOK,
     ClearTaskOK
<1>3. CASE \E r \in Request : ModelAnswers(r) \/ ToolsEnd(r) \/ QueueStep(r) \/ ZombieEnds(r)
  BY <1>3, LoopTurnsOK, QueueStepOK
<1>4. CASE \E s \in Step : Approve(s) \/ Reject(s) \/ AutoReject(s)
  BY <1>4, ApproveOK, RejectOK, QueueLeftOK
<1>5. CASE \E p \in Approver : Dispatched(p) \/ StepFails(p) \/ StepSucceeds(p) \/ Audited(p)
  BY <1>5, DispatchedOK, StepEndsOK, AuditedOK
<1>6. CASE ApproveAll \/ ClearQueue \/ SaveSession \/ SwitchPanel \/ Restart
  BY <1>6, ApproveAllOK, QueueLeftOK, SaveSessionOK, SwitchPanelOK, RestartOK
<1>7. CASE UNCHANGED vars
  BY <1>7 DEF Typed, TasksOK, QueueOK, ApproversOK, RequestsOK, CountsOK, TaskAndCheckpointAgree,
              vars, tasks, queue, requests, bounds
<1> QED
  BY <1>1, <1>2, <1>3, <1>4, <1>5, <1>6, <1>7 DEF Next

LEMMA TypedAlways == Spec => []Typed
BY TypedInit, TypedStep, PTL DEF Spec

\* Attempts stay within MAX_AUTO_RETRIES, and every status, index and
\* reference the store keeps is one that TaskState.ts declares.
THEOREM TypeCorrect == Spec => []TypeOK
<1>1. Typed => TypeOK
  BY DEF Typed, TypeOK, TasksOK, QueueOK, ApproversOK, RequestsOK, CountsOK
<1> QED
  BY <1>1, TypedAlways, PTL

\* The engine, the approvals, an abort, a timer and a restart write the shown
\* task and its checkpoint from different copies: the two stay the same, and
\* no checkpoint is left of a task that is over.
THEOREM TasksAgree == Spec => []TaskAndCheckpointAgree
<1>1. Typed => TaskAndCheckpointAgree
  BY DEF Typed, TasksOK
<1> QED
  BY <1>1, TypedAlways, PTL

---------------------------------------------------------------------------
(* The spinner of a step. *)

LEMMA ExecutingStep ==
    Typed /\ ExecutingStepHasApprover /\ [Next]_vars => ExecutingStepHasApprover'
<1> SUFFICES ASSUME Typed, ExecutingStepHasApprover, [Next]_vars,
                    NEW s \in Step, planQueue'[s].status = "executing"
             PROVE  \E p \in Approver :
                        approver'[p].pc \in {"dispatch", "verify"} /\ approver'[p].step = s
  BY DEF ExecutingStepHasApprover, Current
<1> USE DEF Typed, QueueOK, ApproversOK
<1>1. planQueue[s].status = "executing" =>
          \E p \in Approver : approver[p].pc \in {"dispatch", "verify"} /\ approver[p].step = s
  BY DEF ExecutingStepHasApprover, Current
<1>2. CASE UNCHANGED <<planQueue, approver>>
  BY <1>1, <1>2
<1>3. ASSUME NEW p \in Approver, NEW t \in Step, NEW todo, BeginStep(p, t, todo),
             approver[p].pc \in {"idle", "audit"}
      PROVE  \E q \in Approver :
                 approver'[q].pc \in {"dispatch", "verify"} /\ approver'[q].step = s
  <2>1. /\ approver'[p].pc = "dispatch" /\ approver'[p].step = t
        /\ \A q \in Approver \ {p} : approver'[q] = approver[q]
    BY <1>3 DEF BeginStep
  <2>2. CASE s = t
    BY <2>1, <2>2
  <2>3. CASE s # t
    <3>1. planQueue'[s] = planQueue[s]
      BY <1>3, <2>3 DEF BeginStep, SetStep
    <3>2. PICK q \in Approver : approver[q].pc \in {"dispatch", "verify"} /\ approver[q].step = s
      BY <1>1, <3>1
    <3> QED
      BY <1>3, <2>1, <3>2
  <2> QED
    BY <2>2, <2>3
<1>4. CASE \E t \in Step : Approve(t)
  <2>1. PICK t \in Step, p \in Approver : FreeApprover(p) /\ BeginStep(p, t, {})
    BY <1>4 DEF Approve
  <2> QED
    BY <1>3, <2>1 DEF FreeApprover
<1>5. CASE ApproveAll
  <2>1. PICK p \in Approver, t \in Pending : FreeApprover(p) /\ BeginStep(p, t, Pending \ {t})
    BY <1>5 DEF ApproveAll, BeginFirst
  <2> QED
    BY <1>3, <2>1 DEF FreeApprover, Pending
<1>6. ASSUME NEW p \in Approver, Audited(p)
      PROVE  \E q \in Approver :
                 approver'[q].pc \in {"dispatch", "verify"} /\ approver'[q].step = s
  <2>1. CASE BeginFirst(p, approver[p].todo)
    <3>1. PICK t \in approver[p].todo : BeginStep(p, t, approver[p].todo \ {t})
      BY <2>1 DEF BeginFirst
    <3>2. t \in Step
      BY DEF ApproverRec
    <3> QED
      BY <1>3, <1>6, <3>1, <3>2 DEF Audited
  <2>2. CASE approver' = [approver EXCEPT ![p] = IdleApprover] /\ UNCHANGED queue
    BY <1>1, <1>6, <2>2 DEF Audited, queue
  <2> QED
    BY <1>6, <2>1, <2>2 DEF Audited
<1>7. ASSUME NEW p \in Approver, Dispatched(p)
      PROVE  \E q \in Approver :
                 approver'[q].pc \in {"dispatch", "verify"} /\ approver'[q].step = s
  <2>1. /\ planQueue' = planQueue
        /\ \A q \in Approver : /\ approver'[q].step = approver[q].step
                               /\ approver[q].pc \in {"dispatch", "verify"} =>
                                      approver'[q].pc \in {"dispatch", "verify"}
    BY <1>7 DEF Dispatched, queue, ApproverRec
  <2> QED
    BY <1>1, <2>1
<1>8. ASSUME NEW p \in Approver, StepFails(p) \/ StepSucceeds(p)
      PROVE  \E q \in Approver :
                 approver'[q].pc \in {"dispatch", "verify"} /\ approver'[q].step = s
  <2>1. Current(p) \in Step /\ Current(p) = approver[p].step
    BY <1>8 DEF StepFails, StepSucceeds, Current
  <2>2. PICK status \in {"failed", "done"} : planQueue' = SetStep(Current(p), status)
    BY <1>8 DEF StepFails, StepSucceeds
  <2>3. s # Current(p) /\ planQueue'[s] = planQueue[s]
    BY <2>1, <2>2 DEF SetStep, StepRec
  <2>4. PICK q \in Approver : approver[q].pc \in {"dispatch", "verify"} /\ approver[q].step = s
    BY <1>1, <2>3
  <2>5. approver'[q] = approver[q]
    BY <1>8, <2>1, <2>3, <2>4 DEF StepFails, StepSucceeds
  <2> QED
    BY <2>4, <2>5
<1>9. CASE \E t \in Step : Reject(t) \/ AutoReject(t)
  BY <1>1, <1>9 DEF Reject, AutoReject, Approvable, SetStep, StepRec
<1>10. CASE ClearQueue \/ Restart
  <2>1. planQueue'[s].status # "executing"
    BY <1>10 DEF ClearQueue, Restart, InQueue, StepRec
  <2> QED
    BY <2>1
<1>11. ASSUME NEW r \in Request, QueueStep(r)
       PROVE  \E q \in Approver :
                  approver'[q].pc \in {"dispatch", "verify"} /\ approver'[q].step = s
  BY <1>1, <1>11 DEF QueueStep, LoopOnly
<1>12. CASE \/ Send \/ ResumeInterrupted \/ ResumePending \/ Stop \/ Abandon
            \/ SaveSession \/ SwitchPanel \/ UNCHANGED vars
  BY <1>2, <1>12 DEF Send, ResumeInterrupted, ResumePending, StartRequest, Stop, Abandon,
                     SaveSession, SwitchPanel, vars, queue
<1>13. CASE \E r \in Request :
          \/ PlanAnswered(r) \/ LoopAnswers(r) \/ LoopThrows(r) \/ LoopTimesOut(r)
          \/ \E passed \in BOOLEAN : VerificationAnswered(r, passed)
          \/ EndRequest(r) \/ ClearTask(r)
          \/ ModelAnswers(r) \/ ToolsEnd(r) \/ ZombieEnds(r)
  BY <1>2, <1>13 DEF PlanAnswered, LoopAnswers, LoopThrows, LoopTimesOut, VerificationAnswered,
                     EndRequest, ClearTask, ModelAnswers, ToolsEnd, ZombieEnds, EngineOnly,
                     LoopOnly, queue
<1> QED
  BY <1>4, <1>5, <1>6, <1>7, <1>8, <1>9, <1>10, <1>11, <1>12, <1>13 DEF Next

\* No interleaving of executions, clicks, timers, clears and restarts leaves a
\* step of the plan queue executing with nobody who will end it.
THEOREM ExecutingSteps == Spec => []ExecutingStepHasApprover
<1>1. Init => ExecutingStepHasApprover
  BY DEF Init, ExecutingStepHasApprover, NoStep
<1> QED
  BY <1>1, TypedAlways, ExecutingStep, PTL DEF Spec

---------------------------------------------------------------------------
(* One live request, as long as the chat panel stays. *)

Live(r) == Serving(r) /\ ~request[r].aborted

LiveIsControlled == switches = 0 => \A r \in Request : Live(r) => r = controller

Advances(r) == /\ request'[r].aborted = request[r].aborted
               /\ \A q \in Request \ {r} : request'[q] = request[q]

\* The engine of r goes on or ends, and no other request changes.
LEMMA EngineLive ==
    ASSUME Typed, NEW r \in Request,
           \/ PlanAnswered(r) \/ LoopAnswers(r) \/ LoopThrows(r) \/ LoopTimesOut(r)
           \/ \E passed \in BOOLEAN : VerificationAnswered(r, passed)
    PROVE  /\ UNCHANGED <<controller, switches>>
           /\ \A q \in Request : Live(q)' => Live(q)
<1>1. UNCHANGED <<controller, switches>>
  BY DEF PlanAnswered, LoopAnswers, LoopThrows, LoopTimesOut, VerificationAnswered, EngineOnly,
         bounds
<1>2. request[r].pc \in {"planning", "loop", "verify"}
  BY DEF PlanAnswered, LoopAnswers, LoopThrows, LoopTimesOut, VerificationAnswered
<1>3. Advances(r)
  <2>0. request \in [Request -> RequestRec]
    BY DEF Typed, RequestsOK
  <2>1. ASSUME NEW task, NEW i, NEW planned, NEW try, StartAttempt(r, task, i, planned, try)
        PROVE  Advances(r)
    BY <2>0, <2>1 DEF StartAttempt, Advances, RequestRec
  <2>2. ASSUME NEW t, EndEngine(r, t)
        PROVE  Advances(r)
    BY <2>0, <2>2 DEF EndEngine, Advances, NewRequest
  <2>3. ASSUME NEW passed \in BOOLEAN, Verified(r, passed)
        PROVE  Advances(r)
    BY <2>1, <2>2, <2>3 DEF Verified
  <2>4. CASE PlanAnswered(r)
    BY <2>1, <2>4 DEF PlanAnswered
  <2>5. CASE LoopAnswers(r)
    <3>1. \/ \E t : EndEngine(r, t)
          \/ request' = [request EXCEPT ![r].pc = "verify", ![r].task = currentTask']
          \/ Verified(r, TRUE)
      BY <2>5 DEF LoopAnswers
    <3>2. CASE request' = [request EXCEPT ![r].pc = "verify", ![r].task = currentTask']
      BY <2>0, <3>2 DEF Advances, RequestRec
    <3> QED
      BY <2>2, <2>3, <3>1, <3>2
  <2>6. CASE LoopThrows(r) \/ LoopTimesOut(r)
    BY <2>2, <2>6 DEF LoopThrows, LoopTimesOut, FailEngine
  <2>7. CASE \E passed \in BOOLEAN : VerificationAnswered(r, passed)
    BY <2>3, <2>7 DEF VerificationAnswered
  <2> QED
    BY <2>4, <2>5, <2>6, <2>7
<1> QED
  BY <1>1, <1>2, <1>3 DEF Live, Serving, Advances

LEMMA StartRequestLive ==
    ASSUME Typed, LiveIsControlled, NEW resume, StartRequest(resume)
    PROVE  LiveIsControlled'
<1> SUFFICES ASSUME switches' = 0, NEW r \in Request, Live(r)' PROVE r = controller'
  BY DEF LiveIsControlled
<1>1. switches = 0 /\ controller' = lastRequest'
  BY DEF StartRequest, bounds
<1>2. lastRequest' \in Request
  BY ConstantsAreNat DEF StartRequest, Typed, CountsOK, Request, TaskId
<1> SUFFICES ASSUME r # lastRequest' PROVE FALSE
  BY <1>1
<1>3. request'[r] = Aborted(request)[r]
  BY <1>2, AbortedOK DEF StartRequest, Typed
<1>4. Live(r)
  BY <1>3 DEF Aborted, Live, Serving, Typed, RequestsOK, RequestRec
<1>5. r = controller /\ controller # 0
  BY <1>1, <1>4 DEF LiveIsControlled, Request, TaskId
<1>6. Aborted(request)[r].aborted
  BY <1>4, <1>5 DEF Aborted, Abortable, Live, Serving, Typed, RequestsOK, RequestRec
<1> QED
  BY <1>3, <1>6 DEF Live

LEMMA LiveStep == Typed /\ LiveIsControlled /\ [Next]_vars => LiveIsControlled'
<1> SUFFICES ASSUME Typed, LiveIsControlled, [Next]_vars PROVE LiveIsControlled'
  OBVIOUS
<1>1. CASE Send \/ ResumeInterrupted \/ ResumePending
  BY <1>1, StartRequestLive DEF Send, ResumeInterrupted, ResumePending
<1>2. ASSUME UNCHANGED <<controller, switches>>, \A r \in Request : Live(r)' => Live(r)
      PROVE  LiveIsControlled'
  BY <1>2 DEF LiveIsControlled
<1>3. CASE Stop
  <2>1. \A r \in Request : Live(r)' => Live(r)
    BY <1>3 DEF Stop, Aborted, Live, Serving, Typed, RequestsOK, RequestRec
  <2> QED
    BY <1>2, <1>3, <2>1 DEF Stop, bounds
<1>4. CASE \E r \in Request :
          \/ PlanAnswered(r) \/ LoopAnswers(r) \/ LoopThrows(r) \/ LoopTimesOut(r)
          \/ \E passed \in BOOLEAN : VerificationAnswered(r, passed)
  BY <1>2, <1>4, EngineLive
<1>5. CASE \E r \in Request : EndRequest(r) \/ ClearTask(r)
  <2>1. \A r \in Request : Live(r)' => Live(r)
    BY <1>5 DEF EndRequest, ClearTask, Live, Serving, Typed, RequestsOK, RequestRec
  <2> QED
    BY <1>2, <1>5, <2>1 DEF EndRequest, ClearTask, bounds
<1>6. CASE UNCHANGED <<request, controller, switches>>
  BY <1>6 DEF LiveIsControlled, Live, Serving
<1>7. CASE SwitchPanel
  BY <1>7 DEF SwitchPanel, LiveIsControlled, Typed, CountsOK
<1>8. CASE Restart
  <2>1. \A r \in Request : request'[r].pc \in {"none", "done"}
    BY <1>8 DEF Restart, NewRequest
  <2> QED
    BY <2>1 DEF LiveIsControlled, Live, Serving
<1>9. CASE \/ Abandon
           \/ \E r \in Request : ModelAnswers(r) \/ ToolsEnd(r) \/ QueueStep(r) \/ ZombieEnds(r)
           \/ \E s \in Step : Approve(s) \/ Reject(s) \/ AutoReject(s)
           \/ \E p \in Approver : Dispatched(p) \/ StepFails(p) \/ StepSucceeds(p) \/ Audited(p)
           \/ ApproveAll \/ ClearQueue \/ SaveSession \/ UNCHANGED vars
  BY <1>6, <1>9 DEF Abandon, ModelAnswers, ToolsEnd, QueueStep, ZombieEnds, LoopOnly, Approve,
                    Reject, AutoReject, Dispatched, StepFails, StepSucceeds, Audited, ApproveAll,
                    ClearQueue, SaveSession, QueueOnly, vars, requests, bounds
<1> QED
  BY <1>1, <1>3, <1>4, <1>5, <1>7, <1>8, <1>9 DEF Next

\* Until the operator leaves the chat panel for the first time, a new request
\* finds the one before in abortControllerRef: at most one is live.
THEOREM OneLive == Spec => [](switches = 0 => OneLiveRequest)
<1>1. Init => LiveIsControlled
  BY DEF Init, LiveIsControlled, Live, Serving, NewRequest
<1>2. LiveIsControlled => (switches = 0 => OneLiveRequest)
  BY DEF LiveIsControlled, OneLiveRequest, Live
<1> QED
  BY <1>1, <1>2, TypedAlways, LiveStep, PTL DEF Spec

---------------------------------------------------------------------------
(* The approval gate, when the operator does not use Approve All.          *)

\* A command ran once if its step is being executed or was, and not at all if
\* it waits or was refused; no execution has further steps to go on with.
Ledger ==
    /\ \A s \in Step :
          /\ ran[s] \in {0, 1}
          /\ planQueue[s].status \in {"none", "pending", "rejected"} => ran[s] = 0
          /\ planQueue[s].status \in {"executing", "done", "failed"} => ran[s] = 1
    /\ \A p \in Approver :
          /\ approver[p].todo = {}
          /\ approver[p].pc # "idle" => ran[approver[p].step] = 1

GateStutters == \A s \in Step : Decision(s)' = Decision(s)

LEMMA QueueUnchanged ==
    ASSUME Typed, Ledger, UNCHANGED queue,
           \A p \in Approver : \/ approver'[p] = IdleApprover
                               \/ /\ approver'[p].todo = approver[p].todo
                                  /\ approver'[p].step = approver[p].step
                                  /\ approver[p].pc # "idle"
                               \/ approver'[p] = approver[p]
    PROVE  Ledger' /\ GateStutters
BY DEF Ledger, GateStutters, Decision, queue, IdleApprover

LEMMA GateApprove ==
    ASSUME Typed, Ledger, NEW s \in Step, Approve(s)
    PROVE  Ledger' /\ Gate!Run(s)
<1>1. PICK p \in Approver : BeginStep(p, s, {})
  BY DEF Approve
<1>2. planQueue[s].status = "pending" /\ ran[s] = 0
  BY DEF Approve, Approvable, Pending, Ledger
<1>3. /\ planQueue' = [planQueue EXCEPT ![s].status = "executing"]
      /\ ran' = [ran EXCEPT ![s] = 1]
      /\ approver' = [approver EXCEPT ![p] = [pc |-> "dispatch", step |-> s, todo |-> {}]]
  BY <1>1, <1>2 DEF BeginStep, SetStep
<1>4. /\ planQueue'[s].status = "executing" /\ ran'[s] = 1
      /\ \A t \in Step \ {s} : planQueue'[t] = planQueue[t] /\ ran'[t] = ran[t]
  BY <1>3 DEF Typed, QueueOK, StepRec
<1>5. Ledger'
  <2>1. \A t \in Step :
          /\ ran'[t] \in {0, 1}
          /\ planQueue'[t].status \in {"none", "pending", "rejected"} => ran'[t] = 0
          /\ planQueue'[t].status \in {"executing", "done", "failed"} => ran'[t] = 1
    BY <1>4 DEF Ledger
  <2>2. ASSUME NEW q \in Approver
        PROVE  approver'[q].todo = {} /\ (approver'[q].pc # "idle" => ran'[approver'[q].step] = 1)
    <3>1. CASE q = p
      BY <1>3, <1>4, <3>1 DEF Typed, ApproversOK
    <3>2. CASE q # p
      <4>1. approver'[q] = approver[q]
        BY <1>3, <3>2
      <4> QED
        BY <1>4, <4>1 DEF Ledger, Typed, ApproversOK
    <3> QED
      BY <3>1, <3>2
  <2> QED
    BY <2>1, <2>2 DEF Ledger
<1>6. /\ Decision(s) = "asked" /\ Decision(s)' = "ran"
      /\ \A t \in Step \ {s} : Decision(t)' = Decision(t)
  <2>1. Decision(s) = "asked"
    BY <1>2 DEF Decision
  <2>2. Decision(s)' = "ran"
    BY <1>4 DEF Decision
  <2>3. \A t \in Step \ {s} : Decision(t)' = Decision(t)
    BY <1>4 DEF Decision
  <2> QED
    BY <2>1, <2>2, <2>3
<1> QED
  BY <1>5, <1>6 DEF Gate!Run, Gate!Decide

LEMMA GatePropose ==
    ASSUME Typed, Ledger, NEW r \in Request, QueueStep(r)
    PROVE  Ledger' /\ \E s \in Step : Gate!Propose(s)
<1> DEFINE step == [status |-> "pending", task |-> loop[r].task, subtask |-> loop[r].subtask]
<1>1. PICK s \in Step : planQueue[s].status = "none" /\ planQueue' = [planQueue EXCEPT ![s] = step]
  BY DEF QueueStep
<1>2. /\ planQueue'[s].status = "pending"
      /\ \A t \in Step \ {s} : planQueue'[t] = planQueue[t]
      /\ UNCHANGED <<ran, approver>>
  BY <1>1 DEF QueueStep, LoopOnly, Typed, QueueOK
<1>3. ran[s] = 0
  BY <1>1 DEF Ledger
<1>4. Ledger'
  BY <1>2, <1>3 DEF Ledger
<1>5. /\ Decision(s) = "none" /\ Decision(s)' = "asked"
      /\ \A t \in Step \ {s} : Decision(t)' = Decision(t)
  BY <1>1, <1>2, <1>3 DEF Decision
<1>6. Gate!Propose(s)
  BY <1>5 DEF Gate!Propose, Gate!Decide
<1> QED
  BY <1>4, <1>6

LEMMA GateStepEnds ==
    ASSUME Typed, Ledger, NEW p \in Approver, StepFails(p) \/ StepSucceeds(p)
    PROVE  Ledger' /\ GateStutters
<1>1. PICK s \in Step : s = approver[p].step /\ ran[s] = 1 /\ Current(p) = s
  BY DEF StepFails, StepSucceeds, Current, Typed, ApproversOK, Ledger
<1>2. PICK status \in {"failed", "done"} : planQueue' = SetStep(s, status)
  BY <1>1 DEF StepFails, StepSucceeds
<1>3. /\ planQueue'[s].status \in {"failed", "done", "removed"}
      /\ \A t \in Step \ {s} : planQueue'[t] = planQueue[t]
      /\ UNCHANGED ran
  <2>1. planQueue \in [Step -> StepRec] /\ UNCHANGED ran
    BY DEF Typed, QueueOK, StepFails, StepSucceeds
  <2>2. \A t \in Step \ {s} : planQueue'[t] = planQueue[t]
    BY <1>2, <2>1 DEF SetStep
  <2>3. planQueue'[s].status \in {"failed", "done", "removed"}
    BY <1>2, <2>1 DEF SetStep, StepRec
  <2> QED
    BY <2>1, <2>2, <2>3
<1>4. \A q \in Approver : /\ approver'[q].todo = approver[q].todo
                          /\ approver'[q].step = approver[q].step
                          /\ approver[q].pc = "idle" => approver'[q].pc = "idle"
  BY DEF StepFails, StepSucceeds, Typed, ApproversOK, ApproverRec
<1>5. Ledger'
  BY <1>1, <1>3, <1>4 DEF Ledger
<1>6. GateStutters
  <2>1. Decision(s) = "ran" /\ Decision(s)' = "ran"
    BY <1>1, <1>3 DEF Decision
  <2>2. \A t \in Step \ {s} : Decision(t)' = Decision(t)
    BY <1>3 DEF Decision
  <2> QED
    BY <2>1, <2>2 DEF GateStutters
<1> QED
  BY <1>5, <1>6

\* Steps leave the queue, or are rejected: those that were pending are refused.
LEMMA GateRefuse ==
    ASSUME Typed, Ledger, NEW C \in SUBSET Pending, UNCHANGED ran,
           \A p \in Approver : approver'[p] \in {approver[p], IdleApprover},
           \A s \in C : planQueue'[s].status \in {"rejected", "removed"},
           \A s \in Step \ C :
              \/ planQueue'[s] = planQueue[s]
              \/ /\ planQueue[s].status \notin {"none", "pending"}
                 /\ planQueue'[s].status = "removed"
    PROVE  Ledger' /\ Gate!Refuse(C)
<1>1. C \subseteq Step /\ \A s \in C : planQueue[s].status = "pending" /\ ran[s] = 0
  BY DEF Pending, Ledger
<1>2. Ledger'
  BY <1>1 DEF Ledger, IdleApprover
<1>3. \A s \in C : Decision(s) = "asked" /\ Decision(s)' = "refused"
  BY <1>1 DEF Decision
<1>4. \A s \in Step \ C : Decision(s)' = Decision(s)
  BY DEF Decision, Ledger
<1> QED
  BY <1>1, <1>2, <1>3, <1>4 DEF Gate!Refuse

LEMMA GateStep ==
    ASSUME ~ApproveAllUsed
    PROVE  Typed /\ Ledger /\ [Next]_vars =>
               Ledger' /\ [Gate!Next]_[s \in Step |-> Decision(s)]
<1> SUFFICES ASSUME Typed, Ledger, [Next]_vars
             PROVE  Ledger' /\ [Gate!Next]_[s \in Step |-> Decision(s)]
  OBVIOUS
<1>1. GateStutters => UNCHANGED [s \in Step |-> Decision(s)]
  BY DEF GateStutters
<1>2. CASE UNCHANGED <<queue, approver>>
  BY <1>1, <1>2, QueueUnchanged
<1>3. CASE \E s \in Step : Approve(s)
  BY <1>3, GateApprove DEF Gate!Next
<1>4. CASE \E r \in Request : QueueStep(r)
  BY <1>4, GatePropose DEF Gate!Next
<1>5. CASE \E p \in Approver : StepFails(p) \/ StepSucceeds(p)
  BY <1>1, <1>5, GateStepEnds
<1>6. CASE \E p \in Approver : Dispatched(p)
  <2>1. PICK p \in Approver : Dispatched(p)
    BY <1>6
  <2>2. /\ approver[p].pc = "dispatch" /\ UNCHANGED queue
        /\ approver' = [approver EXCEPT ![p].pc = "verify"]
    BY <2>1 DEF Dispatched
  <2>3. /\ approver'[p].todo = approver[p].todo
        /\ approver'[p].step = approver[p].step
        /\ \A q \in Approver \ {p} : approver'[q] = approver[q]
    BY <2>2 DEF Typed, ApproversOK, ApproverRec
  <2> QED
    BY <1>1, <2>2, <2>3, QueueUnchanged
<1>7. CASE \E p \in Approver : Audited(p)
  <2>1. PICK p \in Approver : Audited(p)
    BY <1>7
  <2>2. UNCHANGED queue /\ approver' = [approver EXCEPT ![p] = IdleApprover]
    BY <2>1 DEF Audited, BeginFirst, Ledger
  <2>3. approver'[p] = IdleApprover /\ \A q \in Approver \ {p} : approver'[q] = approver[q]
    BY <2>2 DEF Typed, ApproversOK
  <2> QED
    BY <1>1, <2>2, <2>3, QueueUnchanged
<1>8. CASE \E s \in Step : Reject(s) \/ AutoReject(s)
  <2>1. PICK s \in Step : Reject(s) \/ AutoReject(s)
    BY <1>8
  <2>2. s \in Pending /\ {s} \in SUBSET Pending
    BY <2>1 DEF Reject, AutoReject, Approvable
  <2>3. /\ planQueue'[s].status \in {"rejected", "removed"}
        /\ \A t \in Step \ {s} : planQueue'[t] = planQueue[t]
    BY <2>1 DEF Reject, AutoReject, SetStep, Typed, QueueOK, StepRec
  <2>4. UNCHANGED <<ran, approver>>
    BY <2>1 DEF Reject, AutoReject
  <2>5. Ledger' /\ Gate!Refuse({s})
    BY <2>2, <2>3, <2>4, GateRefuse
  <2>6. {s} \in SUBSET Step
    OBVIOUS
  <2> QED
    BY <2>5, <2>6 DEF Gate!Next
<1>9. CASE ClearQueue \/ Restart
  <2>1. \A s \in Step :
            planQueue'[s] = IF InQueue(s) THEN [planQueue[s] EXCEPT !.status = "removed"]
                                          ELSE planQueue[s]
    BY <1>9 DEF ClearQueue, Restart
  <2>2. \A s \in Pending : planQueue'[s].status = "removed"
    BY <2>1 DEF Pending, InQueue, Typed, QueueOK, StepRec
  <2>3. \A s \in Step \ Pending :
            \/ planQueue'[s] = planQueue[s]
            \/ /\ planQueue[s].status \notin {"none", "pending"}
               /\ planQueue'[s].status = "removed"
    BY <2>1 DEF Pending, InQueue, Typed, QueueOK, StepRec
  <2>4. UNCHANGED ran /\ \A p \in Approver : approver'[p] \in {approver[p], IdleApprover}
    BY <1>9 DEF ClearQueue, Restart
  <2>5. Ledger' /\ Gate!Refuse(Pending)
    BY <2>2, <2>3, <2>4, GateRefuse
  <2>6. Pending \in SUBSET Step
    BY DEF Pending
  <2> QED
    BY <2>5, <2>6 DEF Gate!Next
<1>10. CASE \/ Send \/ ResumeInterrupted \/ ResumePending \/ Stop \/ Abandon
            \/ SaveSession \/ SwitchPanel \/ UNCHANGED vars
  BY <1>2, <1>10 DEF Send, ResumeInterrupted, ResumePending, StartRequest, Stop, Abandon,
                     SaveSession, SwitchPanel, vars, queue
<1>11. CASE \E r \in Request :
          \/ PlanAnswered(r) \/ LoopAnswers(r) \/ LoopThrows(r) \/ LoopTimesOut(r)
          \/ \E passed \in BOOLEAN : VerificationAnswered(r, passed)
          \/ EndRequest(r) \/ ClearTask(r)
          \/ ModelAnswers(r) \/ ToolsEnd(r) \/ ZombieEnds(r)
  BY <1>2, <1>11 DEF PlanAnswered, LoopAnswers, LoopThrows, LoopTimesOut, VerificationAnswered,
                     EndRequest, ClearTask, ModelAnswers, ToolsEnd, ZombieEnds, EngineOnly,
                     LoopOnly, queue
<1> QED
  BY <1>3, <1>4, <1>5, <1>6, <1>7, <1>8, <1>9, <1>10, <1>11 DEF Next, ApproveAll

\* Without Approve All the plan queue implements the gate, whatever else is
\* interleaved: a command runs at most once, after it was asked for, and never
\* after it was rejected, timed out, cleared or lost in a restart.
THEOREM GateImplemented == ~ApproveAllUsed => (Spec => ImplementsApprovalGate)
<1> SUFFICES ASSUME ~ApproveAllUsed PROVE Spec => ImplementsApprovalGate
  OBVIOUS
<1>1. Init => Ledger /\ Gate!Init
  BY DEF Init, Ledger, Gate!Init, Decision, NoStep, IdleApprover
<1>2. Typed /\ Ledger /\ [Next]_vars => Ledger' /\ [Gate!Next]_[s \in Step |-> Decision(s)]
  BY GateStep
<1> QED
  BY <1>1, <1>2, TypedAlways, PTL DEF Spec, ImplementsApprovalGate, Gate!Spec

-----------------------------------------------------------------------------
(* The conversation. *)

\* While calls are open the last turn is their answer.
CallsOpen ==
    \E turns \in Seq(Turn) : Paired(turns) /\ working = Append(turns, Answer(answers, TRUE))

\* As long as nothing parted calls from their results.
TalkPaired ==
    upset = {} =>
        /\ chat \in Seq(Turn) /\ Paired(chat)
        /\ history \in Seq(Turn) /\ Paired(history)
        /\ phase # "tools" => working \in Seq(Turn) /\ Paired(working)
        /\ phase = "tools" => CallsOpen

\* Between two requests there is only the chat, so that clearing it leaves nothing that
\* is not paired.
IdleIsEmpty == phase = "idle" => history = << >> /\ working = << >>

PInv == answers \in Nat /\ IdleIsEmpty /\ TalkPaired

-----------------------------------------------------------------------------
\* Turns and pairs.

\* The three kinds of turns are turns.
LEMMA TurnTypes ==
    ASSUME NEW n \in Nat, NEW size \in Nat, NEW called \in BOOLEAN
    PROVE  UserTurn \in Turn /\ Answer(n, called) \in Turn /\ Results(n, size) \in Turn
  BY DEF Turn, UserTurn, Answer, Results

\* An answer without calls is a plain turn.
LEMMA PlainAnswer ==
    ASSUME NEW n \in Nat
    PROVE  /\ Answer(n, FALSE) \in Turn
           /\ ~Answer(n, FALSE).calls /\ Answer(n, FALSE).role # "results"
  BY DEF Turn, Answer

\* What a sequence with one more turn holds.
LEMMA AppendFacts ==
    ASSUME NEW turns \in Seq(Turn), NEW turn \in Turn
    PROVE  /\ Append(turns, turn) \in Seq(Turn)
           /\ Len(turns) \in Nat /\ Len(Append(turns, turn)) = Len(turns) + 1
           /\ Append(turns, turn)[Len(turns) + 1] = turn
           /\ \A k \in 1 .. Len(turns) : Append(turns, turn)[k] = turns[k]
  OBVIOUS

\* A conversation without turns is paired.
LEMMA EmptyPaired == << >> \in Seq(Turn) /\ Paired(<< >>)
  BY DEF Paired

\* A turn that neither calls nor brings results keeps the pairs.
LEMMA PlainTurn ==
    ASSUME NEW turns \in Seq(Turn), Paired(turns), NEW turn \in Turn,
           ~turn.calls, turn.role # "results"
    PROVE  Append(turns, turn) \in Seq(Turn) /\ Paired(Append(turns, turn))
  <1> DEFINE longer == Append(turns, turn)
  <1>1. /\ longer \in Seq(Turn) /\ Len(longer) = Len(turns) + 1
        /\ longer[Len(longer)] = turn
        /\ \A k \in 1 .. Len(turns) : longer[k] = turns[k]
    OBVIOUS
  <1>2. ASSUME NEW k \in DOMAIN longer
        PROVE  /\ longer[k].calls => /\ k < Len(longer)
                                     /\ longer[k + 1].role = "results"
                                     /\ longer[k + 1].of = longer[k].of
               /\ longer[k].role = "results" => /\ k > 1 /\ longer[k - 1].calls
                                                /\ longer[k - 1].of = longer[k].of
    <2>1. CASE k = Len(longer)
      BY <1>1, <2>1
    <2>2. CASE k # Len(longer)
      <3>1. k \in DOMAIN turns /\ longer[k] = turns[k]
        BY <1>1, <2>2
      <3>2. longer[k].calls => k < Len(turns) /\ longer[k + 1] = turns[k + 1]
        BY <1>1, <3>1 DEF Paired
      <3>3. longer[k].role = "results" => k > 1 /\ longer[k - 1] = turns[k - 1]
        BY <1>1, <3>1 DEF Paired
      <3>4. QED
        BY <1>1, <3>1, <3>2, <3>3 DEF Paired
    <2>3. QED
      BY <2>1, <2>2
  <1>3. QED
    BY <1>1, <1>2 DEF Paired

\* So does an answer with its results.
LEMMA AnsweredCalls ==
    ASSUME NEW turns \in Seq(Turn), Paired(turns), NEW n \in Nat, NEW size \in Nat
    PROVE  LET longer == Append(Append(turns, Answer(n, TRUE)), Results(n, size))
           IN  longer \in Seq(Turn) /\ Paired(longer)
  <1> DEFINE asked == Append(turns, Answer(n, TRUE))
             longer == Append(asked, Results(n, size))
  <1>1. Answer(n, TRUE) \in Turn /\ Results(n, size) \in Turn
    BY TurnTypes
  <1>2. /\ asked \in Seq(Turn)
        /\ Len(turns) \in Nat /\ Len(asked) = Len(turns) + 1
        /\ asked[Len(turns) + 1] = Answer(n, TRUE)
        /\ \A k \in 1 .. Len(turns) : asked[k] = turns[k]
    BY <1>1, AppendFacts
  <1>3. /\ longer \in Seq(Turn) /\ Len(longer) = Len(asked) + 1
        /\ longer[Len(asked) + 1] = Results(n, size)
        /\ \A k \in 1 .. Len(asked) : longer[k] = asked[k]
    BY <1>1, <1>2, AppendFacts
  <1> HIDE DEF asked, longer
  <1>4. /\ longer \in Seq(Turn) /\ Len(longer) = Len(turns) + 2
        /\ longer[Len(turns) + 2] = Results(n, size)
        /\ \A k \in 1 .. Len(turns) : longer[k] = turns[k]
    BY <1>2, <1>3
  <1>5. longer[Len(turns) + 1] = Answer(n, TRUE)
    <2>1. Len(turns) + 1 \in 1 .. Len(asked)
      BY <1>2
    <2>2. QED
      BY <1>2, <1>3, <2>1
  <1>6. ASSUME NEW k \in DOMAIN longer
        PROVE  /\ longer[k].calls => /\ k < Len(longer)
                                     /\ longer[k + 1].role = "results"
                                     /\ longer[k + 1].of = longer[k].of
               /\ longer[k].role = "results" => /\ k > 1 /\ longer[k - 1].calls
                                                /\ longer[k - 1].of = longer[k].of
    <2>1. CASE k \in 1 .. Len(turns)
      <3>1. longer[k].calls => k < Len(turns) /\ longer[k + 1] = turns[k + 1]
        BY <1>4, <1>5, <2>1 DEF Paired
      <3>2. longer[k].role = "results" => k > 1 /\ longer[k - 1] = turns[k - 1]
        BY <1>4, <1>5, <2>1 DEF Paired
      <3>3. QED
        BY <1>4, <1>5, <2>1, <3>1, <3>2 DEF Paired
    <2>2. CASE k = Len(turns) + 1
      BY <1>4, <1>5, <2>2 DEF Answer, Results
    <2>3. CASE k = Len(turns) + 2
      BY <1>4, <1>5, <2>3 DEF Answer, Results
    <2>4. QED
      BY <1>4, <2>1, <2>2, <2>3
  <1>7. Paired(longer)
    BY <1>6 DEF Paired
  <1>8. QED
    BY <1>4, <1>7 DEF longer, asked

-----------------------------------------------------------------------------
\* Loops start and return.

\* A loop starts from a paired history and the message of the user.
LEMMA LoopStarts ==
    ASSUME NEW turns, NEW n \in Nat, upset = {} => turns \in Seq(Turn) /\ Paired(turns),
           StartLoop(turns, n)
    PROVE  /\ answers' \in Nat /\ phase' \in {"model", "engine"}
           /\ upset' = {} => upset = {} /\ working' \in Seq(Turn) /\ Paired(working')
  <1>1. UserTurn \in Turn /\ ~UserTurn.calls /\ UserTurn.role # "results"
    BY DEF UserTurn, Turn
  <1>2. CASE phase' = "model" /\ working' = Append(turns, UserTurn) /\ answers' = n
             /\ UNCHANGED upset
    BY <1>1, <1>2, PlainTurn
  <1>3. CASE LET asked == turns \o <<UserTurn, Answer(n + 1, FALSE)>>
             IN  /\ phase' = "engine"
                 /\ answers' = n + 1
                 /\ upset' = upset \cup (IF working' # asked THEN {"cut"} ELSE {})
    <2> DEFINE question == Append(turns, UserTurn)
               answer == Answer(n + 1, FALSE)
    <2>1. n + 1 \in Nat /\ answer \in Turn /\ ~answer.calls /\ answer.role # "results"
      <3>1. n + 1 \in Nat
        OBVIOUS
      <3>2. QED
        BY <3>1, PlainAnswer
    <2>0. /\ phase' = "engine" /\ answers' = n + 1
          /\ upset' = {} => upset = {} /\ working' = turns \o <<UserTurn, answer>>
      BY <1>3
    <2> SUFFICES ASSUME upset' = {}
                 PROVE  working' \in Seq(Turn) /\ Paired(working')
      BY <2>0, <2>1
    <2>2. turns \in Seq(Turn) /\ Paired(turns)
      BY <2>0
    <2>3. working' = turns \o <<UserTurn, answer>>
      BY <2>0
    <2> HIDE DEF answer
    <2>4. question \in Seq(Turn) /\ Paired(question)
      BY <1>1, <2>2, PlainTurn
    <2>5. working' = Append(question, answer)
      BY <1>1, <2>1, <2>2, <2>3
    <2>6. QED
      BY <2>1, <2>4, <2>5, PlainTurn
  <1>4. QED
    BY <1>2, <1>3 DEF StartLoop

\* A loop whose last turn calls, or whose turns are compacted, is upset.
LEMMA LoopReturns ==
    ASSUME NEW turns, Returns(turns), upset' = {}
    PROVE  upset = {} /\ working' = turns /\ ~turns[Len(turns)].calls
  BY DEF Returns

\* At the start there is no conversation.
LEMMA InitPInv == LoopInit => PInv
  BY EmptyPaired DEF LoopInit, PInv, IdleIsEmpty, TalkPaired

-----------------------------------------------------------------------------
\* One lemma for each kind of step.

\* What leaves the turns alone.
LEMMA TurnsStay ==
    ASSUME PInv, UNCHANGED <<talk, working, phase, answers>>
    PROVE  PInv'
  BY DEF PInv, IdleIsEmpty, TalkPaired, CallsOpen, talk

\* A request that fails leaves the conversation of the chat as it was.
LEMMA FailStep == ASSUME PInv, Fails PROVE PInv'
  BY EmptyPaired DEF PInv, IdleIsEmpty, TalkPaired, Fails

\* A question starts a loop, or is answered by a question and cut.
LEMMA AskStep == ASSUME PInv, Ask PROVE PInv'
  <1>1. PICK n \in Nat : /\ StartLoop(chat', n) /\ history' = chat'
                         /\ upset = {} => chat' \in Seq(Turn) /\ Paired(chat')
    <2>1. CASE chat' = chat /\ StartLoop(chat, answers)
      BY <2>1 DEF Ask, PInv, TalkPaired
    <2>2. CASE chat' = <<Answer(answers + 1, FALSE)>> /\ StartLoop(chat', answers + 1)
      <3> DEFINE answer == Answer(answers + 1, FALSE)
      <3>1. /\ answers + 1 \in Nat
            /\ answer \in Turn /\ ~answer.calls /\ answer.role # "results"
        <4>1. answers + 1 \in Nat
          BY DEF PInv
        <4>2. QED
          BY <4>1, PlainAnswer
      <3>2. chat' = Append(<< >>, answer)
        BY <2>2
      <3>3. chat' \in Seq(Turn) /\ Paired(chat')
        BY <3>1, <3>2, EmptyPaired, PlainTurn
      <3>4. QED
        BY <2>2, <3>1, <3>3 DEF Ask
    <2>3. QED
      BY <2>1, <2>2 DEF Ask
  <1>2. /\ answers' \in Nat /\ phase' \in {"model", "engine"}
        /\ upset' = {} => upset = {} /\ working' \in Seq(Turn) /\ Paired(working')
    BY <1>1, LoopStarts
  <1>3. QED
    BY <1>1, <1>2 DEF PInv, IdleIsEmpty, TalkPaired

\* A conversation that is cleared is paired.
LEMMA ClearStep == ASSUME PInv, ClearConversation PROVE PInv'
  BY EmptyPaired DEF PInv, IdleIsEmpty, TalkPaired, CallsOpen, ClearConversation

\* An answer of the model ends the loop or opens its calls.
LEMMA ModelStep == ASSUME PInv, AnswerArrives PROVE PInv'
  <1>1. PICK n \in 0 .. MaxCalls, truncated \in BOOLEAN :
          \/ (n = 0 \/ truncated) /\ Returns(Append(working, Answer(answers', n > 0)))
          \/ /\ n > 0 /\ phase' = "tools"
             /\ working' = Append(working, Answer(answers', n > 0)) /\ UNCHANGED upset
    BY DEF AnswerArrives
  <1>2. /\ answers' = answers + 1 /\ answers' \in Nat /\ phase = "model"
        /\ UNCHANGED <<chat, history>>
    BY DEF AnswerArrives, PInv
  <1>3. n \in Nat
    BY AgentLoopAssumption
  <1>4. CASE (n = 0 \/ truncated) /\ Returns(Append(working, Answer(answers', n > 0)))
    <2> DEFINE answer == Answer(answers', n > 0)
    <2>1. ASSUME upset' = {}
          PROVE  upset = {} /\ working' \in Seq(Turn) /\ Paired(working')
      <3>1. upset = {} /\ working' = Append(working, answer)
            /\ ~Append(working, answer)[Len(Append(working, answer))].calls
        BY <1>4, <2>1, LoopReturns
      <3>2. working \in Seq(Turn) /\ Paired(working)
        BY <1>2, <3>1 DEF PInv, TalkPaired
      <3>3. (n > 0) = TRUE \/ (n > 0) = FALSE
        BY <1>3
      <3>4. answer = Answer(answers', TRUE) \/ answer = Answer(answers', FALSE)
        BY <3>3
      <3>5. answer # Answer(answers', TRUE)
        <4> SUFFICES ASSUME answer = Answer(answers', TRUE) PROVE FALSE
          OBVIOUS
        <4>1. answer \in Turn /\ answer.calls
          BY <1>2, TurnTypes DEF Answer
        <4>2. Append(working, answer)[Len(Append(working, answer))] = answer
          BY <3>2, <4>1, AppendFacts
        <4>3. QED
          BY <3>1, <4>1, <4>2
      <3>6. QED
        BY <1>2, <3>1, <3>2, <3>4, <3>5, PlainAnswer, PlainTurn
    <2>2. QED
      BY <1>2, <1>4, <2>1 DEF PInv, IdleIsEmpty, TalkPaired, Returns
  <1>5. CASE n > 0 /\ phase' = "tools"
             /\ working' = Append(working, Answer(answers', n > 0)) /\ UNCHANGED upset
    <2>1. (n > 0) = TRUE
      BY <1>5
    <2>2. upset' = {} => CallsOpen'
      BY <1>2, <1>5, <2>1 DEF PInv, TalkPaired, CallsOpen
    <2>3. QED
      BY <1>2, <1>5, <2>2 DEF PInv, IdleIsEmpty, TalkPaired
  <1>6. QED
    BY <1>1, <1>4, <1>5

\* A round that ends gives its calls their results.
LEMMA RoundStep == ASSUME PInv, RoundEnds PROVE PInv'
  <1>1. PICK size \in {1, Large}, hints \in {<< >>, <<UserTurn>>} :
          LET turns == Append(working, Results(answers, size)) \o hints
          IN  \/ phase' = "model" /\ working' = turns /\ UNCHANGED upset
              \/ Returns(turns)
    BY DEF RoundEnds
  <1> DEFINE answered == Append(working, Results(answers, size))
             turns == answered \o hints
  <1>2. /\ phase = "tools" /\ UNCHANGED <<chat, history, answers>> /\ phase' \in {"model", "engine"}
        /\ size \in Nat /\ answers \in Nat
    BY AgentLoopAssumption DEF RoundEnds, PInv, Returns
  <1>3. ASSUME upset = {} PROVE turns \in Seq(Turn) /\ Paired(turns)
    <2>1. answered \in Seq(Turn) /\ Paired(answered)
      BY <1>2, <1>3, AnsweredCalls DEF PInv, TalkPaired, CallsOpen
    <2>2. UserTurn \in Turn /\ ~UserTurn.calls /\ UserTurn.role # "results"
      BY DEF UserTurn, Turn
    <2> HIDE DEF answered
    <2>3. CASE hints = << >>
      <3>1. turns = answered
        BY <2>1, <2>3
      <3>2. QED
        BY <2>1, <3>1
    <2>4. CASE hints = <<UserTurn>>
      <3>1. answered \o <<UserTurn>> = Append(answered, UserTurn)
        BY <2>1, <2>2
      <3>2. QED
        BY <2>1, <2>2, <2>4, <3>1, PlainTurn
    <2>5. QED
      BY <2>3, <2>4
  <1>4. upset' = {} => upset = {} /\ working' = turns
    BY <1>1, LoopReturns
  <1> HIDE DEF turns
  <1>5. QED
    BY <1>2, <1>3, <1>4 DEF PInv, IdleIsEmpty, TalkPaired

\* The chat takes the history of the loop.
LEMMA EndStep == ASSUME PInv, RequestEnds PROVE PInv'
  BY EmptyPaired DEF PInv, IdleIsEmpty, TalkPaired, RequestEnds

\* The engine starts its next loop from the history of the one before.
LEMMA NextLoopStep == ASSUME PInv, NextLoop PROVE PInv'
  <1>1. upset = {} => history' \in Seq(Turn) /\ Paired(history')
    BY DEF NextLoop, PInv, TalkPaired
  <1>2. /\ StartLoop(history', answers) /\ answers \in Nat /\ UNCHANGED chat
        /\ phase' \in {"model", "engine"}
    BY DEF NextLoop, PInv, StartLoop
  <1>3. /\ answers' \in Nat
        /\ upset' = {} => upset = {} /\ working' \in Seq(Turn) /\ Paired(working')
    BY <1>1, <1>2, LoopStarts
  <1>4. QED
    BY <1>1, <1>2, <1>3 DEF PInv, IdleIsEmpty, TalkPaired

\* Every step keeps the invariant.
LEMMA NextPInv == ASSUME PInv, [LoopNext]_loopVars PROVE PInv'
  <1>1. CASE UNCHANGED loopVars \/ Abort \/ ToolStep
    BY <1>1, TurnsStay DEF loopVars, Abort, ToolStep, Refuse, Dispatch, Return, ToolOnly
  <1>2. CASE Fails
    BY <1>2, FailStep
  <1>3. CASE ModelFails
    BY <1>3, FailStep, TurnsStay DEF ModelFails
  <1>4. QED
    BY <1>1, <1>2, <1>3, AskStep, ClearStep, ModelStep, RoundStep, EndStep, NextLoopStep
       DEF LoopNext, LoopStep, TimesOut, EngineFails

\* What is sent to the model is paired, whatever happens between its answers, unless one
\* of the three events that part calls from their results has happened
\* (AgentLoop.ts 1300-1306 and 1590, ContextEngine.ts 104).
THEOREM CallsPaired == LoopSpec => []CallsHaveResults
  <1>1. LoopInit => PInv
    BY InitPInv
  <1>2. PInv /\ [LoopNext]_loopVars => PInv'
    BY NextPInv
  <1>3. PInv => CallsHaveResults
    BY DEF PInv, TalkPaired, CallsHaveResults
  <1>4. QED
    BY <1>1, <1>2, <1>3, PTL DEF LoopSpec
-----------------------------------------------------------------------------
\* Live queries.

Call == [tool : Tool, at : {"checks", "running", "answered"}]

IsQuery(k) == calls[k].tool.kind = "query"

\* The live queries of an answer that may still be counted.
Open(cs) == {k \in DOMAIN cs : cs[k].tool.kind = "query" /\ cs[k].at # "answered"}

CallTypes ==
    /\ \E n \in 0 .. MaxCalls : calls \in [1 .. n -> Call]
    /\ seen \subseteq Signature /\ attempts \in Nat
    /\ sent \in [Signature -> Nat]

\* What was dispatched is in seen, and so is what may still be: once, and not by two calls.
SentOnce ==
    /\ \A s \in Signature : sent[s] <= 1 /\ (s \notin seen => sent[s] = 0)
    /\ \A k \in DOMAIN calls : IsQuery(k) /\ calls[k].at = "checks" =>
          /\ calls[k].tool.sig \in seen /\ sent[calls[k].tool.sig] = 0
          /\ \A j \in DOMAIN calls \ {k} : IsQuery(j) /\ calls[j].at = "checks" =>
                calls[j].tool.sig # calls[k].tool.sig

\* The queries that may still be counted are counted already.
WithinBudget == depth = "fast" => attempts + Cardinality(Open(calls)) < FastQueries + MaxCalls

BInv == CallTypes /\ SentOnce /\ WithinBudget

\* As many queries are open as the answer has calls, at most.
LEMMA OpenIsBounded ==
    ASSUME NEW n \in 0 .. MaxCalls, NEW cs \in [1 .. n -> Call]
    PROVE  IsFiniteSet(Open(cs)) /\ Cardinality(Open(cs)) \in Nat /\ Cardinality(Open(cs)) <= MaxCalls
  <1>1. n \in Nat /\ n <= MaxCalls /\ MaxCalls \in Nat
    BY AgentLoopAssumption
  <1>2. IsFiniteSet(1 .. n) /\ Cardinality(1 .. n) = n
    BY <1>1, FS_Interval
  <1>3. Open(cs) \subseteq 1 .. n
    BY DEF Open
  <1>4. IsFiniteSet(Open(cs)) /\ Cardinality(Open(cs)) <= n
    BY <1>2, <1>3, FS_Subset
  <1>5. Cardinality(Open(cs)) \in Nat
    BY <1>4, FS_CardinalityType
  <1>6. QED
    BY <1>1, <1>4, <1>5

\* Before the first round, and after the last, no call is open and nothing was sent.
LEMMA FreshBInv == ASSUME FreshLocals PROVE BInv'
  <1>1. calls' = << >> /\ seen' = {} /\ attempts' = 0 /\ sent' = [s \in Signature |-> 0]
    BY DEF FreshLocals
  <1>2. calls' \in [1 .. 0 -> Call] /\ 0 \in 0 .. MaxCalls
    BY <1>1, AgentLoopAssumption
  <1>3. CallTypes' /\ SentOnce'
    BY <1>1, <1>2 DEF CallTypes, SentOnce
  <1>4. Open(calls') = {}
    BY <1>1 DEF Open
  <1>5. Cardinality(Open(calls')) = 0
    BY <1>4, FS_EmptySet
  <1>6. WithinBudget'
    BY <1>1, <1>5, AgentLoopAssumption DEF WithinBudget
  <1>7. QED
    BY <1>3, <1>6 DEF BInv

\* What leaves the calls and their budgets alone.
LEMMA BudgetsStay ==
    ASSUME BInv, UNCHANGED <<calls, budgets, depth>>
    PROVE  BInv'
  BY DEF BInv, CallTypes, SentOnce, WithinBudget, Open, IsQuery, budgets

\* A call that may still be dispatched asks for what was not asked for before it.
LEMMA WaitingIsNew ==
    ASSUME NEW n \in Nat, NEW tools \in [1 .. n -> Tool], NEW k \in 1 .. n,
           tools[k].kind = "query", Started(tools)[k].at = "checks"
    PROVE  /\ tools[k].sig \notin seen
           /\ ~(depth = "fast" /\ attempts >= FastQueries)
           /\ \A j \in 1 .. k - 1 : tools[j].kind = "query" => tools[j].sig # tools[k].sig
  <1>1. Started(tools)[k] # Answered(tools[k])
    BY DEF Answered
  <1>2. /\ ~(depth = "fast" /\ attempts >= FastQueries)
        /\ tools[k].sig \notin seen \cup Asked(SubSeq(tools, 1, k - 1))
    BY <1>1 DEF Started
  <1>3. ASSUME NEW j \in 1 .. k - 1, tools[j].kind = "query"
        PROVE  tools[j].sig \in Asked(SubSeq(tools, 1, k - 1))
    <2>1. tools \in Seq(Tool) /\ Len(tools) = n
      OBVIOUS
    <2>2. j \in DOMAIN SubSeq(tools, 1, k - 1) /\ SubSeq(tools, 1, k - 1)[j] = tools[j]
      BY <2>1
    <2>3. QED
      BY <1>3, <2>2 DEF Asked
  <1>4. QED
    BY <1>2, <1>3

\* An answer opens calls: of each signature the first, and none when the budget is used.
LEMMA StartedBInv ==
    ASSUME BInv, NEW n \in 0 .. MaxCalls, NEW tools \in [1 .. n -> Tool],
           calls' = Started(tools), seen' = seen \cup Asked(tools),
           UNCHANGED <<attempts, sent, depth>>
    PROVE  BInv'
  <1>1. n \in Nat
    BY AgentLoopAssumption
  <1>2. /\ calls' \in [1 .. n -> Call] /\ DOMAIN calls' = 1 .. n
        /\ \A k \in 1 .. n : calls'[k].tool = tools[k]
    BY DEF Started, Answered, Waiting, Call
  <1>3. Asked(tools) \subseteq Signature
    BY DEF Asked, Tool
  <1>4. CallTypes'
    BY <1>2, <1>3 DEF BInv, CallTypes
  <1>5. ASSUME NEW k \in 1 .. n, tools[k].kind = "query", calls'[k].at = "checks"
        PROVE  /\ tools[k].sig \in Signature \ seen
               /\ tools[k].sig \in seen'
               /\ \A j \in 1 .. n \ {k} : tools[j].kind = "query" /\ calls'[j].at = "checks" =>
                     tools[j].sig # tools[k].sig
    <2>1. /\ tools[k].sig \notin seen
          /\ \A j \in 1 .. k - 1 : tools[j].kind = "query" => tools[j].sig # tools[k].sig
      BY <1>1, <1>5, WaitingIsNew
    <2>2. ASSUME NEW j \in 1 .. n, k \in 1 .. j - 1, tools[j].kind = "query", calls'[j].at = "checks"
          PROVE  tools[j].sig # tools[k].sig
      BY <1>1, <1>5, <2>2, WaitingIsNew
    <2>3. tools[k].sig \in Asked(tools)
      BY <1>5 DEF Asked
    <2>4. tools[k].sig \in Signature
      BY <1>3, <2>3
    <2>5. QED
      BY <1>1, <2>1, <2>2, <2>3, <2>4
  <1>6. SentOnce'
    BY <1>2, <1>5 DEF BInv, CallTypes, SentOnce, IsQuery
  <1>7. WithinBudget'
    <2> SUFFICES ASSUME depth = "fast"
                 PROVE  attempts + Cardinality(Open(calls')) < FastQueries + MaxCalls
      BY DEF WithinBudget
    <2>1. /\ Cardinality(Open(calls')) \in Nat /\ Cardinality(Open(calls')) <= MaxCalls
          /\ attempts \in Nat /\ FastQueries \in Nat /\ MaxCalls \in Nat
      BY <1>4, OpenIsBounded, AgentLoopAssumption DEF BInv, CallTypes
    <2>2. CASE attempts < FastQueries
      BY <2>1, <2>2
    <2>3. CASE attempts >= FastQueries
      <3>1. ASSUME NEW k \in 1 .. n, tools[k].kind = "query"
            PROVE  calls'[k].at = "answered"
        BY <2>3, <3>1 DEF Started, Answered
      <3>2. Open(calls') = {}
        BY <1>2, <3>1 DEF Open, IsQuery
      <3>3. Cardinality(Open(calls')) = 0
        BY <3>2, FS_EmptySet
      <3>4. attempts + Cardinality(Open(calls)) < FastQueries + MaxCalls /\ Cardinality(Open(calls)) \in Nat
        BY OpenIsBounded DEF BInv, CallTypes, WithinBudget
      <3>5. QED
        BY <2>1, <3>3, <3>4
    <2>4. QED
      BY <2>1, <2>2, <2>3
  <1>8. QED
    BY <1>4, <1>6, <1>7 DEF BInv

\* A call that moves on leaves the others as they are.
LEMMA CallMoves ==
    ASSUME CallTypes, NEW k \in DOMAIN calls, NEW at \in {"running", "answered"},
           calls' = [calls EXCEPT ![k].at = at]
    PROVE  /\ \E n \in 0 .. MaxCalls : calls' \in [1 .. n -> Call]
           /\ DOMAIN calls' = DOMAIN calls
           /\ calls'[k].tool = calls[k].tool /\ calls'[k].at = at
           /\ \A j \in DOMAIN calls \ {k} : calls'[j] = calls[j]
  <1>1. PICK n \in 0 .. MaxCalls : calls \in [1 .. n -> Call]
    BY DEF CallTypes
  <1>2. calls' \in [1 .. n -> Call]
    BY <1>1 DEF Call
  <1>3. QED
    BY <1>1, <1>2 DEF Call

\* Fewer queries are open, or as many.
LEMMA StillWithin ==
    ASSUME BInv, CallTypes', Open(calls') \subseteq Open(calls), UNCHANGED <<attempts, depth>>
    PROVE  WithinBudget'
  <1>1. IsFiniteSet(Open(calls)) /\ Cardinality(Open(calls)) \in Nat /\ Cardinality(Open(calls')) \in Nat
    BY OpenIsBounded DEF BInv, CallTypes
  <1>2. Cardinality(Open(calls')) <= Cardinality(Open(calls))
    BY <1>1, FS_Subset
  <1>3. attempts \in Nat /\ FastQueries \in Nat /\ MaxCalls \in Nat
    BY AgentLoopAssumption DEF BInv, CallTypes
  <1>4. QED
    BY <1>1, <1>2, <1>3 DEF BInv, WithinBudget

\* A call is refused.
LEMMA RefuseStep == ASSUME BInv, NEW k, Refuse(k) PROVE BInv'
  <1>1. /\ k \in DOMAIN calls /\ calls' = [calls EXCEPT ![k].at = "answered"]
        /\ UNCHANGED <<attempts, sent, seen, depth>>
    BY DEF Refuse, NextCheck, ToolOnly
  <1>2. /\ \E n \in 0 .. MaxCalls : calls' \in [1 .. n -> Call]
        /\ DOMAIN calls' = DOMAIN calls
        /\ calls'[k].tool = calls[k].tool /\ calls'[k].at = "answered"
        /\ \A j \in DOMAIN calls \ {k} : calls'[j] = calls[j]
    BY <1>1, CallMoves DEF BInv
  <1>3. CallTypes' /\ SentOnce' /\ Open(calls') \subseteq Open(calls)
    BY <1>1, <1>2 DEF BInv, CallTypes, SentOnce, Open, IsQuery
  <1>4. QED
    BY <1>1, <1>3, StillWithin DEF BInv

\* A live query is sent the first time its signature is.
LEMMA DispatchStep == ASSUME BInv, NEW k, Dispatch(k) PROVE BInv'
  <1> DEFINE tool == calls[k].tool
             at == IF tool.kind = "destructive" THEN "answered" ELSE "running"
  <1>1. /\ k \in DOMAIN calls /\ calls[k].at = "checks"
        /\ calls' = [calls EXCEPT ![k].at = at]
        /\ sent' = IF tool.kind = "query" THEN [sent EXCEPT ![tool.sig] = @ + 1] ELSE sent
        /\ UNCHANGED <<attempts, seen, depth>>
    BY DEF Dispatch, NextCheck, ToolOnly
  <1>2. /\ \E n \in 0 .. MaxCalls : calls' \in [1 .. n -> Call]
        /\ DOMAIN calls' = DOMAIN calls
        /\ calls'[k].tool = tool /\ calls'[k].at # "checks"
        /\ \A j \in DOMAIN calls \ {k} : calls'[j] = calls[j]
    BY <1>1, CallMoves DEF BInv
  <1>3. tool.kind = "query" => tool.sig \in Signature /\ tool.sig \in seen
    BY <1>1 DEF BInv, CallTypes, SentOnce, IsQuery
  <1>4. sent' \in [Signature -> Nat]
    BY <1>1, <1>3 DEF BInv, CallTypes
  <1>5. CallTypes'
    BY <1>1, <1>2, <1>4 DEF BInv, CallTypes
  <1>6. SentOnce'
    <2>1. CASE tool.kind # "query"
      BY <1>1, <1>2, <2>1 DEF BInv, SentOnce, IsQuery
    <2>2. CASE tool.kind = "query"
      <3>1. /\ sent[tool.sig] = 0 /\ sent'[tool.sig] = 1
            /\ \A s \in Signature \ {tool.sig} : sent'[s] = sent[s]
        BY <1>1, <1>3, <2>2 DEF BInv, CallTypes, SentOnce, IsQuery
      <3>2. \A s \in Signature : sent'[s] <= 1 /\ (s \notin seen' => sent'[s] = 0)
        BY <1>1, <1>3, <2>2, <3>1 DEF BInv, SentOnce
      <3>3. ASSUME NEW j \in DOMAIN calls', IsQuery(j)', calls'[j].at = "checks"
            PROVE  /\ calls'[j].tool.sig \in seen' /\ sent'[calls'[j].tool.sig] = 0
                   /\ \A i \in DOMAIN calls' \ {j} : IsQuery(i)' /\ calls'[i].at = "checks" =>
                         calls'[i].tool.sig # calls'[j].tool.sig
        <4>1. j \in DOMAIN calls \ {k} /\ calls'[j] = calls[j] /\ IsQuery(j)
          BY <1>2, <3>3 DEF IsQuery
        <4>2. /\ calls[j].tool.sig \in seen /\ sent[calls[j].tool.sig] = 0
              /\ calls[j].tool.sig # tool.sig
              /\ \A i \in DOMAIN calls \ {j} : IsQuery(i) /\ calls[i].at = "checks" =>
                    calls[i].tool.sig # calls[j].tool.sig
          BY <1>1, <2>2, <3>3, <4>1 DEF BInv, SentOnce, IsQuery
        <4>3. calls[j].tool.sig \in Signature
          BY <4>2 DEF BInv, CallTypes
        <4>4. QED
          BY <1>1, <1>2, <3>1, <4>1, <4>2, <4>3 DEF IsQuery
      <3>4. QED
        BY <3>2, <3>3 DEF SentOnce
    <2>3. QED
      BY <2>1, <2>2
  <1>7. Open(calls') \subseteq Open(calls)
    BY <1>1, <1>2 DEF Open, IsQuery
  <1>8. QED
    BY <1>1, <1>5, <1>6, <1>7, StillWithin DEF BInv

\* A query that returns is counted and no longer open.
LEMMA ReturnStep == ASSUME BInv, NEW k, Return(k) PROVE BInv'
  <1>1. /\ k \in DOMAIN calls /\ calls[k].at = "running"
        /\ calls' = [calls EXCEPT ![k].at = "answered"]
        /\ attempts' = attempts + (IF IsQuery(k) THEN 1 ELSE 0)
        /\ UNCHANGED <<sent, seen, depth>>
    BY DEF Return, ToolOnly, IsQuery
  <1>2. /\ \E n \in 0 .. MaxCalls : calls' \in [1 .. n -> Call]
        /\ DOMAIN calls' = DOMAIN calls
        /\ calls'[k].tool = calls[k].tool /\ calls'[k].at = "answered"
        /\ \A j \in DOMAIN calls \ {k} : calls'[j] = calls[j]
    BY <1>1, CallMoves DEF BInv
  <1>3. CallTypes' /\ SentOnce'
    BY <1>1, <1>2 DEF BInv, CallTypes, SentOnce, IsQuery
  <1>4. CASE ~IsQuery(k)
    <2>1. Open(calls') \subseteq Open(calls) /\ attempts' = attempts
      BY <1>1, <1>2, <1>4 DEF Open, IsQuery, BInv, CallTypes
    <2>2. QED
      BY <1>1, <1>3, <2>1, StillWithin DEF BInv
  <1>5. CASE IsQuery(k)
    <2>1. k \in Open(calls) /\ Open(calls') = Open(calls) \ {k} /\ attempts' = attempts + 1
      BY <1>1, <1>2, <1>5 DEF Open, IsQuery
    <2>2. IsFiniteSet(Open(calls)) /\ Cardinality(Open(calls)) \in Nat
      BY OpenIsBounded DEF BInv, CallTypes
    <2>3. Cardinality(Open(calls')) = Cardinality(Open(calls)) - 1
      BY <2>1, <2>2, FS_RemoveElement
    <2>4. attempts \in Nat /\ FastQueries \in Nat /\ MaxCalls \in Nat
      BY AgentLoopAssumption DEF BInv, CallTypes
    <2>5. WithinBudget'
      BY <1>1, <2>1, <2>2, <2>3, <2>4 DEF BInv, WithinBudget
    <2>6. QED
      BY <1>3, <2>5 DEF BInv
  <1>6. QED
    BY <1>4, <1>5

\* A round that ends without ending its loop has no call left.
LEMMA NextRoundStep ==
    ASSUME BInv, calls' = << >>, UNCHANGED <<budgets, depth>>
    PROVE  BInv'
  <1>1. calls' \in [1 .. 0 -> Call] /\ 0 \in 0 .. MaxCalls /\ UNCHANGED <<seen, attempts, sent>>
    BY AgentLoopAssumption DEF budgets
  <1>2. CallTypes' /\ SentOnce' /\ Open(calls') \subseteq Open(calls)
    BY <1>1 DEF BInv, CallTypes, SentOnce, Open
  <1>3. QED
    BY <1>1, <1>2, StillWithin DEF BInv

\* Every step keeps the invariant.
LEMMA NextBInv == ASSUME BInv, [LoopNext]_loopVars PROVE BInv'
  <1>1. CASE UNCHANGED loopVars \/ ClearConversation \/ Abort \/ RequestEnds
    BY <1>1, BudgetsStay DEF loopVars, ClearConversation, Abort, RequestEnds
  <1>2. CASE Ask \/ NextLoop \/ TimesOut \/ EngineFails
    BY <1>2, FreshBInv DEF Ask, NextLoop, StartLoop, TimesOut, EngineFails, Fails
  <1>3. CASE ModelFails
    BY <1>3, BudgetsStay, FreshBInv DEF ModelFails, Fails
  <1>4. CASE AnswerArrives
    <2>1. PICK n \in 0 .. MaxCalls, truncated \in BOOLEAN : \E tools \in [1 .. n -> Tool] :
             \/ FreshLocals
             \/ /\ calls' = Started(tools) /\ seen' = seen \cup Asked(tools)
                /\ UNCHANGED <<attempts, sent, depth>>
      BY <1>4 DEF AnswerArrives, Returns
    <2>2. QED
      BY <2>1, FreshBInv, StartedBInv
  <1>5. CASE ToolStep
    BY <1>5, RefuseStep, DispatchStep, ReturnStep DEF ToolStep
  <1>6. CASE RoundEnds
    BY <1>6, FreshBInv, NextRoundStep DEF RoundEnds, Returns
  <1>7. QED
    BY <1>1, <1>2, <1>3, <1>4, <1>5, <1>6 DEF LoopNext, LoopStep

\* Whatever calls of one answer are refused, dispatched or return in which order, a live
\* query is sent once in a loop, and a fast analysis exceeds its budget by less than the
\* calls of one answer (AgentLoop.ts 1312 and 1442).
THEOREM LiveQueries == LoopSpec => []LiveQueriesAreBounded
  <1>1. LoopInit => BInv
    <2> SUFFICES ASSUME LoopInit PROVE BInv
      OBVIOUS
    <2>1. calls = << >> /\ seen = {} /\ attempts = 0 /\ sent = [s \in Signature |-> 0]
      BY DEF LoopInit
    <2>2. calls \in [1 .. 0 -> Call] /\ 0 \in 0 .. MaxCalls
      BY <2>1, AgentLoopAssumption
    <2>3. CallTypes /\ SentOnce
      BY <2>1, <2>2 DEF CallTypes, SentOnce
    <2>4. Open(calls) = {}
      BY <2>1 DEF Open
    <2>5. Cardinality(Open(calls)) = 0
      BY <2>4, FS_EmptySet
    <2>6. QED
      BY <2>1, <2>3, <2>5, AgentLoopAssumption DEF BInv, WithinBudget
  <1>2. BInv /\ [LoopNext]_loopVars => BInv'
    BY NextBInv
  <1>3. BInv => LiveQueriesAreBounded
    <2> SUFFICES ASSUME BInv, depth = "fast" PROVE attempts < FastQueries + MaxCalls
      BY DEF BInv, SentOnce, LiveQueriesAreBounded
    <2>1. /\ Cardinality(Open(calls)) \in Nat /\ attempts \in Nat
          /\ FastQueries \in Nat /\ MaxCalls \in Nat
      BY OpenIsBounded, AgentLoopAssumption DEF BInv, CallTypes
    <2>2. QED
      BY <2>1 DEF BInv, WithinBudget
  <1>4. QED
    BY <1>1, <1>2, <1>3, PTL DEF LoopSpec
=============================================================================
