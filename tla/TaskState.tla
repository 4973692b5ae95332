----------------------------- MODULE TaskState -----------------------------
(***************************************************************************)
(* Tasks, their subtasks and checkpoints (src/lib/agent/TaskState.ts) and  *)
(* the pure functions of src/lib/agent/TaskEngine.ts that produce them.    *)
(* Goals, SQL, provenance, diagnoses and audit logs are left out.          *)
(***************************************************************************)
EXTENDS Naturals, Sequences

CONSTANTS
    MaxRequests,    \* bound: chat requests, each creates at most one task
    MaxSubtasks,    \* subtasks kept of a plan (5 in the code)
    NoTask,         \* null
    NoCheckpoint    \* null

TaskId == 1..MaxRequests

SubTaskStatus == {"pending", "planning", "executing", "verifying", "complete",
                  "failed", "retry_requested", "awaiting_approval"}
TaskStatus    == {"running", "complete", "failed", "awaiting_input"}

Subtasks == UNION {[1..n -> SubTaskStatus] : n \in 1..MaxSubtasks}
Task     == [id : TaskId, currentIndex : 1..MaxSubtasks, status : TaskStatus, subtasks : Subtasks]
Checkpoint == [task : Task, lifecycle : {"running", "interrupted", "abandoned"}]

ASSUME TaskStateAssumption ==
    /\ MaxRequests \in Nat \ {0}
    /\ MaxSubtasks \in Nat \ {0}
    /\ NoTask \notin Task
    /\ NoCheckpoint \notin Checkpoint

\* createSingleStepTask and createPlannedTask.
NewTask(id, n) ==
    [id |-> id, currentIndex |-> 1, status |-> "running",
     subtasks |-> [i \in 1..n |-> IF i = 1 THEN "planning" ELSE "pending"]]

\* The task a checkpoint is resumed with.
ResumedTask(t) ==
    [t EXCEPT !.status = "running",
              !.subtasks = [i \in DOMAIN t.subtasks |->
                  IF i < t.currentIndex THEN "complete"
                  ELSE IF i = t.currentIndex THEN "planning" ELSE "pending"]]

UpdateSubtask(t, i, status) ==
    IF i \in DOMAIN t.subtasks
    THEN [t EXCEPT !.currentIndex = i, !.subtasks[i] = status]
    ELSE t

FinalizeTask(t, status) == [t EXCEPT !.status = status]

CreateTaskCheckpoint(t) == [task |-> t, lifecycle |-> "running"]

HasSubtaskAfter(t, i) == i + 1 \in DOMAIN t.subtasks
=============================================================================
