------------------------------ MODULE TaskQueue ------------------------------
(***************************************************************************)
(* The task table of the orchestrator: Core.tasks of core.rs, a map from   *)
(* task id to Task behind one mutex.  Each operator below is one critical  *)
(* section on that mutex; the modules that extend this one say which       *)
(* thread enters it and what that thread does before and after.  The       *)
(* prompt, the texts and the start and finish times of a task are left     *)
(* out: nothing here reads them.                                           *)
(***************************************************************************)
EXTENDS Naturals

CONSTANTS
    Tasks,          \* the tasks a user may enqueue, each once
    NoTask,         \* "None" where the code has Option<TaskId>
    Sessions,       \* the session ids Uuid::new_v4 may hand out, each once
    NoSession,      \* "None" where the code has Option<SessionId>
    Priority,       \* the priority of each task: higher runs first
    MaxAttempts,    \* the max_attempts of each task
    Policies,       \* the configurations the user may save
    Times           \* the millisecond clock readings enqueue_task may see

\* OrchestratorConfig, as far as tasks are concerned.
Policy == [max_concurrent : Nat, auto_restart : BOOLEAN, session_pooling : BOOLEAN]

ASSUME NoTaskAssumption == NoTask \notin Tasks
ASSUME NoSessionAssumption == NoSession \notin Sessions
ASSUME PriorityAssumption == Priority \in [Tasks -> Nat]
ASSUME MaxAttemptsAssumption == MaxAttempts \in [Tasks -> Nat \ {0}]
ASSUME PoliciesAssumption == Policies \subseteq Policy
ASSUME TimesAssumption == Times \subseteq Nat

VARIABLES
    tasks,
    config          \* Core.config: the user may change it at any time

TaskStatus ==
    {"Absent", "Queued", "Assigned", "Running", "Done", "Failed", "Canceled"}

Task == [status     : TaskStatus,
         attempts   : Nat,
         session_id : Sessions \cup {NoSession},
         created_at : Nat]

\* No task is loaded from the database at start-up: the table starts empty.
NewTask == [status |-> "Absent", attempts |-> 0, session_id |-> NoSession, created_at |-> 0]

TasksInit == tasks = [t \in Tasks |-> NewTask]

TasksTypeOK == tasks \in [Tasks -> Task]

ConfigTypeOK == config \in Policies

WithStatus(status) == {t \in Tasks : tasks[t].status = status}

-----------------------------------------------------------------------------
(* enqueue_task: the clock never runs back, and two tasks may share a      *)
(* millisecond.                                                            *)
EnqueueTask(t) ==
    /\ tasks[t].status = "Absent"
    /\ \E now \in Times :
         /\ \A u \in Tasks : tasks[u].created_at =< now
         /\ tasks' = [tasks EXCEPT ![t].status = "Queued",
                                   ![t].created_at = now]

CancelAny(t) ==     \* a slip: the test of the status is forgotten
    /\ tasks[t].status \in {"Queued", "Assigned", "Running"}
    /\ tasks' = [tasks EXCEPT ![t].status = "Canceled"]

(* cancel_task: only a task that is still queued can be canceled.          *)
CancelTask(t) ==
    /\ tasks[t].status = "Queued"
    /\ tasks' = [tasks EXCEPT ![t].status = "Canceled"]

(* The order of take_next_task: the highest priority, then the oldest; a   *)
(* tie is broken by the order of the hash map.                             *)
IsNext(t) ==
    /\ tasks[t].status = "Queued"
    /\ \A u \in WithStatus("Queued") :
         \/ Priority[u] < Priority[t]
         \/ Priority[u] = Priority[t] /\ tasks[t].created_at =< tasks[u].created_at

TakeNextTask(t) ==
    /\ IsNext(t)
    /\ tasks' = [tasks EXCEPT ![t].status = "Assigned"]

(* The first critical section of assign_task_to_session.  It does not look *)
(* at the status the task has by now.                                      *)
StartTask(t, s) ==
    tasks' = [tasks EXCEPT ![t].status = "Running",
                           ![t].session_id = s,
                           ![t].attempts = @ + 1]

(* on_turn_complete, once the task has been taken out of its session.      *)
SettleTask(t, is_error) ==
    tasks' = [tasks EXCEPT ![t].status = IF is_error THEN "Failed" ELSE "Done"]

FailAndRequeue(t) ==        \* a slip: a task that could not be sent goes back to the queue
    tasks' = [tasks EXCEPT ![t].status = "Queued"]

FailAndRefund(t) ==         \* a slip: the start that failed is not counted
    tasks' = [tasks EXCEPT ![t].status = "Failed", ![t].attempts = @ - 1]

(* fail_task: unconditional, whatever the status.                          *)
FailTask(t) ==
    tasks' = [tasks EXCEPT ![t].status = "Failed"]

\* By the copy of the configuration that recover_task has just made.
Restarts(t) == config.auto_restart /\ tasks[t].attempts < MaxAttempts[t]

RecoverOneTooMany(t) ==     \* a slip: =< where the code has <
    tasks' = IF config.auto_restart /\ tasks[t].attempts =< MaxAttempts[t]
             THEN [tasks EXCEPT ![t].status = "Queued",
                                ![t].session_id = NoSession]
             ELSE [tasks EXCEPT ![t].status = "Failed"]

RecoverAsDone(t) ==         \* a slip: what ran out of attempts is reported as done
    tasks' = IF Restarts(t)
             THEN [tasks EXCEPT ![t].status = "Queued",
                                ![t].session_id = NoSession]
             ELSE [tasks EXCEPT ![t].status = "Done"]

(* recover_task: requeue within the attempt limit, else fail.  A task that *)
(* is requeued keeps its created_at, hence its place in the queue.         *)
RecoverTask(t) ==
    tasks' = IF Restarts(t)
             THEN [tasks EXCEPT ![t].status = "Queued",
                                ![t].session_id = NoSession]
             ELSE [tasks EXCEPT ![t].status = "Failed"]
=============================================================================
