----------------------------- MODULE TaskContract ----------------------------
(***************************************************************************)
(* What the orchestrator promises about a task, whatever its threads, its  *)
(* workers and its users do: one hand takes it from the queue, each start  *)
(* counts as an attempt, a start gives it to one worker at most, and only  *)
(* the worker that owns it settles it or sends it back to the queue.  There*)
(* are no threads, pipes or processes here; Orchestrator is shown to       *)
(* implement this.                                                         *)
(***************************************************************************)
EXTENDS Naturals

CONSTANTS Tasks, Sessions, MaxAttempts

VARIABLES
    status,
    attempts,       \* how often it was started
    hand,           \* "taken" from the queue, "started" and not given to its worker yet, or "none"
    owners          \* the workers that may settle it or send it back: one at most

promised == <<status, attempts, hand, owners>>

ContractInit ==
    /\ status = [t \in Tasks |-> "Absent"]
    /\ attempts = [t \in Tasks |-> 0]
    /\ hand = [t \in Tasks |-> "none"]
    /\ owners = [t \in Tasks |-> {}]

Becomes(t, new) == status' = [status EXCEPT ![t] = new]
Hand(t, new) == hand' = [hand EXCEPT ![t] = new]

\* s owns the task t and does so no longer.
Yields(t, s) ==
    /\ s \in owners[t]
    /\ owners' = [owners EXCEPT ![t] = @ \ {s}]

Enqueue(t) ==
    /\ status[t] = "Absent"
    /\ Becomes(t, "Queued")
    /\ UNCHANGED <<attempts, hand, owners>>

Cancel(t) ==
    /\ status[t] = "Queued"
    /\ Becomes(t, "Canceled")
    /\ UNCHANGED <<attempts, hand, owners>>

Take(t) ==
    /\ status[t] = "Queued"
    /\ \A u \in Tasks : hand[u] = "none"
    /\ Becomes(t, "Assigned")
    /\ Hand(t, "taken")
    /\ UNCHANGED <<attempts, owners>>

\* No worker could be had.
PutDown(t) ==
    /\ hand[t] = "taken"
    /\ Hand(t, "none")
    /\ UNCHANGED <<status, attempts, owners>>

Start(t) ==
    /\ hand[t] = "taken"
    /\ attempts[t] < MaxAttempts[t]
    /\ Becomes(t, "Running")
    /\ attempts' = [attempts EXCEPT ![t] = @ + 1]
    /\ Hand(t, "started")
    /\ UNCHANGED owners

\* One worker owns it, or none if the worker has gone before.
Give(t) ==
    /\ hand[t] = "started"
    /\ owners[t] = {}
    /\ \E new \in {{}} \cup {{s} : s \in Sessions} : owners' = [owners EXCEPT ![t] = new]
    /\ Hand(t, "none")
    /\ UNCHANGED <<status, attempts>>

\* The owner answers, or reports an error.
Settle(t, s) ==
    /\ Yields(t, s)
    /\ Becomes(t, "Done") \/ Becomes(t, "Failed")
    /\ UNCHANGED <<attempts, hand>>

\* The owner has crashed: back to the queue within the limit, as the configuration of the moment
\* has it, or failed.
Recover(t, s) ==
    /\ Yields(t, s)
    /\ \/ attempts[t] < MaxAttempts[t] /\ Becomes(t, "Queued")
       \/ Becomes(t, "Failed")
    /\ UNCHANGED <<attempts, hand>>

\* The owner is removed, or ends in another way.
LetGo(t, s) ==
    /\ Yields(t, s)
    /\ UNCHANGED <<status, attempts, hand>>

\* The task is failed, by a thread that could not send it or by the removal of a session that
\* names it.  This may happen to any task: the code does not ask.
Fail(t) ==
    /\ status[t] # "Absent"
    /\ Becomes(t, "Failed")
    /\ UNCHANGED <<attempts, hand, owners>>

ContractNext ==
    \E t \in Tasks :
        \/ Enqueue(t) \/ Cancel(t) \/ Take(t) \/ PutDown(t) \/ Start(t) \/ Give(t) \/ Fail(t)
        \/ \E s \in Sessions : Settle(t, s) \/ Recover(t, s) \/ LetGo(t, s)

ContractSpec == ContractInit /\ [][ContractNext]_promised
=============================================================================
