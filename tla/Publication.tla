----------------------------- MODULE Publication -----------------------------
(***************************************************************************)
(* What becomes known of the changes the orchestrator makes: the rows of   *)
(* tasks and sessions in the database, what the window shows of them, and  *)
(* what a restart leaves.  A thread changes the table or the registry      *)
(* under its mutex, keeps a copy, and after the release first writes the   *)
(* copy to the database and then sends it to the window; it does nothing   *)
(* else meanwhile, but the other threads do.  Of a copy the model keeps    *)
(* the status.  The window is followed for tasks here; PanePool has what   *)
(* it makes of sessions.                                                   *)
(***************************************************************************)
EXTENDS Orchestrator

CONSTANTS
    MayRestart,     \* whether the program may end and be started again, within UserBudget
    QueueMax        \* bound: how many messages are on their way to the window

ASSUME RestartAssumption == MayRestart \in BOOLEAN
ASSUME QueueMaxAssumption == QueueMax \in Nat \ {0}
ASSUME IdsAssumption ==
    /\ (Tasks \cup {NoTask}) \cap (Sessions \cup {NoSession}) = {}
    /\ Threads \cap Sessions = {}

VARIABLES
    pub,            \* the copy each thread has made and not yet written or sent
    rows,           \* the status in the row of each task and session, or "none"
    shown,          \* the status the window has for each task
    queue,          \* copies of tasks on their way to the window
    crossed,        \* history: the things whose last two publications overlapped
    before          \* history: what was answered before the last restart

published == <<pub, rows, shown, queue, crossed>>
allVars == <<vars, published, before>>

Things == Tasks \cup Sessions
Actors == Threads \cup Sessions     \* the reader of a session goes by its name

Status == TaskStatus \cup SessionStatus \cup {"none"}
Copy == [about : Things \cup {NoTask}, status : Status, to : {"row", "window", "none"}]
Nothing == [about |-> NoTask, status |-> "none", to |-> "none"]

PubInit ==
    /\ Init
    /\ pub = [a \in Actors |-> Nothing]
    /\ rows = [x \in Things |-> "none"]
    /\ shown = [t \in Tasks |-> "none"]
    /\ queue = <<>>
    /\ crossed = {}
    /\ before = {}

Known(x) == IF x \in Tasks THEN tasks[x].status # "Absent" ELSE x \in registry
StatusOf(x) == IF x \in Tasks THEN tasks[x].status ELSE info[x].status

Free(a) == pub[a] = Nothing
Pending(x) ==
    \/ \E a \in Actors : pub[a].about = x
    \/ \E i \in DOMAIN queue : queue[i].about = x

-----------------------------------------------------------------------------
(* Publishing.                                                             *)

\* The step of a ends with x copied, to be published; update_info of a session that is not in the
\* registry copies nothing.
CopyTo(a, x, to) ==
    /\ IF Known(x)'
       THEN /\ pub' = [pub EXCEPT ![a] = [about |-> x, status |-> StatusOf(x)', to |-> to]]
            /\ crossed' = IF Pending(x) THEN crossed \cup {x} ELSE crossed \ {x}
       ELSE UNCHANGED <<pub, crossed>>
    /\ UNCHANGED <<rows, shown, queue>>

AnnounceUnsaved(a, x) ==    \* a slip: the database is forgotten
    \E y \in Things : y = x /\ CopyTo(a, y, "window")

\* x as it was before the step: what the thread had in hand.
Announce(a, x) == \E y \in Things : y = x /\ CopyTo(a, y, "row")

\* A step that publishes nothing.
Silent == UNCHANGED published

UpsertAndSend(a) ==         \* a slip: the copy of a session is sent to the window as a task's
    /\ pub[a].to = "row"
    /\ rows' = [rows EXCEPT ![pub[a].about] = pub[a].status]
    /\ pub' = [pub EXCEPT ![a].to = "window"]
    /\ UNCHANGED <<vars, shown, queue, crossed, before>>

Upsert(a) ==
    /\ pub[a].to = "row"
    /\ rows' = [rows EXCEPT ![pub[a].about] = pub[a].status]
    /\ pub' = [pub EXCEPT ![a] = IF @.about \in Tasks THEN [@ EXCEPT !.to = "window"] ELSE Nothing]
    /\ UNCHANGED <<vars, shown, queue, crossed, before>>

Post(message) ==
    /\ Len(queue) < QueueMax
    /\ queue' = Append(queue, message)

EmissionAhead(a) ==         \* a slip: the readers go past what the scheduler has sent
    /\ pub[a].to = "window"
    /\ pub' = [pub EXCEPT ![a] = Nothing]
    /\ IF a # Scheduler
       THEN shown' = [shown EXCEPT ![pub[a].about] = pub[a].status] /\ UNCHANGED queue
       ELSE Post([about |-> pub[a].about, status |-> pub[a].status]) /\ UNCHANGED shown
    /\ UNCHANGED <<vars, rows, crossed, before>>

\* The main thread reaches the window at once, the other threads by way of its event loop.
Emission(a) ==
    /\ pub[a].to = "window"
    /\ pub' = [pub EXCEPT ![a] = Nothing]
    /\ IF a = Ui
       THEN shown' = [shown EXCEPT ![pub[a].about] = pub[a].status] /\ UNCHANGED queue
       ELSE Post([about |-> pub[a].about, status |-> pub[a].status]) /\ UNCHANGED shown
    /\ UNCHANGED <<vars, rows, crossed, before>>

Deliver ==
    /\ Ready /\ Free(Ui)
    /\ queue # <<>>
    /\ shown' = [shown EXCEPT ![Head(queue).about] = Head(queue).status]
    /\ queue' = Tail(queue)
    /\ UNCHANGED <<vars, pub, rows, crossed, before>>

-----------------------------------------------------------------------------
(* The steps of Orchestrator, each with what it publishes.                 *)

\* The ids of a new task or session are new to the database too.
Fresh(x) == rows[x] = "none"

\* take_next_task publishes nothing: the window never sees a task Assigned.
PubScheduler ==
    /\ Free(Scheduler)
    /\ \/ (StartHeld \/ FailHeld(Scheduler)) /\ Announce(Scheduler, Held)
       \/ (BindHeld \/ SendMark(Scheduler)) /\ Announce(Scheduler, thread[Scheduler].sid)
       \/ \E s \in Sessions : Fresh(s) /\ SpawnWorker(s) /\ Announce(Scheduler, s)
       \/ /\ \/ Tick \/ CountActive \/ TakeNothing \/ FindNone \/ SpawnFails
             \/ \E t \in Tasks : TakeTask(t)
             \/ \E s \in Sessions : FindIdle(s)
             \/ SendLookup(Scheduler) \/ SendWrite(Scheduler) \/ SendBroken(Scheduler)
          /\ Silent

PubUi ==
    /\ Free(Ui)
    /\ \/ \E t \in Tasks : \/ Fresh(t) /\ UiEnqueue(t) /\ Announce(Ui, t)
                           \/ UiCancel(t) /\ Announce(Ui, t)
       \/ FailHeld(Ui) /\ Announce(Ui, thread[Ui].task)
       \/ SendMark(Ui) /\ Announce(Ui, thread[Ui].sid)
       \/ \E s \in Sessions, c \in Contexts : Fresh(s) /\ UiCreate(s, c) /\ Announce(Ui, s)
       \/ /\ \/ \E s \in Sessions : UiSend(s) \/ UiKill(s) \/ UiRemove(s) \/ UiNextTarget(s)
             \/ UiBroadcast \/ UiKillProcess
             \/ \E policy \in Policies : UiSetConfig(policy)
             \/ SendLookup(Ui) \/ SendWrite(Ui) \/ SendBroken(Ui)
          /\ Silent

\* spawn_headless publishes the session before it starts its threads.
BeingSpawned(s) ==
    \/ At(Scheduler, "start") /\ pub[Scheduler].about = s
    \/ pub[Ui].about = s /\ pub[Ui].status = "Starting"

PubReader(s) ==
    /\ Free(s) /\ ~BeingSpawned(s)
    /\ \/ SettleTurn(s) /\ Announce(s, reader[s].task)
       \/ RecoverInterrupted(s) /\ Announce(s, reader[s].task)
       \/ /\ ReadInit(s) \/ ReadAssistant(s) \/ ReadResult(s) \/ Finalize(s)
          /\ UNCHANGED tasks
          /\ Announce(s, s)
       \/ /\ ReadAfterStop(s) \/ TakeCurrentTask(s) \/ ReadEof(s)
          /\ UNCHANGED tasks
          /\ Silent
    /\ UNCHANGED <<thread, userVars>>

\* The program ends, wherever its threads are, and is started again: the table and the registry
\* are empty (Core::new reads neither tasks nor sessions), the window lists what they hold, and the
\* workers have lost their pipes.
Restart ==
    /\ MayRestart
    /\ budget > 0
    /\ budget' = budget - 1
    /\ before' = before \cup answered
    /\ tasks' = [t \in Tasks |-> NewTask]
    /\ proc' = [s \in Sessions |-> "none"]
    /\ stdin' = [s \in Sessions |-> <<>>]
    /\ stdout' = [s \in Sessions |-> <<>>]
    /\ answered' = {}
    /\ registry' = {}
    /\ info' = [s \in Sessions |-> NoInfo]
    /\ stop' = {}
    /\ reader' = [s \in Sessions |-> NewReader("none")]
    /\ thread' = [h \in Threads |-> NewThread(h)]
    /\ pub' = [a \in Actors |-> Nothing]
    /\ shown' = [t \in Tasks |-> "none"]
    /\ queue' = <<>>
    /\ crossed' = {}
    /\ UNCHANGED <<rows, config>>

PubNext ==
    \/ /\ \/ PubScheduler \/ PubUi
          \/ \E s \in Sessions : PubReader(s) \/ (AgentStep(s) /\ Silent)
       /\ UNCHANGED before
    \/ \E a \in Actors : Upsert(a) \/ Emission(a)
    \/ Deliver
    \/ Restart

PubSpec == PubInit /\ [][PubNext]_allVars

-----------------------------------------------------------------------------
(* Properties.                                                             *)

\* The types of what is on its way and of what has become known: sessions have rows, but only
\* copies of tasks are ever sent to the window.
PubTypeOK ==
    /\ TypeOK
    /\ pub \in [Actors -> Copy]
    /\ rows \in [Things -> Status] /\ shown \in [Tasks -> Status]
    /\ \A i \in DOMAIN queue : queue[i] \in [about : Tasks, status : Status]
    /\ crossed \subseteq Things /\ before \subseteq Tasks

\* Assigned is never published.
PublishedStatus(x) == IF StatusOf(x) = "Assigned" THEN "Queued" ELSE StatusOf(x)

\* Every change of what is in the core now is published: of a task enqueued, or a session opened
\* and not removed, since the program was last started, the database and the window agree with the
\* core when nothing about it is on its way and its last publication overlapped no other.  (Of a
\* session that was removed, and of what an earlier life left behind, the row stays as it was
\* last written: nothing is promised of it.)
UncrossedIsCurrent ==
    \A x \in Things \ crossed :
        Known(x) /\ ~Pending(x) =>
            /\ rows[x] = PublishedStatus(x)
            /\ x \in Tasks => shown[x] = PublishedStatus(x)

\* However publications cross, a result is never hidden behind the start it answers: a task that
\* is Done is not left Running in the database or in the window.
StartNeverHidesResult ==
    \A t \in WithStatus("Done") :
        ~Pending(t) => rows[t] # "Running" /\ shown[t] # "Running"

\* What the database or the window calls Done was answered, in this life of the program or in an
\* earlier one.
DoneRowMeansAnswered ==
    \A t \in Tasks : "Done" \in {rows[t], shown[t]} => t \in answered \cup before
=============================================================================
