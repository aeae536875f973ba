---------------------------- MODULE Orchestrator -----------------------------
(***************************************************************************)
(* The orchestrator of the multi-AI harness: the scheduler thread          *)
(* (scheduler.rs), the thread that runs the commands of the user interface *)
(* (commands.rs; Tauri runs synchronous commands one after the other on    *)
(* the main thread), one reader thread per session and the agent           *)
(* processes, sharing the task table and the session registry of core.rs.  *)
(* Each action is one critical section, or one system call between two.    *)
(***************************************************************************)
EXTENDS SessionRegistry

CONSTANTS
    TaskContext,    \* the context each task asks for
    SpawnMayFail,   \* whether Command::spawn may fail
    UserCommands,   \* the commands the user of this instance gives
    UserBudget      \* bound: how many of them, EnqueueTask and CancelTask aside

Commands == {"create", "send", "broadcast", "kill", "remove", "cancel", "config"}

ASSUME TaskContextAssumption == TaskContext \in [Tasks -> Contexts]
ASSUME FlagsAssumption == SpawnMayFail \in BOOLEAN
ASSUME CommandsAssumption == UserCommands \subseteq Commands /\ UserBudget \in Nat

VARIABLES
    thread,         \* the scheduler and the user interface thread
    budget          \* what is left of UserBudget

vars == <<tasks, proc, stdin, stdout, answered, registry, info, stop, reader,
          thread, config, budget>>
userVars == <<config, budget>>

Scheduler == "scheduler"
Ui == "ui"
Threads == {Scheduler, Ui}

\* pc of the scheduler: asleep, count, take, find, spawn, start, bind; of the interface:
\* ready, kill; of both while they send a turn or fail a task: lookup, write, mark, fail.
\* cfg: the copy of the configuration that the scheduler has made for its tick.
Thread == [pc      : {"asleep", "count", "take", "find", "spawn", "start", "bind",
                      "lookup", "write", "mark", "fail", "ready", "kill"},
           task    : Tasks \cup {NoTask},
           sid     : Sessions \cup {NoSession},
           targets : SUBSET Sessions,
           cfg     : Policies]

NewThread(h) == [pc |-> IF h = Scheduler THEN "asleep" ELSE "ready",
                 task |-> NoTask, sid |-> NoSession, targets |-> {}, cfg |-> config]

\* The program has just been started: Core::new reads neither tasks nor sessions.
Start ==
    /\ TasksInit
    /\ config \in Policies
    /\ AgentsInit
    /\ SessionsInit
    /\ thread = [h \in Threads |-> NewThread(h)]

Init == Start /\ budget = UserBudget

At(h, pc) == thread[h].pc = pc
Goto(h, pc) == thread' = [thread EXCEPT ![h].pc = pc]

-----------------------------------------------------------------------------
(* Steps that both threads take.                                           *)

\* The thread is through with a turn, or with a task it failed: the scheduler goes back to its
\* admission loop, the interface thread to its next target, or to its next command.
Finish(h) ==
    thread' = [thread EXCEPT ![h].pc   = IF h = Scheduler THEN "count" ELSE "ready",
                             ![h].task = NoTask,
                             ![h].sid  = NoSession]

\* send_message returns an error: only the scheduler acts on it.
SendError(h) == IF h = Scheduler THEN Goto(h, "fail") ELSE Finish(h)

\* send_message, 1: the stdin handle is cloned under the sessions mutex.
SendLookup(h) ==
    /\ At(h, "lookup")
    /\ IF thread[h].sid \in registry THEN Goto(h, "write") ELSE SendError(h)
    /\ UNCHANGED <<tasks, agentVars, sessionVars, userVars>>

\* send_message, 2: the write, with no lock held but that of the handle.
SendWrite(h) ==
    /\ At(h, "write")
    /\ WriteTurn(thread[h].sid, thread[h].task)
    /\ Goto(h, "mark")
    /\ UNCHANGED <<tasks, proc, stdout, answered, sessionVars, userVars>>

SendBroken(h) ==
    /\ At(h, "write")
    /\ Exited(thread[h].sid)
    /\ SendError(h)
    /\ UNCHANGED <<tasks, agentVars, sessionVars, userVars>>

\* send_message, 3: the session is marked busy, whatever its status has become.
SendMark(h) ==
    /\ At(h, "mark")
    /\ UpdateStatus(thread[h].sid, "Busy")
    /\ Finish(h)
    /\ UNCHANGED <<tasks, agentVars, registry, stop, reader, userVars>>

\* fail_task of the task the thread holds.
FailHeld(h) ==
    /\ At(h, "fail")
    /\ FailTask(thread[h].task)
    /\ Finish(h)
    /\ UNCHANGED <<agentVars, sessionVars, userVars>>

SendNext(h) ==
    SendLookup(h) \/ SendWrite(h) \/ SendBroken(h) \/ SendMark(h) \/ FailHeld(h)

-----------------------------------------------------------------------------
(* The scheduler thread: tick and assign_task_to_session.                  *)

\* The configuration is read once for the whole tick.  A tick that finds the machine saturated
\* does nothing.
Tick ==
    /\ At(Scheduler, "asleep")
    /\ thread' = [thread EXCEPT ![Scheduler].pc = "count", ![Scheduler].cfg = config]
    /\ UNCHANGED <<tasks, agentVars, sessionVars, userVars>>

TickCap == thread[Scheduler].cfg.max_concurrent

CapPassed == Cardinality(ActiveSessions) > TickCap      \* a slip: > where the code has >=

CapNear == Cardinality(ActiveSessions) + 1 >= TickCap   \* a slip: the last slot is not used

CapReached == Cardinality(ActiveSessions) >= TickCap

CountActive ==
    /\ At(Scheduler, "count")
    /\ Goto(Scheduler, IF CapReached THEN "asleep" ELSE "take")
    /\ UNCHANGED <<tasks, agentVars, sessionVars, userVars>>

TakeNothing ==
    /\ At(Scheduler, "take")
    /\ WithStatus("Queued") = {}
    /\ Goto(Scheduler, "asleep")
    /\ UNCHANGED <<tasks, agentVars, sessionVars, userVars>>

\* Where the scheduler goes on with a task, as its copy of the configuration has it.
AfterTake == IF thread[Scheduler].cfg.session_pooling THEN "find" ELSE "spawn"

TakeTask(t) ==
    /\ At(Scheduler, "take")
    /\ TakeNextTask(t)
    /\ thread' = [thread EXCEPT ![Scheduler].pc = AfterTake,
                                ![Scheduler].task = t]
    /\ UNCHANGED <<agentVars, sessionVars, userVars>>

Held == thread[Scheduler].task

\* find_idle_session: any match, in the order of the hash map.
FindIdle(s) ==
    /\ At(Scheduler, "find")
    /\ s \in registry
    /\ IsIdleFor(s, TaskContext[Held])
    /\ thread' = [thread EXCEPT ![Scheduler].pc = "start", ![Scheduler].sid = s]
    /\ UNCHANGED <<tasks, agentVars, sessionVars, userVars>>

FindNone ==
    /\ At(Scheduler, "find")
    /\ \A s \in registry : ~IsIdleFor(s, TaskContext[Held])
    /\ Goto(Scheduler, "spawn")
    /\ UNCHANGED <<tasks, agentVars, sessionVars, userVars>>

SpawnWorker(s) ==
    /\ At(Scheduler, "spawn")
    /\ SpawnHeadless(s, TaskContext[Held])
    /\ thread' = [thread EXCEPT ![Scheduler].pc = "start", ![Scheduler].sid = s]
    /\ UNCHANGED <<tasks, stdin, stdout, answered, stop, userVars>>

SpawnDropped ==     \* a slip: the error of spawn_headless is ignored
    /\ At(Scheduler, "spawn")
    /\ SpawnMayFail
    /\ Finish(Scheduler)
    /\ UNCHANGED <<tasks, agentVars, sessionVars, userVars>>

SpawnFails ==
    /\ At(Scheduler, "spawn")
    /\ SpawnMayFail
    /\ Goto(Scheduler, "fail")
    /\ UNCHANGED <<tasks, agentVars, sessionVars, userVars>>

\* assign_task_to_session, 1: the task table.
StartHeld ==
    /\ At(Scheduler, "start")
    /\ StartTask(Held, thread[Scheduler].sid)
    /\ Goto(Scheduler, "bind")
    /\ UNCHANGED <<agentVars, sessionVars, userVars>>

\* assign_task_to_session, 2: the session, if it is still there; then the turn is sent.
BindHeld ==
    /\ At(Scheduler, "bind")
    /\ BindTask(thread[Scheduler].sid, Held)
    /\ Goto(Scheduler, "lookup")
    /\ UNCHANGED <<tasks, agentVars, registry, stop, reader, userVars>>

SchedulerNext ==
    \/ Tick \/ CountActive \/ TakeNothing \/ FindNone \/ SpawnFails
    \/ \E t \in Tasks : TakeTask(t)
    \/ \E s \in Sessions : FindIdle(s) \/ SpawnWorker(s)
    \/ StartHeld \/ BindHeld
    \/ SendNext(Scheduler)

-----------------------------------------------------------------------------
(* The user interface thread.                                              *)

Ready == At(Ui, "ready") /\ thread[Ui].targets = {}

\* The user gives a command of this name, within the bound.
Gives(command) ==
    /\ Ready
    /\ command \in UserCommands
    /\ budget > 0
    /\ budget' = budget - 1

\* set_config: the scheduler hears of it at its next tick, a recovery at once.
UiSetConfig(policy) ==
    /\ Gives("config")
    /\ config' = policy
    /\ UNCHANGED <<tasks, agentVars, sessionVars, thread>>

UiEnqueue(t) ==
    /\ Ready
    /\ EnqueueTask(t)
    /\ UNCHANGED <<agentVars, sessionVars, thread, userVars>>

UiCancel(t) ==
    /\ Ready
    /\ "cancel" \in UserCommands
    /\ CancelTask(t)
    /\ UNCHANGED <<agentVars, sessionVars, thread, userVars>>

\* create_session, with or without an initial prompt.
UiCreate(s, context) ==
    /\ Gives("create")
    /\ SpawnHeadless(s, context)
    /\ \/ UNCHANGED thread
       \/ thread' = [thread EXCEPT ![Ui].targets = {s}]
    /\ UNCHANGED <<tasks, stdin, stdout, answered, stop, config>>

\* send_message to a session the user has seen, registered or not by now.
UiSend(s) ==
    /\ Gives("send")
    /\ reader[s].pc # "none"
    /\ thread' = [thread EXCEPT ![Ui].targets = {s}]
    /\ UNCHANGED <<tasks, agentVars, sessionVars, config>>

\* broadcast: the targets are chosen once, under the sessions mutex.
UiBroadcast ==
    /\ Gives("broadcast")
    /\ thread' = [thread EXCEPT ![Ui].targets =
                    {s \in registry : info[s].status \notin TerminalStatus}]
    /\ UNCHANGED <<tasks, agentVars, sessionVars, config>>

UiNextTarget(s) ==
    /\ At(Ui, "ready")
    /\ s \in thread[Ui].targets
    /\ thread' = [thread EXCEPT ![Ui].pc = "lookup", ![Ui].sid = s, ![Ui].targets = @ \ {s}]
    /\ UNCHANGED <<tasks, agentVars, sessionVars, userVars>>

\* kill_session: the stop flag under the sessions mutex, the process after its release.
UiKill(s) ==
    /\ Gives("kill")
    /\ s \in registry
    /\ stop' = stop \cup {s}
    /\ thread' = [thread EXCEPT ![Ui].pc = "kill", ![Ui].sid = s]
    /\ UNCHANGED <<tasks, agentVars, registry, info, reader, config>>

UiKillProcess ==
    /\ At(Ui, "kill")
    /\ Kill(thread[Ui].sid)
    /\ Finish(Ui)
    /\ UNCHANGED <<tasks, stdout, answered, sessionVars, userVars>>

\* remove_session up to the release of the sessions mutex; the task of the session is failed
\* after that.
UiRemove(s) ==
    /\ Gives("remove")
    /\ s \in registry
    /\ registry' = registry \ {s}
    /\ info' = [info EXCEPT ![s] = NoInfo]
    /\ IF info[s].status \in TerminalStatus
       THEN UNCHANGED <<stop, proc, stdin>>
       ELSE stop' = stop \cup {s} /\ Kill(s)
    /\ IF info[s].current_task = NoTask
       THEN UNCHANGED thread
       ELSE thread' = [thread EXCEPT ![Ui].pc = "fail", ![Ui].task = info[s].current_task]
    /\ UNCHANGED <<tasks, stdout, answered, reader, config>>

UiContinue ==
    \/ \E s \in Sessions : UiNextTarget(s)
    \/ UiKillProcess
    \/ SendNext(Ui)

UiNext ==
    \/ \E t \in Tasks : UiEnqueue(t) \/ UiCancel(t)
    \/ \E s \in Sessions : \/ \E c \in Contexts : UiCreate(s, c)
                           \/ UiSend(s) \/ UiKill(s) \/ UiRemove(s)
    \/ UiBroadcast
    \/ \E policy \in Policies : UiSetConfig(policy)
    \/ UiContinue

-----------------------------------------------------------------------------
ReaderStep(s) == ReaderNext(s) /\ UNCHANGED <<thread, userVars>>
AgentStep(s) == AgentNext(s) /\ UNCHANGED <<tasks, sessionVars, thread, userVars>>

Next ==
    \/ SchedulerNext
    \/ UiNext
    \/ \E s \in Sessions : ReaderStep(s) \/ AgentStep(s)

\* What an agent that does not fail gets on with.
AgentProgress(s) ==
    /\ AgentInit(s) \/ AgentReply(s) \/ AgentCloseEnd(s)
    /\ UNCHANGED <<tasks, sessionVars, thread, userVars>>

\* The threads are preemptively scheduled; a tick that is not throttled comes; agents get on.
\* Users owe nothing.
Fairness ==
    /\ WF_vars(SchedulerNext)
    /\ WF_vars(UiContinue)
    /\ \A s \in Sessions : WF_vars(ReaderStep(s)) /\ WF_vars(AgentProgress(s))

Spec == Init /\ [][Next]_vars
FairSpec == Spec /\ Fairness

-----------------------------------------------------------------------------
(* Properties.                                                             *)

\* Every variable stays in its type.
TypeOK ==
    /\ TasksTypeOK /\ ConfigTypeOK
    /\ AgentsTypeOK
    /\ SessionsTypeOK
    /\ thread \in [Threads -> Thread]
    /\ budget \in Nat

\* The scheduler has taken t from the queue and has not started it yet.
TakenByScheduler(t) ==
    Held = t /\ thread[Scheduler].pc \in {"find", "spawn", "start"}

\* Retries stop at max_attempts: recover_task requeues a task only while one more start is
\* allowed, and nothing that happens to the task between that and its next start
\* (take_next_task, a stale fail_task, another recovery) lets it pass the limit.
AttemptsWithinLimit ==
    \A t \in Tasks :
        /\ tasks[t].attempts =< MaxAttempts[t]
        /\ tasks[t].status = "Queued" \/ TakenByScheduler(t)
              => tasks[t].attempts < MaxAttempts[t]

\* A task that take_next_task has marked Assigned is in the scheduler's hands: Assigned is not a
\* status in which a task can be forgotten.
AssignedIsHeld ==
    \A t \in WithStatus("Assigned") :
        Held = t /\ thread[Scheduler].pc \in {"find", "spawn", "start", "fail"}

\* The session s may still settle or recover t.
Claims(s, t) ==
    \/ /\ s \in registry
       /\ info[s].current_task = t
       /\ reader[s].pc \notin {"recover", "done"}
    \/ reader[s].pc \in {"settle", "recover"} /\ reader[s].task = t

\* Crash recovery never leaves a task with two owners: at most one session may settle or recover
\* it, none while it is queued, canceled or about to be given to a worker.
SingleClaim ==
    \A t \in Tasks :
        /\ \A r, s \in Sessions : Claims(r, t) /\ Claims(s, t) => r = s
        /\ \/ tasks[t].status \in {"Absent", "Queued", "Canceled"}
           \/ TakenByScheduler(t)
           \/ Held = t /\ At(Scheduler, "bind")
           => \A s \in Sessions : ~Claims(s, t)

\* In whose hand a task is between the queue and its worker.
HandOf(t) ==
    CASE TakenByScheduler(t)                -> "taken"
      [] Held = t /\ At(Scheduler, "bind")  -> "started"
      [] OTHER                              -> "none"

Contract == INSTANCE TaskContract WITH
    status   <- [t \in Tasks |-> tasks[t].status],
    attempts <- [t \in Tasks |-> tasks[t].attempts],
    hand     <- [t \in Tasks |-> HandOf(t)],
    owners   <- [t \in Tasks |-> {s \in Sessions : Claims(s, t)}]

\* The threads, with all that they do between two critical sections, keep what TaskContract
\* promises: one hand takes a task, every start counts, a start makes one owner at most, and no one
\* but the owner settles or requeues.
ImplementsContract == Contract!ContractSpec

\* A session that may still settle or recover a task is the one the task table names: what the
\* user sends to a worker ends turns, but never those of another worker's task.
ClaimMatchesRecord ==
    \A t \in Tasks, s \in Sessions : Claims(s, t) => tasks[t].session_id = s

TurnsOf(s, t) == {i \in DOMAIN stdin[s] : stdin[s][i] = t}

\* No task is worked on by two processes at once: what a crashed worker was doing is not given
\* to another while the first can still do it.
NoDuplicateExecution ==
    \A t \in Tasks : \A r, s \in Sessions :
        TurnsOf(r, t) # {} /\ TurnsOf(s, t) # {} => r = s

\* A canceled task is never run: no crash recovery, no late event of a worker and no step of the
\* scheduler brings it back to the queue or starts it.  (A stale fail_task may fail it.)
CanceledNeverRuns ==
    [][\A t \in WithStatus("Canceled") : tasks'[t].status \in {"Canceled", "Failed"}]_vars

\* The prompt of a canceled task is never handed to an agent, not even by a scheduler that had
\* begun to send it before the worker crashed and the task was requeued and canceled.
CanceledNeverSent ==
    [][\A t \in WithStatus("Canceled"), s \in Sessions :
          TurnsOf(s, t)' \subseteq TurnsOf(s, t)]_vars

\* The scheduler admits nothing above the cap: where the user opens and writes to no session, no
\* step makes one more session active than max_concurrent allows in the configuration that the
\* tick has read.  (More may be active after the user has lowered the cap: none is ended for that,
\* and the tick that is under way goes on with the cap it has read.)
CapRespected ==
    [][Cardinality(ActiveSessions)' > Cardinality(ActiveSessions)
          => Cardinality(ActiveSessions)' =< TickCap]_vars

\* The prompt of a task never waits behind another turn: where the user writes to no worker, the
\* scheduler writes only to one whose stdin is empty, so that its write can wait for that worker to
\* start and to read this very prompt, but never for the end of an earlier turn.
PromptIsNext == At(Scheduler, "write") => stdin[thread[Scheduler].sid] = <<>>

\* The result that makes a task Done is the answer to its own prompt.
DoneMeansAnswered == WithStatus("Done") \subseteq answered

\* A result stands: where no session is removed, nothing that comes after it (the end of the
\* process that gave it, a recovery, the next turn of a pooled worker) takes a Done task back.
DoneIsFinal ==
    [][\A t \in WithStatus("Done") : tasks'[t].status = "Done"]_vars

\* Somebody will still settle, recover or fail t.
InCare(t) ==
    \/ \E s \in Sessions : Claims(s, t)
    \/ \E h \in Threads : thread[h].task = t

\* No running task is forgotten: as long as a task is Running, a session that may settle or
\* recover it, or a thread about to send or fail it, has it in hand.
NoOrphanRunning == \A t \in WithStatus("Running") : InCare(t)

\* A running task that nobody has in hand any more can be seen as such: a session that has ended
\* without a crash is still listed with it, and to remove that session fails the task.
OrphansAreNamed ==
    \A t \in WithStatus("Running") :
        InCare(t) \/ \E s \in registry : /\ info[s].current_task = t
                                         /\ reader[s].pc = "done"
                                         /\ info[s].status # "Crashed"

Room == Cardinality(ActiveSessions) < config.max_concurrent

\* While a slot stays free, a queued task does not wait for ever.
NoStarvationWithRoom ==
    \A t \in Tasks : ~<>[](tasks[t].status = "Queued" /\ Room)

\* Every task that starts is settled or recovered.
RunningTaskEnds ==
    \A t \in Tasks : tasks[t].status = "Running" ~> tasks[t].status # "Running"

-----------------------------------------------------------------------------
(* What the documentation of the code says, and the code does not do.      *)

\* "Actively processing a turn (between a user message and its result)" (Busy, model.rs:50).
BusyMeansTurn ==
    \A s \in registry :
        info[s].status = "Busy" =>
            \/ stdin[s] # <<>> \/ stdout[s] # <<>> \/ proc[s] # "running"
            \/ \E h \in Threads : thread[h].sid = s

\* "any task it was mid-flight on is failed" (remove, core.rs:783): the session that is removed
\* was working on it, so no other session is.
RemoveFailsOwnTask ==
    At(Ui, "fail") => \A s \in registry : ~Claims(s, thread[Ui].task)

\* "Idle stream-json workers stay alive and are reused for the next task in the same cwd/model"
\* (README.md:41), "the scheduler never exceeds max_concurrent" (README.md:42): with an idle
\* worker of its context, a task does not wait for ever.
IdleWorkerIsReused ==
    \A t \in Tasks : ~<>[](/\ tasks[t].status = "Queued"
                           /\ \E s \in registry : IsIdleFor(s, TaskContext[t]))
=============================================================================
