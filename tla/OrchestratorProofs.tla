------------------------- MODULE OrchestratorProofs --------------------------
(***************************************************************************)
(* Theorems about Orchestrator, for every value of its constants.          *)
(***************************************************************************)
EXTENDS Orchestrator, TLAPS

-----------------------------------------------------------------------------
(* The operators the actions are built from.                               *)

\* What each operation of the task table does to the task it is about, and that it leaves the
\* others alone.
Others(t) == \A u \in Tasks \ {t} : tasks'[u] = tasks[u]

LEMMA EnqueueFacts ==
    ASSUME TasksTypeOK, NEW t \in Tasks, EnqueueTask(t)
    PROVE  TasksTypeOK' /\ Others(t) /\ tasks[t].status = "Absent"
           /\ tasks'[t].status = "Queued" /\ tasks'[t].attempts = tasks[t].attempts
  <1>1. PICK now \in Nat : /\ tasks[t].status = "Absent"
                          /\ tasks' = [tasks EXCEPT ![t].status = "Queued", ![t].created_at = now]
    BY TimesAssumption DEF EnqueueTask
  <1> QED
    BY <1>1 DEF TasksTypeOK, Others, Task, TaskStatus

LEMMA CancelFacts ==
    ASSUME TasksTypeOK, NEW t \in Tasks, CancelTask(t)
    PROVE  TasksTypeOK' /\ Others(t) /\ tasks[t].status = "Queued"
           /\ tasks'[t].status = "Canceled" /\ tasks'[t].attempts = tasks[t].attempts
  BY DEF CancelTask, TasksTypeOK, Others, Task, TaskStatus

LEMMA TakeFacts ==
    ASSUME TasksTypeOK, NEW t \in Tasks, TakeNextTask(t)
    PROVE  TasksTypeOK' /\ Others(t) /\ tasks[t].status = "Queued"
           /\ tasks'[t].status = "Assigned" /\ tasks'[t].attempts = tasks[t].attempts
  BY DEF TakeNextTask, IsNext, TasksTypeOK, Others, Task, TaskStatus

LEMMA StartFacts ==
    ASSUME TasksTypeOK, NEW t \in Tasks, NEW s \in Sessions \cup {NoSession}, StartTask(t, s)
    PROVE  TasksTypeOK' /\ Others(t)
           /\ tasks'[t].status = "Running" /\ tasks'[t].attempts = tasks[t].attempts + 1
  BY DEF StartTask, TasksTypeOK, Others, Task, TaskStatus

LEMMA SettleFacts ==
    ASSUME TasksTypeOK, NEW t \in Tasks, NEW is_error, SettleTask(t, is_error)
    PROVE  TasksTypeOK' /\ Others(t)
           /\ tasks'[t].status \in {"Done", "Failed"} /\ tasks'[t].attempts = tasks[t].attempts
  BY DEF SettleTask, TasksTypeOK, Others, Task, TaskStatus

LEMMA FailFacts ==
    ASSUME TasksTypeOK, NEW t \in Tasks, FailTask(t)
    PROVE  TasksTypeOK' /\ Others(t)
           /\ tasks'[t].status = "Failed" /\ tasks'[t].attempts = tasks[t].attempts
  BY DEF FailTask, TasksTypeOK, Others, Task, TaskStatus

LEMMA RecoverFacts ==
    ASSUME TasksTypeOK, NEW t \in Tasks, RecoverTask(t)
    PROVE  TasksTypeOK' /\ Others(t) /\ tasks'[t].attempts = tasks[t].attempts
           /\ \/ tasks'[t].status = "Queued" /\ tasks[t].attempts < MaxAttempts[t]
              \/ tasks'[t].status = "Failed"
  BY DEF RecoverTask, Restarts, TasksTypeOK, Others, Task, TaskStatus

ThreadsTypeOK == thread \in [Threads -> Thread]
InfoTypeOK == info \in [Sessions -> Info] /\ registry \subseteq Sessions

LEMMA GotoFacts ==
    ASSUME ThreadsTypeOK, NEW h \in Threads, NEW pc,
           pc \in {"asleep", "count", "take", "find", "spawn", "start", "bind",
                   "lookup", "write", "mark", "fail", "ready", "kill"},
           Goto(h, pc)
    PROVE  /\ ThreadsTypeOK'
           /\ \A g \in Threads \ {h} : thread'[g] = thread[g]
           /\ thread'[h].pc = pc /\ thread'[h].task = thread[h].task
           /\ thread'[h].sid = thread[h].sid /\ thread'[h].cfg = thread[h].cfg
  BY DEF Goto, ThreadsTypeOK, Thread, Threads, Scheduler, Ui

LEMMA FinishFacts ==
    ASSUME ThreadsTypeOK, NEW h \in Threads, Finish(h)
    PROVE  /\ ThreadsTypeOK'
           /\ \A g \in Threads \ {h} : thread'[g] = thread[g]
           /\ thread'[h].pc = (IF h = Scheduler THEN "count" ELSE "ready")
           /\ thread'[h].task = NoTask /\ thread'[h].sid = NoSession
  BY DEF Finish, ThreadsTypeOK, Thread, Threads, Scheduler, Ui

LEMMA TickFacts ==
    ASSUME ThreadsTypeOK, ConfigTypeOK, Tick
    PROVE  /\ ThreadsTypeOK'
           /\ thread'[Ui] = thread[Ui]
           /\ thread'[Scheduler] \in Thread
           /\ thread'[Scheduler].pc = "count" /\ thread'[Scheduler].task = thread[Scheduler].task
           /\ thread'[Scheduler].sid = thread[Scheduler].sid
  <1> DEFINE copied == [thread[Scheduler] EXCEPT !.pc = "count", !.cfg = config]
  <1>1. thread \in [Threads -> Thread] /\ thread[Scheduler] \in Thread /\ config \in Policies
    BY DEF ThreadsTypeOK, ConfigTypeOK, Threads
  <1>2. /\ copied \in Thread /\ copied.pc = "count" /\ copied.task = thread[Scheduler].task
        /\ copied.sid = thread[Scheduler].sid
    BY <1>1 DEF Thread
  <1>3. thread' = [thread EXCEPT ![Scheduler] = copied]
    BY <1>1 DEF Tick, Threads
  <1> HIDE DEF copied
  <1> QED
    BY <1>1, <1>2, <1>3 DEF ThreadsTypeOK, Threads, Scheduler, Ui

LEMMA UpdateStatusFacts ==
    ASSUME InfoTypeOK, NEW s, NEW status \in SessionStatus, UpdateStatus(s, status), registry' = registry
    PROVE  /\ InfoTypeOK'
           /\ \A r \in Sessions : /\ info'[r].current_task = info[r].current_task
                                  /\ info'[r].context = info[r].context
           /\ \A r \in Sessions : r # s => info'[r] = info[r]
  BY DEF UpdateStatus, InfoTypeOK, Info

LEMMA BindFacts ==
    ASSUME InfoTypeOK, NEW s, NEW t \in Tasks \cup {NoTask}, BindTask(s, t), registry' = registry
    PROVE  /\ InfoTypeOK'
           /\ \A r \in Sessions : /\ info'[r].status = info[r].status
                                  /\ info'[r].context = info[r].context
           /\ \A r \in Sessions : r # s => info'[r] = info[r]
           /\ s \in registry => info'[s].current_task = t
  BY DEF BindTask, InfoTypeOK, Info

LEMMA EmitFacts ==
    ASSUME AgentsTypeOK, NEW s \in Sessions, NEW event \in Event, Emit(s, event)
    PROVE  stdout' \in [Sessions -> Seq(Event)]
  BY DEF AgentsTypeOK, Emit

LEMMA DieFacts ==
    ASSUME AgentsTypeOK, NEW s, NEW code \in ProcState, Die(s, code)
    PROVE  proc' \in [Sessions -> ProcState] /\ stdin' \in [Sessions -> Seq(Turn)]
  <1>1. proc' \in [Sessions -> ProcState]
    BY DEF AgentsTypeOK, Die
  <1>2. << >> \in Seq(Turn)
    OBVIOUS
  <1>3. stdin' \in [Sessions -> Seq(Turn)]
    BY <1>2 DEF AgentsTypeOK, Die
  <1> QED
    BY <1>1, <1>3

LEMMA KillFacts ==
    ASSUME AgentsTypeOK, NEW s, Kill(s)
    PROVE  proc' \in [Sessions -> ProcState] /\ stdin' \in [Sessions -> Seq(Turn)]
  BY DieFacts DEF AgentsTypeOK, Kill, ProcState

LEMMA WriteFacts ==
    ASSUME AgentsTypeOK, NEW s, NEW turn \in Turn, WriteTurn(s, turn)
    PROVE  stdin' \in [Sessions -> Seq(Turn)]
  <1>1. CASE s \in Sessions
    BY <1>1 DEF AgentsTypeOK, WriteTurn
  <1>2. CASE s \notin Sessions
    BY <1>2 DEF AgentsTypeOK, WriteTurn
  <1> QED
    BY <1>1, <1>2

\* The agents keep to their types.
LEMMA AgentTypes ==
    ASSUME AgentsTypeOK, NEW s \in Sessions, AgentNext(s)
    PROVE  AgentsTypeOK'
  <1>1. CASE AgentInit(s)
    BY <1>1, EmitFacts DEF AgentInit, AgentsTypeOK, InitEvent, Event, ProcState
  <1>2. CASE AgentSpeak(s)
    BY <1>2, EmitFacts DEF AgentSpeak, AgentsTypeOK, AssistantEvent, Event
  <1>3. CASE AgentReply(s)
    <2>1. PICK is_error \in BOOLEAN :
            /\ Emit(s, ResultEvent(is_error))
            /\ answered' = IF is_error THEN answered
                                       ELSE answered \cup ({Head(stdin[s])} \cap Tasks)
      BY <1>3 DEF AgentReply
    <2>2. stdout' \in [Sessions -> Seq(Event)]
      BY <2>1, EmitFacts DEF ResultEvent, Event
    <2>3. stdin' \in [Sessions -> Seq(Turn)]
      BY <1>3 DEF AgentReply, AgentsTypeOK
    <2> QED
      BY <1>3, <2>1, <2>2, <2>3 DEF AgentReply, AgentsTypeOK
  <1>4. CASE AgentCrash(s)
    BY <1>4, DieFacts DEF AgentCrash, AgentsTypeOK, ProcState
  <1>5. CASE AgentExit(s)
    BY <1>5, DieFacts DEF AgentExit, AgentsTypeOK, ProcState
  <1>6. CASE AgentClose(s)
    BY <1>6 DEF AgentClose, AgentsTypeOK, ProcState
  <1>7. CASE AgentCloseEnd(s)
    BY <1>7, DieFacts DEF AgentCloseEnd, AgentsTypeOK, ProcState
  <1> QED
    BY <1>1, <1>2, <1>3, <1>4, <1>5, <1>6, <1>7 DEF AgentNext

-----------------------------------------------------------------------------
(* Type correctness.                                                       *)

\* Where the code has an Option that it has just matched on, the model has a task.
HeldByThreads ==
    /\ thread[Scheduler].pc \in {"find", "spawn", "start", "bind", "lookup", "write", "mark", "fail"}
          => thread[Scheduler].task \in Tasks
    /\ thread[Ui].pc = "fail" => thread[Ui].task \in Tasks
HeldByReaders ==
    \A s \in Sessions : reader[s].pc \in {"settle", "recover"} => reader[s].task \in Tasks

\* A session in the map has a context.
ContextOK == \A s \in registry : info[s].context \in Contexts

UserOK == budget \in Nat /\ ConfigTypeOK

TypeInv ==
    /\ TasksTypeOK /\ AgentsTypeOK /\ SessionsTypeOK /\ ThreadsTypeOK /\ UserOK
    /\ HeldByThreads /\ HeldByReaders /\ ContextOK

LEMMA InitStarts == Init => Start /\ UserOK
  BY CommandsAssumption DEF Init, Start, UserOK, ConfigTypeOK

LEMMA TypeInit == Start /\ UserOK => TypeInv
  <1> SUFFICES ASSUME Start, UserOK PROVE TypeInv
    OBVIOUS
  <1>1. TasksTypeOK
    BY DEF Start, TasksInit, NewTask, TasksTypeOK, Task, TaskStatus
  <1>2. AgentsTypeOK
    BY DEF Start, AgentsInit, AgentsTypeOK, ProcState
  <1>3. SessionsTypeOK
    BY DEF Start, SessionsInit, SessionsTypeOK, Info, NoInfo, SessionStatus, Reader, NewReader
  <1>4. ThreadsTypeOK
    BY DEF Start, NewThread, Thread, ThreadsTypeOK
  <1>5. HeldByThreads /\ HeldByReaders /\ ContextOK
    BY DEF Start, SessionsInit, NewReader, HeldByThreads, HeldByReaders, ContextOK, NewThread,
           Threads, Scheduler, Ui
  <1> QED
    BY <1>1, <1>2, <1>3, <1>4, <1>5 DEF TypeInv

\* What a step leaves alone keeps its type.
LEMMA Frames ==
    ASSUME TypeInv
    PROVE  /\ UNCHANGED tasks => TasksTypeOK'
           /\ UNCHANGED agentVars => AgentsTypeOK'
           /\ UNCHANGED sessionVars => SessionsTypeOK' /\ HeldByReaders' /\ ContextOK'
           /\ UNCHANGED <<registry, info>> => ContextOK'
           /\ UNCHANGED reader => HeldByReaders'
           /\ UNCHANGED thread => ThreadsTypeOK' /\ HeldByThreads'
           /\ UNCHANGED userVars => UserOK'
  <1> USE DEF TypeInv
  <1>1. UNCHANGED tasks => TasksTypeOK'
    BY DEF TasksTypeOK
  <1>2. UNCHANGED agentVars => AgentsTypeOK'
    BY DEF AgentsTypeOK, agentVars
  <1>3. UNCHANGED sessionVars => SessionsTypeOK'
    BY DEF SessionsTypeOK, sessionVars
  <1>4. UNCHANGED <<registry, info>> => ContextOK'
    BY DEF ContextOK
  <1>5. UNCHANGED reader => HeldByReaders'
    BY DEF HeldByReaders
  <1>6. UNCHANGED thread => ThreadsTypeOK' /\ HeldByThreads'
    BY DEF ThreadsTypeOK, HeldByThreads
  <1>7. UNCHANGED userVars => UserOK'
    BY DEF UserOK, userVars, ConfigTypeOK
  <1>8. UNCHANGED sessionVars => UNCHANGED <<registry, info>> /\ UNCHANGED reader
    BY DEF sessionVars
  <1> QED
    BY <1>1, <1>2, <1>3, <1>4, <1>5, <1>6, <1>7, <1>8

\* A step of a thread that changes nothing but where the thread is.
LEMMA MoveTypes ==
    ASSUME TypeInv, NEW h \in Threads, NEW pc,
           pc \in {"asleep", "count", "take", "find", "spawn", "start", "bind",
                   "lookup", "write", "mark", "fail", "ready", "kill"},
           h = Scheduler /\ pc \notin {"asleep", "count", "take"} =>
             thread[h].pc \in {"find", "spawn", "start", "bind", "lookup", "write", "mark", "fail"},
           h = Ui => pc # "fail",
           Goto(h, pc)
    PROVE  ThreadsTypeOK' /\ HeldByThreads'
  BY GotoFacts DEF TypeInv, HeldByThreads, Threads, Scheduler, Ui

LEMMA FinishTypes ==
    ASSUME TypeInv, NEW h \in Threads, Finish(h)
    PROVE  ThreadsTypeOK' /\ HeldByThreads'
  BY FinishFacts DEF TypeInv, HeldByThreads, Threads, Scheduler, Ui

\* The steps that the scheduler and the interface thread share.
LEMMA SendTypes ==
    ASSUME TypeInv, NEW h \in Threads, SendNext(h)
    PROVE  TypeInv'
  <1>e. ASSUME thread[h].pc \in {"lookup", "write"}, SendError(h)
        PROVE  ThreadsTypeOK' /\ HeldByThreads'
    BY <1>e, MoveTypes, FinishTypes DEF SendError, Scheduler, Ui
  <1>t. thread[h].task \in Turn
    BY DEF TypeInv, ThreadsTypeOK, Thread, Turn
  <1>1. CASE SendLookup(h)
    <2>1. ThreadsTypeOK' /\ HeldByThreads'
      BY <1>1, <1>e, MoveTypes DEF SendLookup, At, Scheduler, Ui
    <2> QED
      BY <1>1, <2>1, Frames DEF SendLookup, TypeInv
  <1>2. CASE SendWrite(h)
    <2>1. ThreadsTypeOK' /\ HeldByThreads'
      BY <1>2, MoveTypes DEF SendWrite, At, Scheduler, Ui
    <2>2. AgentsTypeOK'
      BY <1>2, <1>t, WriteFacts DEF SendWrite, TypeInv, AgentsTypeOK
    <2> QED
      BY <1>2, <2>1, <2>2, Frames DEF SendWrite, TypeInv
  <1>3. CASE SendBroken(h)
    BY <1>3, <1>e, Frames DEF SendBroken, At, TypeInv
  <1>4. CASE SendMark(h)
    <2>1. SessionsTypeOK' /\ ContextOK'
      BY <1>4, UpdateStatusFacts
         DEF SendMark, TypeInv, SessionsTypeOK, InfoTypeOK, ContextOK, SessionStatus
    <2> QED
      BY <1>4, <2>1, FinishTypes, Frames DEF SendMark, TypeInv
  <1>5. CASE FailHeld(h)
    <2>1. thread[h].task \in Tasks
      BY <1>5 DEF FailHeld, At, TypeInv, HeldByThreads, Threads
    <2>2. TasksTypeOK'
      BY <1>5, <2>1, FailFacts DEF FailHeld, TypeInv
    <2> QED
      BY <1>5, <2>2, FinishTypes, Frames DEF FailHeld, TypeInv
  <1> QED
    BY <1>1, <1>2, <1>3, <1>4, <1>5 DEF SendNext

LEMMA SpawnFacts ==
    ASSUME TypeInv, NEW s \in Sessions, NEW c \in Contexts, SpawnHeadless(s, c),
           UNCHANGED <<stdin, stdout, answered, stop>>
    PROVE  /\ AgentsTypeOK' /\ SessionsTypeOK' /\ HeldByReaders' /\ ContextOK'
           /\ reader[s].pc = "none"
           /\ info'[s].current_task = NoTask
           /\ reader'[s].pc = "read"
           /\ \A r \in Sessions \ {s} :
                 /\ info'[r] = info[r] /\ reader'[r] = reader[r]
                 /\ r \in registry' <=> r \in registry
  <1> USE DEF SpawnHeadless, TypeInv
  <1>1. AgentsTypeOK'
    BY DEF AgentsTypeOK, StartProcess, ProcState
  <1>2. /\ info' \in [Sessions -> Info]
        /\ info'[s].current_task = NoTask /\ info'[s].context = c
        /\ \A r \in Sessions \ {s} : info'[r] = info[r]
    BY DEF SessionsTypeOK, Info, SessionStatus
  <1>3. /\ reader' \in [Sessions -> Reader] /\ reader'[s].pc = "read"
        /\ \A r \in Sessions \ {s} : reader'[r] = reader[r]
    BY DEF SessionsTypeOK, Reader, NewReader
  <1>4. registry' = registry \cup {s}
    OBVIOUS
  <1>5. SessionsTypeOK'
    BY <1>2, <1>3, <1>4 DEF SessionsTypeOK
  <1>6. HeldByReaders'
    BY <1>3 DEF HeldByReaders
  <1>7. ContextOK'
    BY <1>2, <1>4 DEF ContextOK, SessionsTypeOK
  <1> QED
    BY <1>1, <1>2, <1>3, <1>4, <1>5, <1>6, <1>7

LEMMA SchedulerTypes == TypeInv /\ SchedulerNext => TypeInv'
  <1> SUFFICES ASSUME TypeInv, SchedulerNext PROVE TypeInv'
    OBVIOUS
  <1>h. Scheduler \in Threads /\ Scheduler # Ui
    BY DEF Threads, Scheduler, Ui
  <1>1. CASE Tick
    <2>1. ThreadsTypeOK' /\ HeldByThreads'
      BY <1>1, TickFacts DEF TypeInv, UserOK, HeldByThreads
    <2> QED
      BY <1>1, <2>1, Frames DEF Tick, TypeInv
  <1>2. CASE CountActive
    <2>1. ThreadsTypeOK' /\ HeldByThreads'
      <3>1. CASE CapReached
        BY <1>2, <1>h, <3>1, MoveTypes DEF CountActive
      <3>2. CASE ~CapReached
        BY <1>2, <1>h, <3>2, MoveTypes DEF CountActive
      <3> QED
        BY <3>1, <3>2
    <2> QED
      BY <1>2, <2>1, Frames DEF CountActive, TypeInv
  <1>3. CASE TakeNothing
    BY <1>3, <1>h, MoveTypes, Frames DEF TakeNothing, TypeInv
  <1>4. CASE FindNone
    BY <1>4, <1>h, MoveTypes, Frames DEF FindNone, At, TypeInv
  <1>5. CASE SpawnFails
    BY <1>5, <1>h, MoveTypes, Frames DEF SpawnFails, At, TypeInv
  <1>6. ASSUME NEW t \in Tasks, TakeTask(t) PROVE TypeInv'
    <2>1. TasksTypeOK'
      BY <1>6, TakeFacts DEF TakeTask, TypeInv
    <2>2. ThreadsTypeOK' /\ HeldByThreads'
      <3> DEFINE pc == AfterTake
      <3>1. /\ thread' = [thread EXCEPT ![Scheduler].pc = pc, ![Scheduler].task = t]
            /\ pc \in {"find", "spawn"}
        BY <1>6 DEF TakeTask, AfterTake
      <3>2. thread \in [Threads -> Thread] /\ Scheduler \in Threads /\ Ui # Scheduler
        BY DEF TypeInv, ThreadsTypeOK, Threads, Scheduler, Ui
      <3> HIDE DEF pc
      <3>b. thread[Scheduler] \in Thread
        BY <3>2
      <3>w. [thread[Scheduler] EXCEPT !.pc = pc, !.task = t] \in Thread
        BY <3>1, <3>b DEF Thread
      <3>t. thread' = [thread EXCEPT ![Scheduler] = [thread[Scheduler] EXCEPT !.pc = pc, !.task = t]]
        BY <3>1, <3>2
      <3>3. /\ thread'[Scheduler].pc = pc /\ thread'[Scheduler].task = t
            /\ thread'[Ui] = thread[Ui]
            /\ thread' \in [Threads -> Thread]
        <4>1. /\ [thread[Scheduler] EXCEPT !.pc = pc, !.task = t].pc = pc
              /\ [thread[Scheduler] EXCEPT !.pc = pc, !.task = t].task = t
          BY <3>b DEF Thread
        <4> QED
          BY <3>2, <3>w, <3>t, <4>1
      <3>4. HeldByThreads'
        BY <3>3 DEF TypeInv, HeldByThreads
      <3> QED
        BY <3>3, <3>4 DEF ThreadsTypeOK
    <2> QED
      BY <1>6, <2>1, <2>2, Frames DEF TakeTask, TypeInv
  <1>7. ASSUME NEW s \in Sessions, FindIdle(s) PROVE TypeInv'
    <2>1. ThreadsTypeOK' /\ HeldByThreads'
      BY <1>7 DEF FindIdle, At, TypeInv, ThreadsTypeOK, HeldByThreads, Thread, Threads,
                  Scheduler, Ui
    <2> QED
      BY <1>7, <2>1, Frames DEF FindIdle, TypeInv
  <1>8. ASSUME NEW s \in Sessions, SpawnWorker(s) PROVE TypeInv'
    <2>1. ThreadsTypeOK' /\ HeldByThreads'
      BY <1>8 DEF SpawnWorker, At, TypeInv, ThreadsTypeOK, HeldByThreads, Thread, Threads,
                  Scheduler, Ui
    <2>2. TaskContext[Held] \in Contexts
      BY <1>8, TaskContextAssumption DEF SpawnWorker, At, TypeInv, HeldByThreads, Held
    <2> QED
      BY <1>8, <2>1, <2>2, SpawnFacts, Frames DEF SpawnWorker, TypeInv
  <1>9. CASE StartHeld
    <2>1. Held \in Tasks /\ thread[Scheduler].sid \in Sessions \cup {NoSession}
      BY <1>9, <1>h DEF StartHeld, At, TypeInv, HeldByThreads, Held, ThreadsTypeOK, Thread
    <2>2. TasksTypeOK'
      BY <1>9, <2>1, StartFacts DEF StartHeld, TypeInv
    <2>3. ThreadsTypeOK' /\ HeldByThreads'
      BY <1>9, <1>h, MoveTypes DEF StartHeld, At
    <2> QED
      BY <1>9, <2>2, <2>3, Frames DEF StartHeld, TypeInv
  <1>10. CASE BindHeld
    <2>1. Held \in Tasks
      BY <1>10 DEF BindHeld, At, TypeInv, HeldByThreads, Held
    <2>2. SessionsTypeOK' /\ ContextOK'
      BY <1>10, <2>1, BindFacts
         DEF BindHeld, TypeInv, SessionsTypeOK, InfoTypeOK, ContextOK
    <2>3. ThreadsTypeOK' /\ HeldByThreads'
      BY <1>10, <1>h, MoveTypes DEF BindHeld, At
    <2> QED
      BY <1>10, <2>2, <2>3, Frames DEF BindHeld, TypeInv
  <1>11. CASE SendNext(Scheduler)
    BY <1>11, <1>h, SendTypes
  <1> QED
    BY <1>1, <1>2, <1>3, <1>4, <1>5, <1>6, <1>7, <1>8, <1>9, <1>10, <1>11 DEF SchedulerNext

LEMMA UiTypes == TypeInv /\ UiNext => TypeInv'
  <1> SUFFICES ASSUME TypeInv, UiNext PROVE TypeInv'
    OBVIOUS
  <1>h. Ui \in Threads /\ Scheduler # Ui
    BY DEF Threads, Scheduler, Ui
  <1>b. ASSUME NEW command, Gives(command), UNCHANGED config PROVE UserOK'
    BY <1>b DEF Gives, TypeInv, UserOK, ConfigTypeOK
  \* The user's new targets, with everything else of the thread as it was.
  <1>t. ASSUME NEW ts \in SUBSET Sessions, thread' = [thread EXCEPT ![Ui].targets = ts]
        PROVE  ThreadsTypeOK' /\ HeldByThreads'
    BY <1>t DEF TypeInv, ThreadsTypeOK, HeldByThreads, Thread, Threads, Scheduler, Ui
  <1>1. ASSUME NEW t \in Tasks, UiEnqueue(t) PROVE TypeInv'
    BY <1>1, EnqueueFacts, Frames DEF UiEnqueue, TypeInv
  <1>2. ASSUME NEW t \in Tasks, UiCancel(t) PROVE TypeInv'
    BY <1>2, CancelFacts, Frames DEF UiCancel, TypeInv
  <1>3. ASSUME NEW s \in Sessions, NEW c \in Contexts, UiCreate(s, c) PROVE TypeInv'
    <2>1. ThreadsTypeOK' /\ HeldByThreads'
      BY <1>3, <1>t, Frames DEF UiCreate
    <2> QED
      BY <1>3, <1>b, <2>1, SpawnFacts, Frames DEF UiCreate, TypeInv
  <1>4. ASSUME NEW s \in Sessions, UiSend(s) PROVE TypeInv'
    BY <1>4, <1>b, <1>t, Frames DEF UiSend, TypeInv
  <1>5. CASE UiBroadcast
    <2>1. {s \in registry : info[s].status \notin TerminalStatus} \in SUBSET Sessions
      BY DEF TypeInv, SessionsTypeOK
    <2> QED
      BY <1>5, <1>b, <1>t, <2>1, Frames DEF UiBroadcast, TypeInv
  <1>6. ASSUME NEW s \in Sessions, UiNextTarget(s) PROVE TypeInv'
    <2>1. ThreadsTypeOK' /\ HeldByThreads'
      BY <1>6 DEF UiNextTarget, TypeInv, ThreadsTypeOK, HeldByThreads, Thread, Threads,
                  Scheduler, Ui
    <2> QED
      BY <1>6, <2>1, Frames DEF UiNextTarget, TypeInv
  <1>7. ASSUME NEW s \in Sessions, UiKill(s) PROVE TypeInv'
    <2>1. ThreadsTypeOK' /\ HeldByThreads'
      BY <1>7 DEF UiKill, TypeInv, ThreadsTypeOK, HeldByThreads, Thread, Threads, Scheduler, Ui
    <2>2. SessionsTypeOK'
      BY <1>7 DEF UiKill, TypeInv, SessionsTypeOK
    <2> QED
      BY <1>7, <1>b, <2>1, <2>2, Frames DEF UiKill, TypeInv
  <1>8. CASE UiKillProcess
    <2>1. AgentsTypeOK'
      BY <1>8, KillFacts DEF UiKillProcess, TypeInv, AgentsTypeOK
    <2> QED
      BY <1>8, <1>h, <2>1, FinishTypes, Frames DEF UiKillProcess, TypeInv
  <1>9. ASSUME NEW s \in Sessions, UiRemove(s) PROVE TypeInv'
    <2>1. ThreadsTypeOK' /\ HeldByThreads'
      <3>1. info[s].current_task \in Tasks \cup {NoTask}
        BY DEF TypeInv, SessionsTypeOK, Info
      <3>2. CASE UNCHANGED thread
        BY <3>2, Frames
      <3>3. CASE /\ info[s].current_task # NoTask
                 /\ thread' = [thread EXCEPT ![Ui].pc = "fail",
                                             ![Ui].task = info[s].current_task]
        BY <3>1, <3>3 DEF TypeInv, ThreadsTypeOK, HeldByThreads, Thread, Threads, Scheduler, Ui
      <3> QED
        BY <1>9, <3>2, <3>3 DEF UiRemove
    <2>2. AgentsTypeOK'
      BY <1>9, KillFacts DEF UiRemove, TypeInv, AgentsTypeOK
    <2>3. /\ registry' = registry \ {s} /\ reader' = reader
          /\ info' = [info EXCEPT ![s] = NoInfo]
          /\ stop' = stop \/ stop' = stop \cup {s}
      BY <1>9 DEF UiRemove
    <2>4. SessionsTypeOK' /\ ContextOK'
      BY <2>3 DEF TypeInv, SessionsTypeOK, ContextOK, Info, NoInfo, SessionStatus
    <2> QED
      BY <1>9, <1>b, <2>1, <2>2, <2>4, Frames DEF UiRemove, TypeInv
  <1>10. CASE SendNext(Ui)
    BY <1>10, <1>h, SendTypes
  <1>11. ASSUME NEW policy \in Policies, UiSetConfig(policy) PROVE TypeInv'
    <2>1. UserOK'
      BY <1>11 DEF UiSetConfig, Gives, TypeInv, UserOK, ConfigTypeOK
    <2> QED
      BY <1>11, <2>1, Frames DEF UiSetConfig, TypeInv
  <1> QED
    BY <1>1, <1>2, <1>3, <1>4, <1>5, <1>6, <1>7, <1>8, <1>9, <1>10, <1>11 DEF UiNext, UiContinue

LEMMA ReaderFacts ==
    ASSUME TypeInv, NEW s \in Sessions, NEW r \in Reader,
           r.pc \in {"settle", "recover"} => r.task \in Tasks,
           reader' = [reader EXCEPT ![s] = r]
    PROVE  reader' \in [Sessions -> Reader] /\ HeldByReaders'
  BY DEF TypeInv, SessionsTypeOK, HeldByReaders

LEMMA ReaderTypes ==
    ASSUME TypeInv, NEW s \in Sessions, ReaderStep(s)
    PROVE  TypeInv'
  <1>f. UNCHANGED <<thread, userVars>>
    BY DEF ReaderStep
  <1>l. ASSUME ReadLine(s)
        PROVE  /\ AgentsTypeOK' /\ UNCHANGED <<registry, stop>>
               /\ reader[s].pc = "read" /\ NextEvent(s) \in Event
    BY <1>l DEF ReadLine, NextEvent, TypeInv, AgentsTypeOK
  <1>1. CASE ReadAfterStop(s) /\ UNCHANGED tasks
    <2>1. SessionsTypeOK' /\ HeldByReaders'
      BY <1>1, <1>l DEF ReadAfterStop, TypeInv, SessionsTypeOK, HeldByReaders, Reader
    <2> QED
      BY <1>1, <1>f, <1>l, <2>1, Frames DEF ReadAfterStop, TypeInv
  <1>2. CASE ReadInit(s) /\ UNCHANGED tasks
    <2> DEFINE context == CwdAlias[info[s].context]
               status == IF info[s].status = "Starting" THEN "Idle" ELSE info[s].status
    <2>i. info \in [Sessions -> Info] /\ registry \subseteq Sessions
      BY DEF TypeInv, SessionsTypeOK
    <2>n. s \in registry => context \in Contexts /\ status \in SessionStatus
      BY <2>i, AliasAssumption DEF TypeInv, ContextOK, Info, SessionStatus
    <2>d. info' = IF s \in registry
                  THEN [info EXCEPT ![s].context = context, ![s].status = status] ELSE info
      BY <1>2 DEF ReadInit
    <2> HIDE DEF context, status
    <2>c. ASSUME s \in registry
          PROVE  /\ info'[s] = [info[s] EXCEPT !.context = context, !.status = status]
                 /\ \A r \in Sessions \ {s} : info'[r] = info[r]
                 /\ info' \in [Sessions -> Info]
      BY <2>c, <2>d, <2>i, <2>n DEF Info
    <2>1. SessionsTypeOK' /\ ContextOK'
      <3>1. info' \in [Sessions -> Info]
        BY <2>c, <2>d, <2>i
      <3>2. reader' = reader /\ registry' = registry /\ stop' = stop
        BY <1>2, <1>l DEF ReadInit
      <3>3. \A r \in registry : info'[r].context \in Contexts
        BY <2>c, <2>d, <2>i, <2>n DEF TypeInv, ContextOK, Info
      <3> QED
        BY <3>1, <3>2, <3>3 DEF TypeInv, SessionsTypeOK, ContextOK
    <2> QED
      BY <1>2, <1>f, <1>l, <2>1, Frames DEF ReadInit, TypeInv
  <1>3. CASE ReadAssistant(s) /\ UNCHANGED tasks
    <2>1. SessionsTypeOK' /\ ContextOK'
      BY <1>3, <1>l, UpdateStatusFacts
         DEF ReadAssistant, TypeInv, SessionsTypeOK, InfoTypeOK, ContextOK, SessionStatus
    <2> QED
      BY <1>3, <1>f, <1>l, <2>1, Frames DEF ReadAssistant, TypeInv
  <1>4. CASE ReadResult(s) /\ UNCHANGED tasks
    <2>1. InfoTypeOK' /\ ContextOK'
      BY <1>4, <1>l, UpdateStatusFacts
         DEF ReadResult, TypeInv, SessionsTypeOK, InfoTypeOK, ContextOK, SessionStatus
    <2>2. reader' \in [Sessions -> Reader] /\ HeldByReaders'
      <3>1. PICK b \in BOOLEAN : b = NextEvent(s).is_error
        BY <1>4, <1>l DEF ReadResult, Event
      <3>2. /\ reader' = [reader EXCEPT ![s].pc = "turn", ![s].is_error = b]
            /\ reader \in [Sessions -> Reader]
        BY <1>4, <3>1 DEF ReadResult, TypeInv, SessionsTypeOK
      <3>3. /\ reader' \in [Sessions -> Reader] /\ reader'[s].pc = "turn"
            /\ \A r \in Sessions \ {s} : reader'[r] = reader[r]
        BY <3>2 DEF Reader
      <3> QED
        BY <3>3 DEF TypeInv, HeldByReaders
    <2> QED
      BY <1>4, <1>f, <1>l, <2>1, <2>2, Frames
         DEF ReadResult, TypeInv, SessionsTypeOK, InfoTypeOK
  <1>5. CASE TakeCurrentTask(s) /\ UNCHANGED tasks
    <2> DEFINE t == IF s \in registry THEN info[s].current_task ELSE NoTask
    <2>1. InfoTypeOK' /\ ContextOK'
      BY <1>5, BindFacts
         DEF TakeCurrentTask, TypeInv, SessionsTypeOK, InfoTypeOK, ContextOK
    <2>2. t \in Tasks \cup {NoTask}
      BY DEF TypeInv, SessionsTypeOK, Info
    <2>3. reader' = [reader EXCEPT ![s].pc = IF t = NoTask THEN "read" ELSE "settle",
                                   ![s].task = t]
      BY <1>5 DEF TakeCurrentTask
    <2> HIDE DEF t
    <2>4. reader' \in [Sessions -> Reader] /\ HeldByReaders'
      <3> DEFINE r == [reader[s] EXCEPT !.pc = IF t = NoTask THEN "read" ELSE "settle",
                                        !.task = t]
      <3>1. reader' = [reader EXCEPT ![s] = r]
        BY <2>3
      <3>2. r \in Reader
        BY <2>2 DEF TypeInv, SessionsTypeOK, Reader
      <3>3. r.pc \in {"settle", "recover"} => r.task \in Tasks
        BY <2>2 DEF TypeInv, SessionsTypeOK, Reader
      <3> QED
        BY <3>1, <3>2, <3>3, ReaderFacts
    <2> QED
      BY <1>5, <1>f, <2>1, <2>4, Frames
         DEF TakeCurrentTask, TypeInv, SessionsTypeOK, InfoTypeOK
  <1>6. CASE SettleTurn(s)
    <2>1. TasksTypeOK'
      BY <1>6, SettleFacts DEF SettleTurn, TypeInv, HeldByReaders
    <2>2. SessionsTypeOK' /\ HeldByReaders'
      BY <1>6 DEF SettleTurn, TypeInv, SessionsTypeOK, HeldByReaders, Reader, NewReader
    <2> QED
      BY <1>6, <1>f, <2>1, <2>2, Frames DEF SettleTurn, TypeInv
  <1>7. CASE ReadEof(s) /\ UNCHANGED tasks
    <2> DEFINE stopped == s \in stop
    <2>1. reader' = [reader EXCEPT ![s].pc = "reap", ![s].requested_stop = stopped]
      BY <1>7 DEF ReadEof
    <2>2. stopped \in BOOLEAN
      OBVIOUS
    <2> HIDE DEF stopped
    <2>3. SessionsTypeOK' /\ HeldByReaders'
      <3> DEFINE r == [reader[s] EXCEPT !.pc = "reap", !.requested_stop = stopped]
      <3>1. reader' = [reader EXCEPT ![s] = r]
        BY <2>1
      <3>2. r \in Reader /\ r.pc = "reap"
        BY <2>2 DEF TypeInv, SessionsTypeOK, Reader
      <3>3. reader' \in [Sessions -> Reader] /\ HeldByReaders'
        BY <3>1, <3>2, ReaderFacts
      <3> QED
        BY <1>7, <3>3 DEF ReadEof, TypeInv, SessionsTypeOK
    <2> QED
      BY <1>7, <1>f, <2>3, Frames DEF ReadEof, TypeInv
  <1>8. CASE Finalize(s) /\ UNCHANGED tasks
    <2> DEFINE t == info[s].current_task
    <2> DEFINE recovers == s \in registry /\ FinalStatus(s) = "Crashed" /\ t # NoTask
    <2>1. FinalStatus(s) \in SessionStatus
      BY DEF FinalStatus, SessionStatus
    <2>2. InfoTypeOK' /\ ContextOK'
      BY <1>8, <2>1, UpdateStatusFacts DEF Finalize, TypeInv, SessionsTypeOK, InfoTypeOK, ContextOK
    <2>3. t \in Tasks \cup {NoTask}
      BY DEF TypeInv, SessionsTypeOK, Info
    <2>4. reader' = [reader EXCEPT ![s] = IF recovers THEN [NewReader("recover") EXCEPT !.task = t]
                                                      ELSE NewReader("done")]
      BY <1>8 DEF Finalize
    <2>5. reader' \in [Sessions -> Reader] /\ HeldByReaders'
      <3>1. CASE recovers
        BY <2>3, <2>4, <3>1 DEF TypeInv, SessionsTypeOK, HeldByReaders, Reader, NewReader
      <3>2. CASE ~recovers
        BY <2>4, <3>2 DEF TypeInv, SessionsTypeOK, HeldByReaders, Reader, NewReader
      <3> QED
        BY <3>1, <3>2
    <2> QED
      BY <1>8, <1>f, <2>2, <2>5, Frames DEF Finalize, TypeInv, SessionsTypeOK, InfoTypeOK
  <1>9. CASE RecoverInterrupted(s)
    <2>1. TasksTypeOK'
      BY <1>9, RecoverFacts DEF RecoverInterrupted, TypeInv, HeldByReaders
    <2>2. SessionsTypeOK' /\ HeldByReaders'
      BY <1>9 DEF RecoverInterrupted, TypeInv, SessionsTypeOK, HeldByReaders, Reader, NewReader
    <2> QED
      BY <1>9, <1>f, <2>1, <2>2, Frames DEF RecoverInterrupted, TypeInv
  <1> QED
    BY <1>1, <1>2, <1>3, <1>4, <1>5, <1>6, <1>7, <1>8, <1>9 DEF ReaderStep, ReaderNext

LEMMA AgentStepTypes ==
    ASSUME TypeInv, NEW s \in Sessions, AgentStep(s)
    PROVE  TypeInv'
  BY AgentTypes, Frames DEF AgentStep, TypeInv

LEMMA TypeStep == TypeInv /\ [Next]_vars => TypeInv'
  <1> SUFFICES ASSUME TypeInv, [Next]_vars PROVE TypeInv'
    OBVIOUS
  <1>1. CASE UNCHANGED vars
    BY <1>1, Frames DEF vars, userVars, agentVars, sessionVars, TypeInv
  <1>2. CASE Next
    BY <1>2, SchedulerTypes, UiTypes, ReaderTypes, AgentStepTypes DEF Next
  <1> QED
    BY <1>1, <1>2

\* Every variable of the orchestrator stays in its type, and an Option is never unwrapped when it
\* is None: TypeOK holds in every reachable state.
THEOREM TypeCorrect == Spec => []TypeOK
  <1>1. TypeInv => TypeOK
    BY DEF TypeInv, TypeOK, ThreadsTypeOK, UserOK
  <1> QED
    BY InitStarts, TypeInit, TypeStep, <1>1, PTL DEF Spec

-----------------------------------------------------------------------------
(* What a step may do to the task table, to the claims of the sessions and *)
(* to the task in the scheduler's hands.                                   *)

TakenPcs == {"find", "spawn", "start"}

NoNewClaims == \A s \in Sessions, t \in Tasks : Claims(s, t)' => Claims(s, t)

\* The effects of the interface thread, the readers and the agents on the task table.
EnvEffect ==
    \/ tasks' = tasks
    \/ \E t \in Tasks : EnqueueTask(t) \/ CancelTask(t) \/ FailTask(t)
    \/ \E t \in Tasks, s \in Sessions : Claims(s, t) /\ SettleTask(t, reader[s].is_error)
    \/ \E t \in Tasks, s \in Sessions : Claims(s, t) /\ ~Claims(s, t)' /\ RecoverTask(t)

EnvStep == thread'[Scheduler] = thread[Scheduler] /\ NoNewClaims /\ EnvEffect

\* A step of the scheduler that is not one of the four that follow.
QuietStep ==
    /\ tasks' = tasks
    /\ NoNewClaims
    /\ thread'[Scheduler].pc # "bind"
    /\ thread'[Scheduler].pc \in TakenPcs => thread[Scheduler].pc \in TakenPcs
    /\ thread[Scheduler].pc \in TakenPcs \cup {"fail"} =>
          /\ thread'[Scheduler].pc \in TakenPcs \cup {"fail"}
          /\ thread'[Scheduler].task = thread[Scheduler].task

TakeStep ==
    /\ thread[Scheduler].pc = "take"
    /\ TakeNextTask(thread'[Scheduler].task)
    /\ NoNewClaims
    /\ thread'[Scheduler].pc \in TakenPcs
    /\ thread'[Scheduler].task \in Tasks

StartStep ==
    /\ thread[Scheduler].pc = "start"
    /\ Held \in Tasks
    /\ thread[Scheduler].sid \in Sessions \cup {NoSession}
    /\ StartTask(Held, thread[Scheduler].sid)
    /\ NoNewClaims
    /\ thread'[Scheduler].pc = "bind"
    /\ thread'[Scheduler].task = Held

BindStep ==
    /\ thread[Scheduler].pc = "bind"
    /\ tasks' = tasks
    /\ \A s \in Sessions, t \in Tasks :
          Claims(s, t)' => Claims(s, t) \/ (s = thread[Scheduler].sid /\ t = Held)
    /\ thread'[Scheduler].pc = "lookup"

FailStep ==
    /\ thread[Scheduler].pc = "fail"
    /\ Held \in Tasks
    /\ FailTask(Held)
    /\ NoNewClaims
    /\ thread'[Scheduler].pc = "count"

\* A claim depends on the registry, the current tasks and the readers alone.
LEMMA SameClaims ==
    ASSUME UNCHANGED <<registry, reader>>,
           \A s \in Sessions : info'[s].current_task = info[s].current_task
    PROVE  NoNewClaims
  BY DEF NoNewClaims, Claims

LEMMA SpawnClaims ==
    ASSUME TypeInv, NEW s \in Sessions, NEW c \in Contexts, SpawnHeadless(s, c),
           UNCHANGED <<stdin, stdout, answered, stop>>
    PROVE  NoNewClaims
  BY SpawnFacts, NoTaskAssumption DEF NoNewClaims, Claims

\* The steps of send_message and fail_task create no claim.
LEMMA SendClaims ==
    ASSUME TypeInv, NEW h \in Threads, SendNext(h)
    PROVE  NoNewClaims
  <1>1. CASE SendMark(h)
    <2>1. UpdateStatus(thread[h].sid, "Busy") /\ UNCHANGED <<registry, reader>>
      BY <1>1 DEF SendMark
    <2>2. \A s \in Sessions : info'[s].current_task = info[s].current_task
      BY <2>1, UpdateStatusFacts DEF TypeInv, SessionsTypeOK, InfoTypeOK, SessionStatus
    <2> QED
      BY <2>1, <2>2, SameClaims
  <1>2. CASE ~SendMark(h)
    <2>1. UNCHANGED sessionVars
      BY <1>2 DEF SendNext, SendLookup, SendWrite, SendBroken, FailHeld
    <2> QED
      BY <2>1, SameClaims DEF sessionVars
  <1> QED
    BY <1>1, <1>2

LEMMA ReaderEffect ==
    ASSUME TypeInv, NEW s \in Sessions, ReaderStep(s)
    PROVE  EnvStep
  <1>f. thread'[Scheduler] = thread[Scheduler]
    BY DEF ReaderStep
  \* The reader of s moves between two places that make no claim of their own.
  <1>m. ASSUME reader[s].pc \notin {"recover", "done"}, UNCHANGED registry,
               \A r \in Sessions \ {s} : reader'[r] = reader[r],
               reader'[s].pc \notin {"settle", "recover"},
               \A r \in Sessions : info'[r].current_task = info[r].current_task
        PROVE  NoNewClaims
    BY <1>m DEF NoNewClaims, Claims
  <1>u. ASSUME NEW status \in SessionStatus, UpdateStatus(s, status), UNCHANGED registry
        PROVE  \A r \in Sessions : info'[r].current_task = info[r].current_task
    BY <1>u, UpdateStatusFacts DEF TypeInv, SessionsTypeOK, InfoTypeOK
  <1>r. reader \in [Sessions -> Reader]
    BY DEF TypeInv, SessionsTypeOK
  <1>1. CASE ReadAfterStop(s) /\ UNCHANGED tasks
    <2>1. reader[s].pc = "read" /\ reader'[s].pc = "reap" /\ UNCHANGED <<registry, info>>
          /\ \A r \in Sessions \ {s} : reader'[r] = reader[r]
      BY <1>1, <1>r DEF ReadAfterStop, ReadLine, Reader
    <2>2. NoNewClaims
      BY <2>1, <1>m
    <2> QED
      BY <1>1, <1>f, <2>2 DEF EnvStep, EnvEffect
  <1>2. CASE ReadInit(s) /\ UNCHANGED tasks
    <2>1. \A r \in Sessions : info'[r].current_task = info[r].current_task
      BY <1>2 DEF ReadInit, TypeInv, SessionsTypeOK, Info
    <2>2. NoNewClaims
      BY <1>2, <2>1, SameClaims DEF ReadInit, ReadLine
    <2> QED
      BY <1>2, <1>f, <2>2 DEF EnvStep, EnvEffect
  <1>3. CASE ReadAssistant(s) /\ UNCHANGED tasks
    <2>1. NoNewClaims
      BY <1>3, <1>u, SameClaims DEF ReadAssistant, ReadLine, SessionStatus
    <2> QED
      BY <1>3, <1>f, <2>1 DEF EnvStep, EnvEffect
  <1>4. CASE ReadResult(s) /\ UNCHANGED tasks
    <2>1. \A r \in Sessions : info'[r].current_task = info[r].current_task
      BY <1>4, <1>u DEF ReadResult, ReadLine, SessionStatus
    <2>2. reader[s].pc = "read" /\ reader'[s].pc = "turn" /\ UNCHANGED registry
          /\ \A r \in Sessions \ {s} : reader'[r] = reader[r]
      BY <1>4, <1>r DEF ReadResult, ReadLine, Reader
    <2>3. NoNewClaims
      BY <2>1, <2>2, <1>m
    <2> QED
      BY <1>4, <1>f, <2>3 DEF EnvStep, EnvEffect
  <1>5. CASE TakeCurrentTask(s) /\ UNCHANGED tasks
    <2> DEFINE t == IF s \in registry THEN info[s].current_task ELSE NoTask
    <2>1. reader[s].pc = "turn" /\ BindTask(s, NoTask) /\ UNCHANGED registry
          /\ reader' = [reader EXCEPT ![s].pc = IF t = NoTask THEN "read" ELSE "settle",
                                      ![s].task = t]
      BY <1>5 DEF TakeCurrentTask
    <2>2. \A r \in Sessions : \/ info'[r].current_task = info[r].current_task
                              \/ r = s /\ (r \in registry => info'[r].current_task = NoTask)
      <3>1. InfoTypeOK
        BY DEF TypeInv, SessionsTypeOK, InfoTypeOK
      <3> QED
        BY <2>1, <3>1, BindFacts
    <2>3. t # NoTask => s \in registry /\ t = info[s].current_task
      OBVIOUS
    <2> HIDE DEF t
    <2>4. /\ reader'[s].pc \in {"read", "settle"} /\ reader'[s].task = t
          /\ \A r \in Sessions \ {s} : reader'[r] = reader[r]
      BY <2>1, <1>r DEF Reader
    <2>5. ASSUME NEW r \in Sessions, NEW u \in Tasks, Claims(r, u)'
          PROVE  Claims(r, u)
      <3>1. CASE r = s
        BY <2>1, <2>2, <2>3, <2>4, <2>5, <3>1, NoTaskAssumption DEF Claims
      <3>2. CASE r # s
        BY <2>1, <2>2, <2>4, <2>5, <3>2 DEF Claims
      <3> QED
        BY <3>1, <3>2
    <2>6. NoNewClaims
      BY <2>5 DEF NoNewClaims
    <2> QED
      BY <1>5, <1>f, <2>6 DEF EnvStep, EnvEffect
  <1>6. CASE SettleTurn(s)
    <2>1. /\ Claims(s, reader[s].task) /\ reader[s].task \in Tasks
          /\ SettleTask(reader[s].task, reader[s].is_error)
      BY <1>6 DEF SettleTurn, Claims, TypeInv, HeldByReaders
    <2>2. reader[s].pc = "settle" /\ reader'[s].pc = "read" /\ UNCHANGED <<registry, info>>
          /\ \A r \in Sessions \ {s} : reader'[r] = reader[r]
      BY <1>6, <1>r DEF SettleTurn, NewReader
    <2>3. NoNewClaims
      BY <2>2, <1>m
    <2> QED
      BY <1>f, <2>1, <2>3 DEF EnvStep, EnvEffect
  <1>7. CASE ReadEof(s) /\ UNCHANGED tasks
    <2>1. reader[s].pc = "read" /\ reader'[s].pc = "reap" /\ UNCHANGED <<registry, info>>
          /\ \A r \in Sessions \ {s} : reader'[r] = reader[r]
      BY <1>7, <1>r DEF ReadEof, Reader
    <2>2. NoNewClaims
      BY <2>1, <1>m
    <2> QED
      BY <1>7, <1>f, <2>2 DEF EnvStep, EnvEffect
  <1>8. CASE Finalize(s) /\ UNCHANGED tasks
    <2> DEFINE t == info[s].current_task
    <2> DEFINE recovers == s \in registry /\ FinalStatus(s) = "Crashed" /\ t # NoTask
    <2>1. reader[s].pc = "reap" /\ UpdateStatus(s, FinalStatus(s)) /\ UNCHANGED registry
          /\ reader' = [reader EXCEPT ![s] = IF recovers THEN [NewReader("recover") EXCEPT !.task = t]
                                                         ELSE NewReader("done")]
      BY <1>8 DEF Finalize
    <2>2. FinalStatus(s) \in SessionStatus
      BY DEF FinalStatus, SessionStatus
    <2>3. \A r \in Sessions : info'[r].current_task = info[r].current_task
      BY <2>1, <2>2, <1>u
    <2>4. \A r \in Sessions \ {s} : reader'[r] = reader[r]
      BY <2>1, <1>r
    <2>5. \/ reader'[s].pc = "done"
          \/ reader'[s].pc = "recover" /\ reader'[s].task = t /\ s \in registry
      BY <2>1, <1>r DEF NewReader
    <2>6. NoNewClaims
      BY <2>1, <2>3, <2>4, <2>5 DEF NoNewClaims, Claims
    <2> QED
      BY <1>8, <1>f, <2>6 DEF EnvStep, EnvEffect
  <1>9. CASE RecoverInterrupted(s)
    <2>1. PICK t \in Tasks : t = reader[s].task
      BY <1>9 DEF RecoverInterrupted, TypeInv, HeldByReaders
    <2>2. Claims(s, t) /\ RecoverTask(t)
      BY <1>9, <2>1 DEF RecoverInterrupted, Claims
    <2>3. reader'[s].pc = "done" /\ UNCHANGED <<registry, info>>
          /\ \A r \in Sessions \ {s} : reader'[r] = reader[r]
      BY <1>9, <1>r DEF RecoverInterrupted, NewReader
    <2>4. NoNewClaims
      BY <2>3 DEF NoNewClaims, Claims
    <2>5. ~Claims(s, t)'
      BY <2>3 DEF Claims
    <2> QED
      BY <1>f, <2>2, <2>4, <2>5 DEF EnvStep, EnvEffect
  <1> QED
    BY <1>1, <1>2, <1>3, <1>4, <1>5, <1>6, <1>7, <1>8, <1>9 DEF ReaderStep, ReaderNext

LEMMA UiEffect ==
    ASSUME TypeInv, UiNext
    PROVE  EnvStep
  <1>h. Ui \in Threads /\ Scheduler \in Threads /\ Scheduler # Ui
    BY DEF Threads, Scheduler, Ui
  <1>t. thread \in [Threads -> Thread]
    BY DEF TypeInv, ThreadsTypeOK
  <1>s. ASSUME UNCHANGED sessionVars PROVE NoNewClaims
    BY <1>s, SameClaims DEF sessionVars
  <1>1. ASSUME NEW t \in Tasks, UiEnqueue(t) \/ UiCancel(t) PROVE EnvStep
    BY <1>1, <1>s DEF UiEnqueue, UiCancel, EnvStep, EnvEffect
  <1>2. ASSUME NEW s \in Sessions, NEW c \in Contexts, UiCreate(s, c) PROVE EnvStep
    <2>1. NoNewClaims
      BY <1>2, SpawnClaims DEF UiCreate
    <2>2. thread'[Scheduler] = thread[Scheduler]
      BY <1>2, <1>h, <1>t DEF UiCreate
    <2> QED
      BY <1>2, <2>1, <2>2 DEF UiCreate, EnvStep, EnvEffect
  <1>3. ASSUME NEW s \in Sessions, UiSend(s) \/ UiNextTarget(s) PROVE EnvStep
    <2>1. thread'[Scheduler] = thread[Scheduler]
      BY <1>3, <1>h, <1>t DEF UiSend, UiNextTarget
    <2> QED
      BY <1>3, <1>s, <2>1 DEF UiSend, UiNextTarget, EnvStep, EnvEffect
  <1>4. CASE UiBroadcast
    <2>1. thread'[Scheduler] = thread[Scheduler]
      BY <1>4, <1>h, <1>t DEF UiBroadcast
    <2> QED
      BY <1>4, <1>s, <2>1 DEF UiBroadcast, EnvStep, EnvEffect
  <1>5. ASSUME NEW s \in Sessions, UiKill(s) PROVE EnvStep
    <2>1. thread'[Scheduler] = thread[Scheduler]
      BY <1>5, <1>h, <1>t DEF UiKill
    <2>2. NoNewClaims
      BY <1>5, SameClaims DEF UiKill
    <2> QED
      BY <1>5, <2>1, <2>2 DEF UiKill, EnvStep, EnvEffect
  <1>6. CASE UiKillProcess
    <2>1. thread'[Scheduler] = thread[Scheduler]
      BY <1>6, <1>h, <1>t, FinishFacts DEF UiKillProcess, ThreadsTypeOK
    <2> QED
      BY <1>6, <1>s, <2>1 DEF UiKillProcess, EnvStep, EnvEffect
  <1>7. ASSUME NEW s \in Sessions, UiRemove(s) PROVE EnvStep
    <2>1. thread'[Scheduler] = thread[Scheduler]
      BY <1>7, <1>h, <1>t DEF UiRemove
    <2>2. /\ registry' = registry \ {s} /\ reader' = reader /\ tasks' = tasks
          /\ \A r \in Sessions \ {s} : info'[r] = info[r]
      BY <1>7 DEF UiRemove, TypeInv, SessionsTypeOK
    <2>3. NoNewClaims
      BY <2>2 DEF NoNewClaims, Claims
    <2> QED
      BY <2>1, <2>2, <2>3 DEF EnvStep, EnvEffect
  <1>8. CASE SendNext(Ui)
    <2>1. NoNewClaims
      BY <1>8, <1>h, SendClaims
    <2>2. thread'[Scheduler] = thread[Scheduler]
      BY <1>8, <1>h, <1>t, GotoFacts, FinishFacts
         DEF SendNext, SendLookup, SendWrite, SendBroken, SendMark, FailHeld, SendError,
             ThreadsTypeOK
    <2>3. EnvEffect
      <3>1. CASE FailHeld(Ui)
        BY <3>1 DEF FailHeld, At, TypeInv, HeldByThreads, EnvEffect
      <3>2. CASE ~FailHeld(Ui)
        BY <1>8, <3>2 DEF SendNext, SendLookup, SendWrite, SendBroken, SendMark, EnvEffect
      <3> QED
        BY <3>1, <3>2
    <2> QED
      BY <2>1, <2>2, <2>3 DEF EnvStep
  <1>9. ASSUME NEW policy \in Policies, UiSetConfig(policy) PROVE EnvStep
    BY <1>9, <1>s DEF UiSetConfig, EnvStep, EnvEffect
  <1> QED
    BY <1>1, <1>2, <1>3, <1>4, <1>5, <1>6, <1>7, <1>8, <1>9 DEF UiNext, UiContinue

LEMMA SchedulerEffect ==
    ASSUME TypeInv, SchedulerNext
    PROVE  QuietStep \/ TakeStep \/ StartStep \/ BindStep \/ FailStep
  <1>h. Scheduler \in Threads
    BY DEF Threads, Scheduler
  <1>t. ThreadsTypeOK
    BY DEF TypeInv
  <1>c. ConfigTypeOK
    BY DEF TypeInv, UserOK
  <1>s. ASSUME UNCHANGED sessionVars PROVE NoNewClaims
    BY <1>s, SameClaims DEF sessionVars
  <1>1. CASE Tick \/ CountActive \/ TakeNothing
    <2>1. /\ UNCHANGED sessionVars /\ tasks' = tasks
          /\ thread[Scheduler].pc \in {"asleep", "count", "take"}
          /\ thread'[Scheduler].pc \in {"asleep", "count", "take"}
      BY <1>1, <1>h, <1>t, <1>c, GotoFacts, TickFacts DEF Tick, CountActive, TakeNothing, At
    <2> QED
      BY <2>1, <1>s DEF QuietStep, TakenPcs
  <1>2. CASE FindNone \/ SpawnFails
    <2>1. /\ UNCHANGED sessionVars /\ tasks' = tasks
          /\ thread[Scheduler].pc \in {"find", "spawn"}
          /\ thread'[Scheduler].pc \in {"spawn", "fail"}
          /\ thread'[Scheduler].task = thread[Scheduler].task
      BY <1>2, <1>h, <1>t, GotoFacts DEF FindNone, SpawnFails, At
    <2> QED
      BY <2>1, <1>s DEF QuietStep, TakenPcs
  <1>3. ASSUME NEW s \in Sessions, FindIdle(s) \/ SpawnWorker(s) PROVE QuietStep
    <2>1. /\ tasks' = tasks
          /\ thread[Scheduler].pc \in {"find", "spawn"}
          /\ thread'[Scheduler].pc = "start"
          /\ thread'[Scheduler].task = thread[Scheduler].task
      BY <1>3, <1>h, <1>t DEF FindIdle, SpawnWorker, At, ThreadsTypeOK, Thread
    <2>2. NoNewClaims
      <3>1. CASE FindIdle(s)
        BY <3>1, <1>s DEF FindIdle
      <3>2. CASE SpawnWorker(s)
        <4>1. TaskContext[Held] \in Contexts
          BY <3>2, TaskContextAssumption DEF SpawnWorker, At, TypeInv, HeldByThreads, Held
        <4> QED
          BY <3>2, <4>1, SpawnClaims DEF SpawnWorker
      <3> QED
        BY <1>3, <3>1, <3>2
    <2> QED
      BY <2>1, <2>2 DEF QuietStep, TakenPcs
  <1>4. ASSUME NEW t \in Tasks, TakeTask(t) PROVE TakeStep
    <2>1. /\ thread'[Scheduler].pc \in {"find", "spawn"}
          /\ thread'[Scheduler].task = t
      BY <1>4, <1>h, <1>t DEF TakeTask, AfterTake, ThreadsTypeOK, Thread
    <2> QED
      BY <1>4, <2>1, <1>s DEF TakeTask, At, TakeStep, TakenPcs
  <1>5. CASE StartHeld
    <2>1. Held \in Tasks /\ thread[Scheduler].sid \in Sessions \cup {NoSession}
      BY <1>5, <1>h DEF StartHeld, At, TypeInv, HeldByThreads, Held, ThreadsTypeOK, Thread
    <2>2. thread'[Scheduler].pc = "bind" /\ thread'[Scheduler].task = Held
      BY <1>5, <1>h, <1>t, GotoFacts DEF StartHeld, Held
    <2> QED
      BY <1>5, <2>1, <2>2, <1>s DEF StartHeld, At, StartStep
  <1>6. CASE BindHeld
    <2>1. Held \in Tasks
      BY <1>6 DEF BindHeld, At, TypeInv, HeldByThreads, Held
    <2>2. \A r \in Sessions \ {thread[Scheduler].sid} : info'[r] = info[r]
      BY <1>6, <2>1, BindFacts DEF BindHeld, TypeInv, SessionsTypeOK, InfoTypeOK
    <2>3. \A r \in Sessions \cap registry :
            r = thread[Scheduler].sid => info'[r].current_task = Held
      BY <1>6, <2>1, BindFacts DEF BindHeld, TypeInv, SessionsTypeOK, InfoTypeOK
    <2>4. \A s \in Sessions, t \in Tasks :
            Claims(s, t)' => Claims(s, t) \/ (s = thread[Scheduler].sid /\ t = Held)
      BY <1>6, <2>2, <2>3 DEF BindHeld, Claims
    <2>5. thread'[Scheduler].pc = "lookup"
      BY <1>6, <1>h, <1>t, GotoFacts DEF BindHeld
    <2> QED
      BY <1>6, <2>4, <2>5 DEF BindHeld, At, BindStep
  <1>7. CASE SendNext(Scheduler)
    <2>1. NoNewClaims
      BY <1>7, <1>h, SendClaims
    <2>2. CASE FailHeld(Scheduler)
      <3>1. thread'[Scheduler].pc = "count"
        BY <2>2, <1>h, <1>t, FinishFacts DEF FailHeld
      <3> QED
        BY <2>1, <2>2, <3>1 DEF FailHeld, At, TypeInv, HeldByThreads, Held, FailStep
    <2>3. CASE ~FailHeld(Scheduler)
      <3>1. /\ tasks' = tasks
            /\ thread[Scheduler].pc \in {"lookup", "write", "mark"}
            /\ thread'[Scheduler].pc \in {"write", "mark", "fail", "count"}
        BY <1>7, <2>3, <1>h, <1>t, GotoFacts, FinishFacts
           DEF SendNext, SendLookup, SendWrite, SendBroken, SendMark, SendError, At
      <3> QED
        BY <2>1, <3>1 DEF QuietStep, TakenPcs
    <2> QED
      BY <2>2, <2>3
  <1> QED
    BY <1>1, <1>2, <1>3, <1>4, <1>5, <1>6, <1>7 DEF SchedulerNext

\* Every step is one of six kinds.
LEMMA StepKinds ==
    ASSUME TypeInv, [Next]_vars
    PROVE  EnvStep \/ QuietStep \/ TakeStep \/ StartStep \/ BindStep \/ FailStep
  <1>1. CASE UNCHANGED vars
    BY <1>1, SameClaims DEF vars, EnvStep, EnvEffect
  <1>2. ASSUME NEW s \in Sessions, AgentStep(s) PROVE EnvStep
    BY <1>2, SameClaims DEF AgentStep, sessionVars, EnvStep, EnvEffect
  <1>3. CASE Next
    BY <1>2, <1>3, SchedulerEffect, UiEffect, ReaderEffect DEF Next
  <1> QED
    BY <1>1, <1>3

-----------------------------------------------------------------------------
(* The inductive invariant and the theorems.                               *)

\* A task has an attempt left as long as it may still be started.
AttemptsInv ==
    \A t \in Tasks :
        /\ tasks[t].attempts =< MaxAttempts[t]
        /\ \/ tasks[t].status \in {"Absent", "Queued"}
           \/ Held = t /\ thread[Scheduler].pc \in TakenPcs
           => tasks[t].attempts < MaxAttempts[t]

\* No one but the scheduler gives a status to the task it has taken or just started, but for a
\* stale failure.
HeldStatus ==
    /\ thread[Scheduler].pc \in TakenPcs => tasks[Held].status \in {"Assigned", "Failed"}
    /\ thread[Scheduler].pc = "bind" => tasks[Held].status \in {"Running", "Failed"}

\* No task is there at first, and the scheduler sleeps.
LEMMA InitFacts ==
    Start => /\ \A t \in Tasks : tasks[t].status = "Absent" /\ tasks[t].attempts = 0
            /\ thread[Scheduler].pc = "asleep"
  <1> SUFFICES ASSUME Start
               PROVE  /\ \A t \in Tasks : tasks[t].status = "Absent" /\ tasks[t].attempts = 0
                      /\ thread[Scheduler].pc = "asleep"
    OBVIOUS
  <1>1. \A t \in Tasks : tasks[t].status = "Absent" /\ tasks[t].attempts = 0
    BY DEF Start, TasksInit, NewTask
  <1>2. thread[Scheduler].pc = "asleep"
    BY DEF Start, NewThread, Threads, Scheduler, Ui
  <1> QED
    BY <1>1, <1>2

LEMMA AttemptsInit == Start => AttemptsInv
  <1> SUFFICES ASSUME Start PROVE AttemptsInv
    OBVIOUS
  <1>1. \A t \in Tasks : 0 =< MaxAttempts[t] /\ 0 < MaxAttempts[t]
    BY MaxAttemptsAssumption
  <1> QED
    BY <1>1, InitFacts DEF AttemptsInv

LEMMA AttemptsStep == TypeInv /\ AttemptsInv /\ [Next]_vars => AttemptsInv'
  <1> SUFFICES ASSUME TypeInv, AttemptsInv, [Next]_vars PROVE AttemptsInv'
    OBVIOUS
  <1>t. TasksTypeOK
    BY DEF TypeInv
  <1>a. \A t \in Tasks : tasks[t].attempts \in Nat /\ MaxAttempts[t] \in Nat
    BY <1>t, MaxAttemptsAssumption DEF TasksTypeOK, Task
  <1>1. CASE EnvStep
    <2>1. CASE tasks' = tasks
      BY <1>1, <2>1 DEF EnvStep, AttemptsInv, Held
    <2>2. ASSUME NEW t \in Tasks, EnqueueTask(t) \/ CancelTask(t) \/ FailTask(t)
          PROVE  AttemptsInv'
      <3>1. /\ Others(t) /\ tasks'[t].attempts = tasks[t].attempts
            /\ tasks'[t].status = "Queued" => tasks[t].status = "Absent"
            /\ tasks'[t].status # "Absent"
        BY <1>t, <2>2, EnqueueFacts, CancelFacts, FailFacts
      <3> QED
        BY <1>1, <3>1 DEF EnvStep, AttemptsInv, Held, Others
    <2>3. ASSUME NEW t \in Tasks, NEW s \in Sessions, SettleTask(t, reader[s].is_error)
          PROVE  AttemptsInv'
      <3>1. /\ Others(t) /\ tasks'[t].attempts = tasks[t].attempts
            /\ tasks'[t].status \in {"Done", "Failed"}
        BY <1>t, <2>3, SettleFacts
      <3> QED
        BY <1>1, <3>1 DEF EnvStep, AttemptsInv, Held, Others
    <2>4. ASSUME NEW t \in Tasks, RecoverTask(t) PROVE AttemptsInv'
      <3>1. /\ Others(t) /\ tasks'[t].attempts = tasks[t].attempts
            /\ \/ tasks'[t].status = "Queued" /\ tasks[t].attempts < MaxAttempts[t]
               \/ tasks'[t].status = "Failed"
        BY <1>t, <2>4, RecoverFacts
      <3> QED
        BY <1>1, <3>1 DEF EnvStep, AttemptsInv, Held, Others
    <2> QED
      BY <1>1, <2>1, <2>2, <2>3, <2>4 DEF EnvStep, EnvEffect
  <1>2. CASE QuietStep
    BY <1>2 DEF QuietStep, AttemptsInv, Held
  <1>3. CASE TakeStep
    <2>1. PICK t \in Tasks : t = thread'[Scheduler].task
      BY <1>3 DEF TakeStep
    <2>2. /\ Others(t) /\ tasks'[t].attempts = tasks[t].attempts
          /\ tasks[t].status = "Queued" /\ tasks'[t].status = "Assigned"
      BY <1>3, <1>t, <2>1, TakeFacts DEF TakeStep
    <2> QED
      BY <2>1, <2>2 DEF AttemptsInv, Held, Others
  <1>4. CASE StartStep
    <2>1. PICK t \in Tasks : t = Held
      BY <1>4 DEF StartStep
    <2>2. /\ Others(t) /\ tasks'[t].attempts = tasks[t].attempts + 1
          /\ tasks'[t].status = "Running"
      BY <1>4, <1>t, <2>1, StartFacts DEF StartStep
    <2>3. tasks[t].attempts < MaxAttempts[t]
      BY <1>4, <2>1 DEF StartStep, AttemptsInv, TakenPcs
    <2>4. thread'[Scheduler].pc \notin TakenPcs
      BY <1>4 DEF StartStep, TakenPcs
    <2> QED
      BY <1>a, <2>1, <2>2, <2>3, <2>4 DEF AttemptsInv, Held, Others
  <1>5. CASE BindStep
    BY <1>5 DEF BindStep, AttemptsInv, Held, TakenPcs
  <1>6. CASE FailStep
    <2>1. PICK t \in Tasks : t = Held
      BY <1>6 DEF FailStep
    <2>2. /\ Others(t) /\ tasks'[t].attempts = tasks[t].attempts
          /\ tasks'[t].status = "Failed"
      BY <1>6, <1>t, <2>1, FailFacts DEF FailStep
    <2>3. thread'[Scheduler].pc \notin TakenPcs
      BY <1>6 DEF FailStep, TakenPcs
    <2> QED
      BY <2>2, <2>3 DEF AttemptsInv, Held, Others
  <1> QED
    BY <1>1, <1>2, <1>3, <1>4, <1>5, <1>6, StepKinds

\* Retries stop at max_attempts, whatever the users, the agents and the other threads do.
THEOREM AttemptsLimited == Spec => []AttemptsWithinLimit
  <1>1. AttemptsInv => AttemptsWithinLimit
    BY DEF AttemptsInv, AttemptsWithinLimit, TakenByScheduler, TakenPcs
  <1> QED
    BY InitStarts, TypeInit, TypeStep, AttemptsInit, AttemptsStep, <1>1, PTL DEF Spec

LEMMA AssignedStep == TypeInv /\ AssignedIsHeld /\ [Next]_vars => AssignedIsHeld'
  <1> SUFFICES ASSUME TypeInv, AssignedIsHeld, [Next]_vars PROVE AssignedIsHeld'
    OBVIOUS
  <1>t. TasksTypeOK
    BY DEF TypeInv
  <1> USE DEF AssignedIsHeld, WithStatus, Held
  <1>1. CASE EnvStep
    <2>1. CASE tasks' = tasks
      BY <1>1, <2>1 DEF EnvStep
    <2>2. ASSUME NEW t \in Tasks, EnqueueTask(t) \/ CancelTask(t) \/ FailTask(t)
          PROVE  AssignedIsHeld'
      <3>1. Others(t) /\ tasks'[t].status # "Assigned"
        BY <1>t, <2>2, EnqueueFacts, CancelFacts, FailFacts
      <3> QED
        BY <1>1, <3>1 DEF EnvStep, Others
    <2>3. ASSUME NEW t \in Tasks, NEW s \in Sessions,
                 SettleTask(t, reader[s].is_error) \/ RecoverTask(t)
          PROVE  AssignedIsHeld'
      <3>1. Others(t) /\ tasks'[t].status # "Assigned"
        BY <1>t, <2>3, SettleFacts, RecoverFacts
      <3> QED
        BY <1>1, <3>1 DEF EnvStep, Others
    <2> QED
      BY <1>1, <2>1, <2>2, <2>3 DEF EnvStep, EnvEffect
  <1>2. CASE QuietStep
    BY <1>2 DEF QuietStep, TakenPcs
  <1>3. CASE TakeStep
    <2>1. PICK t \in Tasks : t = thread'[Scheduler].task
      BY <1>3 DEF TakeStep
    <2>2. Others(t)
      BY <1>3, <1>t, <2>1, TakeFacts DEF TakeStep
    <2> QED
      BY <1>3, <2>1, <2>2 DEF TakeStep, TakenPcs, Others
  <1>4. CASE StartStep
    <2>1. PICK t \in Tasks : t = Held
      BY <1>4 DEF StartStep
    <2>2. Others(t) /\ tasks'[t].status = "Running"
      BY <1>4, <1>t, <2>1, StartFacts DEF StartStep
    <2> QED
      BY <2>1, <2>2 DEF Others
  <1>5. CASE BindStep
    BY <1>5 DEF BindStep
  <1>6. CASE FailStep
    <2>1. PICK t \in Tasks : t = Held
      BY <1>6 DEF FailStep
    <2>2. Others(t) /\ tasks'[t].status = "Failed"
      BY <1>6, <1>t, <2>1, FailFacts DEF FailStep
    <2> QED
      BY <2>1, <2>2 DEF Others
  <1> QED
    BY <1>1, <1>2, <1>3, <1>4, <1>5, <1>6, StepKinds

\* A task marked Assigned is always in the scheduler's hands.
THEOREM AssignedHeld == Spec => []AssignedIsHeld
  <1>1. Start => AssignedIsHeld
    BY InitFacts DEF AssignedIsHeld, WithStatus
  <1> QED
    BY InitStarts, TypeInit, TypeStep, <1>1, AssignedStep, PTL DEF Spec
-----------------------------------------------------------------------------
(* Ownership.  SingleClaim is inductive together with HeldStatus: BindStep *)
(* gives a worker the task that StartStep started, and nothing must have   *)
(* put that task back in the queue in between.                             *)

OwnerInv == SingleClaim /\ HeldStatus

LEMMA OwnerInit == Start => OwnerInv
  <1> SUFFICES ASSUME Start PROVE OwnerInv
    OBVIOUS
  <1>1. \A s \in Sessions, t \in Tasks : ~Claims(s, t)
    BY DEF Start, SessionsInit, NewReader, Claims
  <1> QED
    BY <1>1, InitFacts DEF OwnerInv, SingleClaim, HeldStatus, TakenPcs

\* What OwnerInv says of one task.
LEMMA OwnerFacts ==
    ASSUME OwnerInv, NEW t \in Tasks
    PROVE  /\ \A r, s \in Sessions : Claims(r, t) /\ Claims(s, t) => r = s
           /\ \/ tasks[t].status \in {"Absent", "Queued", "Canceled"}
              \/ Held = t /\ thread[Scheduler].pc \in TakenPcs \cup {"bind"}
              => \A s \in Sessions : ~Claims(s, t)
  BY DEF OwnerInv, SingleClaim, TakenByScheduler, TakenPcs, At

\* A step of the environment changes one task at most, and the task it changes keeps its owner.
LEMMA EnvKeepsOwner == ASSUME TypeInv, OwnerInv, EnvStep PROVE OwnerInv'
  <1>t. TasksTypeOK
    BY DEF TypeInv
  <1>1. SUFFICES ASSUME NEW u \in Tasks,
                        \/ tasks'[u] = tasks[u]
                        \/ EnqueueTask(u) \/ CancelTask(u) \/ FailTask(u)
                        \/ \E s \in Sessions : Claims(s, u) /\ SettleTask(u, reader[s].is_error)
                        \/ \E s \in Sessions : Claims(s, u) /\ ~Claims(s, u)' /\ RecoverTask(u)
                 PROVE  /\ tasks'[u].status \in {"Absent", "Queued", "Canceled"} =>
                              \A s \in Sessions : ~Claims(s, u)'
                        /\ u = Held /\ thread[Scheduler].pc \in TakenPcs =>
                              tasks'[u].status \in {"Assigned", "Failed"}
                        /\ u = Held /\ thread[Scheduler].pc = "bind" =>
                              tasks'[u].status \in {"Running", "Failed"}
    <2>1. ASSUME NEW t \in Tasks PROVE
            /\ tasks'[t].status \in {"Absent", "Queued", "Canceled"} =>
                  \A s \in Sessions : ~Claims(s, t)'
            /\ t = Held /\ thread[Scheduler].pc \in TakenPcs =>
                  tasks'[t].status \in {"Assigned", "Failed"}
            /\ t = Held /\ thread[Scheduler].pc = "bind" =>
                  tasks'[t].status \in {"Running", "Failed"}
      <3>1. \A w \in Tasks : EnqueueTask(w) \/ CancelTask(w) \/ FailTask(w) => Others(w)
        BY <1>t, EnqueueFacts, CancelFacts, FailFacts
      <3>2. \A w \in Tasks, s \in Sessions :
              SettleTask(w, reader[s].is_error) \/ RecoverTask(w) => Others(w)
        BY <1>t, SettleFacts, RecoverFacts
      <3> QED
        BY <1>1, <3>1, <3>2 DEF EnvStep, EnvEffect, Others
    <2>2. thread[Scheduler].pc \in TakenPcs \cup {"bind"} => Held \in Tasks
      BY DEF TypeInv, HeldByThreads, Held, TakenPcs
    <2>3. \A t \in Tasks : \A r, s \in Sessions : Claims(r, t)' /\ Claims(s, t)' => r = s
      BY OwnerFacts DEF EnvStep, NoNewClaims
    <2>4. \A t \in Tasks : Held = t /\ thread[Scheduler].pc \in TakenPcs \cup {"bind"} =>
              \A s \in Sessions : ~Claims(s, t)'
      BY OwnerFacts DEF EnvStep, NoNewClaims
    <2>5. thread'[Scheduler] = thread[Scheduler]
      BY DEF EnvStep
    <2>6. HeldStatus'
      BY <2>1, <2>2, <2>5 DEF HeldStatus, Held
    <2>7. SingleClaim'
      BY <2>1, <2>3, <2>4, <2>5 DEF SingleClaim, TakenByScheduler, At, Held, TakenPcs
    <2> QED
      BY <2>6, <2>7 DEF OwnerInv
  <1>2. HeldStatus
    BY DEF OwnerInv
  <1>n. NoNewClaims
    BY DEF EnvStep
  <1>3. CASE tasks'[u] = tasks[u]
    BY <1>2, <1>3, <1>n, OwnerFacts DEF NoNewClaims, HeldStatus
  <1>4. CASE EnqueueTask(u)
    BY <1>2, <1>4, <1>n, <1>t, EnqueueFacts, OwnerFacts DEF NoNewClaims, HeldStatus
  <1>5. CASE CancelTask(u)
    BY <1>2, <1>5, <1>n, <1>t, CancelFacts, OwnerFacts DEF NoNewClaims, HeldStatus
  <1>6. CASE FailTask(u)
    BY <1>6, <1>t, FailFacts
  <1>7. ASSUME NEW s \in Sessions, Claims(s, u), SettleTask(u, reader[s].is_error) PROVE
          /\ tasks'[u].status \notin {"Absent", "Queued", "Canceled"}
          /\ ~(u = Held /\ thread[Scheduler].pc \in TakenPcs \cup {"bind"})
    BY <1>7, <1>t, SettleFacts, OwnerFacts
  <1>8. ASSUME NEW s \in Sessions, Claims(s, u), ~Claims(s, u)', RecoverTask(u) PROVE
          /\ \A r \in Sessions : ~Claims(r, u)'
          /\ ~(u = Held /\ thread[Scheduler].pc \in TakenPcs \cup {"bind"})
    BY <1>8, <1>n, OwnerFacts DEF NoNewClaims
  <1> QED
    BY <1>1, <1>3, <1>4, <1>5, <1>6, <1>7, <1>8

LEMMA OwnerStep == TypeInv /\ OwnerInv /\ [Next]_vars => OwnerInv'
  <1> SUFFICES ASSUME TypeInv, OwnerInv, [Next]_vars PROVE OwnerInv'
    OBVIOUS
  <1>t. TasksTypeOK
    BY DEF TypeInv
  <1>o. SingleClaim /\ HeldStatus
    BY DEF OwnerInv
  \* A step that makes no claim: the statuses and the scheduler's hands remain to be looked at.
  <1>c. ASSUME NoNewClaims, HeldStatus',
               \A t \in Tasks : \/ tasks'[t].status \in {"Absent", "Queued", "Canceled"}
                                \/ /\ thread'[Scheduler].task = t
                                   /\ thread'[Scheduler].pc \in TakenPcs \cup {"bind"}
                                => \A s \in Sessions : ~Claims(s, t)
        PROVE  OwnerInv'
    BY <1>c, <1>o DEF OwnerInv, SingleClaim, NoNewClaims, TakenByScheduler, TakenPcs, At, Held
  <1>1. CASE EnvStep
    BY <1>1, EnvKeepsOwner
  <1>2. CASE QuietStep
    <2>1. HeldStatus'
      BY <1>2, <1>o DEF QuietStep, HeldStatus, Held
    <2> QED
      BY <1>2, <1>c, <2>1, OwnerFacts DEF QuietStep, Held
  <1>3. CASE TakeStep
    <2>1. PICK t \in Tasks : t = thread'[Scheduler].task
      BY <1>3 DEF TakeStep
    <2>2. /\ Others(t) /\ tasks[t].status = "Queued" /\ tasks'[t].status = "Assigned"
      BY <1>3, <1>t, <2>1, TakeFacts DEF TakeStep
    <2>3. HeldStatus'
      BY <1>3, <2>1, <2>2 DEF TakeStep, HeldStatus, Held, TakenPcs
    <2> QED
      BY <1>3, <1>c, <2>1, <2>2, <2>3, OwnerFacts DEF TakeStep, Others
  <1>4. CASE StartStep
    <2>1. PICK t \in Tasks : t = Held
      BY <1>4 DEF StartStep
    <2>2. Others(t) /\ tasks'[t].status = "Running"
      BY <1>4, <1>t, <2>1, StartFacts DEF StartStep
    <2>3. HeldStatus'
      BY <1>4, <2>1, <2>2 DEF StartStep, HeldStatus, Held, TakenPcs
    <2> QED
      BY <1>4, <1>c, <2>1, <2>2, <2>3, OwnerFacts DEF StartStep, Others, TakenPcs
  <1>5. CASE BindStep
    <2>1. thread[Scheduler].pc = "bind" /\ thread'[Scheduler].pc = "lookup" /\ tasks' = tasks
      BY <1>5 DEF BindStep
    <2>2. PICK t \in Tasks : t = Held
      BY <2>1 DEF TypeInv, HeldByThreads, Held
    <2>3. tasks[t].status \in {"Running", "Failed"} /\ \A s \in Sessions : ~Claims(s, t)
      BY <1>o, <2>1, <2>2, OwnerFacts DEF HeldStatus
    <2>4. \A u \in Tasks, s \in Sessions :
            Claims(s, u)' => Claims(s, u) \/ (s = thread[Scheduler].sid /\ u = t)
      BY <1>5, <2>2 DEF BindStep
    <2>5. \A u \in Tasks : \A r, s \in Sessions : Claims(r, u)' /\ Claims(s, u)' => r = s
      BY <2>3, <2>4, OwnerFacts
    <2>6. \A u \in Tasks : tasks'[u].status \in {"Absent", "Queued", "Canceled"} =>
              \A s \in Sessions : ~Claims(s, u)'
      BY <2>1, <2>3, <2>4, OwnerFacts
    <2>7. SingleClaim' /\ HeldStatus'
      BY <2>1, <2>5, <2>6 DEF SingleClaim, HeldStatus, TakenByScheduler, TakenPcs, At
    <2> QED
      BY <2>7 DEF OwnerInv
  <1>6. CASE FailStep
    <2>1. PICK t \in Tasks : t = Held
      BY <1>6 DEF FailStep
    <2>2. Others(t) /\ tasks'[t].status = "Failed"
      BY <1>6, <1>t, <2>1, FailFacts DEF FailStep
    <2>3. HeldStatus'
      BY <1>6 DEF FailStep, HeldStatus, TakenPcs
    <2> QED
      BY <1>6, <1>c, <2>2, <2>3, OwnerFacts DEF FailStep, Others, TakenPcs
  <1> QED
    BY <1>1, <1>2, <1>3, <1>4, <1>5, <1>6, StepKinds

\* At most one session may settle or recover a task, and none while it waits.
THEOREM SingleOwner == Spec => []SingleClaim
  <1>1. OwnerInv => SingleClaim
    BY DEF OwnerInv
  <1> QED
    BY InitStarts, TypeInit, TypeStep, OwnerInit, OwnerStep, <1>1, PTL DEF Spec

\* A canceled task belongs to no one, and the scheduler does not hold it to start it.
LEMMA CanceledStays ==
    ASSUME TypeInv, OwnerInv, [Next]_vars, NEW t \in Tasks, tasks[t].status = "Canceled"
    PROVE  tasks'[t].status \in {"Canceled", "Failed"}
  <1>t. TasksTypeOK
    BY DEF TypeInv
  <1>0. \A s \in Sessions : ~Claims(s, t)
    BY OwnerFacts
  <1>1. CASE EnvStep
    <2>1. \A u \in Tasks : EnqueueTask(u) \/ CancelTask(u) =>
              Others(u) /\ tasks[u].status # "Canceled"
      BY <1>t, EnqueueFacts, CancelFacts
    <2>2. \A u \in Tasks : FailTask(u) => Others(u) /\ tasks'[u].status = "Failed"
      BY <1>t, FailFacts
    <2>3. \A u \in Tasks, s \in Sessions :
            SettleTask(u, reader[s].is_error) \/ RecoverTask(u) => Others(u)
      BY <1>t, SettleFacts, RecoverFacts
    <2> QED
      BY <1>0, <1>1, <2>1, <2>2, <2>3 DEF EnvStep, EnvEffect, Others
  <1>2. CASE QuietStep \/ BindStep
    BY <1>2 DEF QuietStep, BindStep
  <1>3. CASE TakeStep
    BY <1>3, <1>t, TakeFacts DEF TakeStep, Others
  <1>4. CASE StartStep
    <2>1. tasks[Held].status # "Canceled" /\ Held \in Tasks
      BY <1>4 DEF StartStep, OwnerInv, HeldStatus, TakenPcs
    <2> QED
      BY <1>4, <1>t, <2>1, StartFacts DEF StartStep, Others
  <1>6. CASE FailStep
    BY <1>6, <1>t, FailFacts DEF FailStep, Others
  <1> QED
    BY <1>1, <1>2, <1>3, <1>4, <1>6, StepKinds

\* A canceled task is never queued, taken or started again.
THEOREM CancelIsRespected == Spec => CanceledNeverRuns
  <1>1. TypeInv /\ OwnerInv /\ [Next]_vars =>
          [\A t \in WithStatus("Canceled") : tasks'[t].status \in {"Canceled", "Failed"}]_vars
    BY CanceledStays DEF WithStatus
  <1> QED
    BY InitStarts, TypeInit, TypeStep, OwnerInit, OwnerStep, <1>1, PTL DEF Spec, CanceledNeverRuns
=============================================================================
