-------------------------- MODULE PublicationProofs --------------------------
(***************************************************************************)
(* Theorems about Publication, over any number of restarts: what the       *)
(* database and the window say of tasks and sessions, whatever order the   *)
(* copies of the threads reach them in.                                    *)
(***************************************************************************)
EXTENDS Publication, WorkerProofs

-----------------------------------------------------------------------------
(* The steps of Publication are those of Orchestrator, or a restart.       *)

LEMMA Ids ==
    /\ NoTask \notin Things /\ NoSession \notin Things
    /\ \A s \in Sessions : s \notin Tasks /\ s \notin Threads
    /\ Scheduler \in Actors /\ Ui \in Actors /\ Scheduler # Ui
    /\ \A s \in Sessions : s \in Actors /\ s # Ui /\ s # Scheduler
  BY NoTaskAssumption, NoSessionAssumption, IdsAssumption
     DEF Things, Actors, Threads, Scheduler, Ui

\* What the orchestrator does in a step of Publication.
Work ==
    \/ PubScheduler \/ PubUi
    \/ \E s \in Sessions : PubReader(s) \/ (AgentStep(s) /\ Silent)

LEMMA WorkIsNext == Work => Next
  <1>1. PubScheduler => SchedulerNext
    BY DEF PubScheduler, SchedulerNext, SendNext
  <1>2. PubUi => UiNext
    BY DEF PubUi, UiNext, UiContinue, SendNext
  <1>3. ASSUME NEW s \in Sessions, PubReader(s) PROVE ReaderStep(s)
    BY <1>3 DEF PubReader, ReaderStep, ReaderNext
  <1> QED
    BY <1>1, <1>2, <1>3 DEF Work, Next

\* A restart leaves what the program starts with.
LEMMA RestartStarts ==
    ASSUME TypeInv, Restart
    PROVE  (Start /\ UserOK)'
  <1>1. TasksInit' /\ AgentsInit' /\ SessionsInit'
    BY DEF Restart, TasksInit, AgentsInit, SessionsInit
  <1>2. UserOK'
    BY DEF Restart, TypeInv, UserOK, ConfigTypeOK
  <1>3. (thread = [h \in Threads |-> NewThread(h)])'
    BY DEF Restart, NewThread
  <1> QED
    BY <1>1, <1>2, <1>3 DEF Start, UserOK, ConfigTypeOK

\* Every step works, publishes or restarts.
LEMMA PubSteps ==
    ASSUME TypeInv, [PubNext]_allVars
    PROVE  \/ Work /\ before' = before
           \/ \E a \in Actors : Upsert(a) \/ Emission(a)
           \/ Deliver
           \/ Restart
           \/ UNCHANGED allVars
  BY DEF PubNext, Work

LEMMA PubIsNext == TypeInv /\ [PubNext]_allVars => [Next]_vars \/ (Start /\ UserOK)'
  <1> SUFFICES ASSUME TypeInv, [PubNext]_allVars PROVE [Next]_vars \/ (Start /\ UserOK)'
    OBVIOUS
  <1> QED
    BY PubSteps, WorkIsNext, RestartStarts DEF Upsert, Emission, Deliver, allVars

\* The invariants of Orchestrator hold of Publication.
LEMMA PubTypeStep == TypeInv /\ [PubNext]_allVars => TypeInv'
  BY PubIsNext, TypeInit, TypeStep, PTL

LEMMA PubOwnerStep == TypeInv /\ OwnerInv /\ [PubNext]_allVars => OwnerInv'
  BY PubIsNext, OwnerInit, OwnerStep, PTL

LEMMA PubLinkStep == TypeInv /\ OwnerInv /\ LinkInv /\ [PubNext]_allVars => LinkInv'
  BY PubIsNext, LinkInit, LinkStep, PTL

LEMMA PubPipeStep == TypeInv /\ LinkInv /\ PipeInv /\ NoSends /\ [PubNext]_allVars => PipeInv'
  BY PubIsNext, PipeInit, PipeStep, PTL

-----------------------------------------------------------------------------
(* What a step of the orchestrator may do to what is published: it changes *)
(* nothing that is, or it changes one thing and copies it.                 *)

\* What is published of x stays so, or x is no more.
Still(x) == Known(x)' => Known(x) /\ PublishedStatus(x)' = PublishedStatus(x)

Lone(x) == \A y \in Things \ {x} : Still(y)

SilentStep ==
    /\ Silent
    /\ \A x \in Things : Still(x)
    /\ Free(Scheduler) \/ thread'[Scheduler] = thread[Scheduler]

\* What the copy of a task may say, and who has it.
CopySays(a, t) ==
    /\ tasks'[t].status # "Assigned"
    /\ tasks'[t].status = "Running" =>
          a = Scheduler /\ thread'[Scheduler].pc = "bind" /\ thread'[Scheduler].task = t
    /\ tasks'[t].status = "Done" => a \in Sessions

LoudStep(a, x) ==
    /\ Free(a)
    /\ CopyTo(a, x, "row")
    /\ Lone(x)
    /\ x \in Tasks => CopySays(a, x)
    /\ a # Scheduler => thread'[Scheduler] = thread[Scheduler]

LEMMA TaskStill ==
    ASSUME NEW t \in Tasks,
           \/ tasks'[t].status = tasks[t].status
           \/ tasks[t].status = "Queued" /\ tasks'[t].status = "Assigned"
    PROVE  Still(t)
  BY DEF Still, Known, PublishedStatus, StatusOf

LEMMA SessionStill ==
    ASSUME NEW s \in Sessions, s \in registry' => s \in registry /\ info'[s].status = info[s].status
    PROVE  Still(s)
  BY Ids DEF Still, Known, PublishedStatus, StatusOf

LEMMA AllStill ==
    ASSUME tasks' = tasks,
           \A s \in Sessions : s \in registry' => s \in registry /\ info'[s].status = info[s].status
    PROVE  \A x \in Things : Still(x)
  BY TaskStill, SessionStill DEF Things

\* A step of the task table changes one task.
LEMMA LoneTask ==
    ASSUME NEW t \in Tasks, Others(t), UNCHANGED <<registry, info>>
    PROVE  Lone(t)
  BY TaskStill, SessionStill DEF Lone, Things, Others

\* A step of the registry changes one session.
LEMMA LoneSession ==
    ASSUME NEW s, tasks' = tasks,
           \A r \in Sessions \ {s} :
               r \in registry' => r \in registry /\ info'[r].status = info[r].status
    PROVE  Lone(s)
  BY TaskStill, SessionStill DEF Lone, Things

\* What a thread in hand announces.
LEMMA Announced ==
    ASSUME NEW a, NEW x, Announce(a, x)
    PROVE  x \in Things /\ CopyTo(a, x, "row")
  BY DEF Announce

LEMMA SchedulerShapes ==
    ASSUME TypeInv, PubScheduler
    PROVE  SilentStep \/ \E x \in Things : LoudStep(Scheduler, x)
  <1>h. Scheduler \in Threads /\ Scheduler # Ui
    BY DEF Threads, Scheduler, Ui
  <1>t. TasksTypeOK /\ ThreadsTypeOK /\ InfoTypeOK
    BY DEF TypeInv, SessionsTypeOK, InfoTypeOK
  <1>f. Free(Scheduler)
    BY DEF PubScheduler
  <1>1. CASE StartHeld /\ Announce(Scheduler, Held)
    <2>1. /\ Held \in Tasks /\ thread[Scheduler].sid \in Sessions \cup {NoSession}
          /\ StartTask(Held, thread[Scheduler].sid) /\ Goto(Scheduler, "bind")
          /\ UNCHANGED <<registry, info>>
      BY <1>1, <1>t, <1>h
         DEF StartHeld, At, TypeInv, HeldByThreads, Held, sessionVars, ThreadsTypeOK, Thread
    <2>2. Lone(Held) /\ tasks'[Held].status = "Running"
      BY <2>1, <1>t, StartFacts, LoneTask
    <2>3. thread'[Scheduler].pc = "bind" /\ thread'[Scheduler].task = Held
      BY <2>1, <1>t, <1>h, GotoFacts DEF Held
    <2>4. LoudStep(Scheduler, Held)
      BY <1>1, <1>f, <2>2, <2>3, Announced DEF LoudStep, CopySays
    <2> QED
      BY <2>1, <2>4 DEF Things
  <1>2. CASE FailHeld(Scheduler) /\ Announce(Scheduler, Held)
    <2>1. Held \in Tasks /\ FailTask(Held) /\ UNCHANGED <<registry, info>>
      BY <1>2, <1>h DEF FailHeld, At, TypeInv, HeldByThreads, Held, sessionVars
    <2>2. Lone(Held) /\ tasks'[Held].status = "Failed"
      BY <2>1, <1>t, FailFacts, LoneTask
    <2>3. LoudStep(Scheduler, Held)
      BY <1>2, <1>f, <2>2, Announced DEF LoudStep, CopySays
    <2> QED
      BY <2>1, <2>3 DEF Things
  <1> DEFINE worker == thread[Scheduler].sid
  <1>3. CASE (BindHeld \/ SendMark(Scheduler)) /\ Announce(Scheduler, worker)
    <2>1. \A r \in Sessions \ {worker} : info'[r] = info[r]
      <3>1. CASE BindHeld
        <4>1. Held \in Tasks /\ BindTask(worker, Held) /\ registry' = registry
          BY <3>1, <1>h DEF BindHeld, At, TypeInv, HeldByThreads, Held
        <4> QED
          BY <4>1, <1>t, BindFacts
      <3>2. CASE SendMark(Scheduler)
        BY <3>2, <1>t, UpdateStatusFacts DEF SendMark, SessionStatus
      <3> QED
        BY <1>3, <3>1, <3>2
    <2>2. tasks' = tasks /\ registry' = registry
      BY <1>3 DEF BindHeld, SendMark
    <2>3. Lone(worker)
      BY <2>1, <2>2, LoneSession
    <2>4. worker \in Sessions \cup {NoSession}
      BY <1>t, <1>h DEF ThreadsTypeOK, Thread
    <2>5. worker \in Things /\ CopyTo(Scheduler, worker, "row")
      BY <1>3, Announced
    <2>6. worker \notin Tasks
      BY <2>4, Ids, IdsAssumption
    <2>7. LoudStep(Scheduler, worker)
      BY <1>f, <2>3, <2>5, <2>6 DEF LoudStep
    <2> QED
      BY <2>5, <2>7
  <1>4. ASSUME NEW s \in Sessions, SpawnWorker(s), Announce(Scheduler, s)
        PROVE  LoudStep(Scheduler, s) /\ s \in Things
    <2>1. \A r \in Sessions \ {s} : info'[r] = info[r] /\ (r \in registry' => r \in registry)
      BY <1>4, <1>t DEF SpawnWorker, SpawnHeadless, InfoTypeOK
    <2>2. Lone(s)
      BY <1>4, <2>1, LoneSession DEF SpawnWorker
    <2> QED
      BY <1>4, <1>f, <2>2, Announced, Ids DEF LoudStep
  <1>5. CASE /\ \/ Tick \/ CountActive \/ TakeNothing \/ FindNone \/ SpawnFails
                \/ \E s \in Sessions : FindIdle(s)
                \/ SendLookup(Scheduler) \/ SendWrite(Scheduler) \/ SendBroken(Scheduler)
             /\ Silent
    <2>1. tasks' = tasks /\ UNCHANGED sessionVars
      BY <1>5 DEF Tick, CountActive, TakeNothing, FindNone, SpawnFails, FindIdle, SendLookup,
                  SendWrite, SendBroken
    <2>2. \A x \in Things : Still(x)
      BY <2>1, AllStill DEF sessionVars
    <2> QED
      BY <1>5, <1>f, <2>2 DEF SilentStep
  <1>6. ASSUME NEW t \in Tasks, TakeTask(t), Silent
        PROVE  SilentStep
    <2>1. Others(t) /\ tasks[t].status = "Queued" /\ tasks'[t].status = "Assigned"
      BY <1>6, <1>t, TakeFacts DEF TakeTask
    <2>2. Still(t) /\ Lone(t)
      BY <1>6, <2>1, TaskStill, LoneTask DEF TakeTask, sessionVars
    <2> QED
      BY <1>6, <1>f, <2>2 DEF SilentStep, Lone
  <1> HIDE DEF worker
  <1>7. \/ (StartHeld \/ FailHeld(Scheduler)) /\ Announce(Scheduler, Held)
        \/ (BindHeld \/ SendMark(Scheduler)) /\ Announce(Scheduler, worker)
        \/ \E s \in Sessions : SpawnWorker(s) /\ Announce(Scheduler, s)
        \/ /\ \/ Tick \/ CountActive \/ TakeNothing \/ FindNone \/ SpawnFails
              \/ \E t \in Tasks : TakeTask(t)
              \/ \E s \in Sessions : FindIdle(s)
              \/ SendLookup(Scheduler) \/ SendWrite(Scheduler) \/ SendBroken(Scheduler)
           /\ Silent
    BY DEF PubScheduler, worker
  <1> QED
    BY <1>1, <1>2, <1>3, <1>4, <1>5, <1>6, <1>7

LEMMA UiShapes ==
    ASSUME TypeInv, PubUi
    PROVE  SilentStep \/ \E x \in Things : LoudStep(Ui, x)
  <1>h. Ui \in Threads /\ Scheduler # Ui /\ Ui \notin Sessions
    BY Ids DEF Threads, Scheduler, Ui
  <1>t. TasksTypeOK /\ ThreadsTypeOK /\ InfoTypeOK
    BY DEF TypeInv, SessionsTypeOK, InfoTypeOK
  <1>f. Free(Ui)
    BY DEF PubUi
  <1>s. thread'[Scheduler] = thread[Scheduler]
    <2>1. UiNext
      BY DEF PubUi, UiNext, UiContinue, SendNext
    <2> QED
      BY <2>1, UiEffect DEF EnvStep
  <1>1. ASSUME NEW t \in Tasks, UiEnqueue(t) \/ UiCancel(t), Announce(Ui, t)
        PROVE  LoudStep(Ui, t) /\ t \in Things
    <2>1. Others(t) /\ tasks'[t].status \in {"Queued", "Canceled"}
      BY <1>1, <1>t, EnqueueFacts, CancelFacts DEF UiEnqueue, UiCancel
    <2>2. Lone(t)
      BY <1>1, <2>1, LoneTask DEF UiEnqueue, UiCancel, sessionVars
    <2> QED
      BY <1>1, <1>f, <1>s, <2>1, <2>2, Announced DEF LoudStep, CopySays
  <1> DEFINE named == thread[Ui].task
             target == thread[Ui].sid
  <1>2. CASE FailHeld(Ui) /\ Announce(Ui, named)
    <2>1. named \in Tasks /\ FailTask(named) /\ UNCHANGED <<registry, info>>
      BY <1>2, <1>h DEF FailHeld, At, TypeInv, HeldByThreads, sessionVars
    <2>2. Lone(named) /\ tasks'[named].status = "Failed"
      BY <2>1, <1>t, FailFacts, LoneTask
    <2>3. LoudStep(Ui, named)
      BY <1>2, <1>f, <1>s, <2>2, Announced DEF LoudStep, CopySays
    <2> QED
      BY <2>1, <2>3 DEF Things
  <1>3. CASE SendMark(Ui) /\ Announce(Ui, target)
    <2>1. \A r \in Sessions \ {target} : info'[r] = info[r]
      BY <1>3, <1>t, UpdateStatusFacts DEF SendMark, SessionStatus
    <2>2. Lone(target)
      BY <1>3, <2>1, LoneSession DEF SendMark
    <2>3. target \in Sessions \cup {NoSession}
      BY <1>t, <1>h DEF ThreadsTypeOK, Thread
    <2>4. target \in Things /\ CopyTo(Ui, target, "row")
      BY <1>3, Announced
    <2>5. target \notin Tasks
      BY <2>3, Ids, IdsAssumption
    <2>6. LoudStep(Ui, target)
      BY <1>f, <1>s, <2>2, <2>4, <2>5 DEF LoudStep
    <2> QED
      BY <2>4, <2>6
  <1>4. ASSUME NEW s \in Sessions, NEW c \in Contexts, UiCreate(s, c), Announce(Ui, s)
        PROVE  LoudStep(Ui, s) /\ s \in Things
    <2>1. \A r \in Sessions \ {s} : info'[r] = info[r] /\ (r \in registry' => r \in registry)
      BY <1>4, <1>t DEF UiCreate, SpawnHeadless, InfoTypeOK
    <2>2. Lone(s)
      BY <1>4, <2>1, LoneSession DEF UiCreate
    <2> QED
      BY <1>4, <1>f, <1>s, <2>2, Announced, Ids DEF LoudStep
  <1>5. ASSUME \/ \E s \in Sessions : UiSend(s) \/ UiKill(s) \/ UiRemove(s) \/ UiNextTarget(s)
               \/ UiBroadcast \/ UiKillProcess
               \/ \E policy \in Policies : UiSetConfig(policy)
               \/ SendLookup(Ui) \/ SendWrite(Ui) \/ SendBroken(Ui),
               Silent
        PROVE  SilentStep
    <2>1. tasks' = tasks
      BY <1>5 DEF UiSend, UiKill, UiRemove, UiNextTarget, UiBroadcast, UiKillProcess,
                  UiSetConfig, SendLookup, SendWrite, SendBroken
    <2>2. \A s \in Sessions : s \in registry' => s \in registry /\ info'[s].status = info[s].status
      <3>1. CASE \E s \in Sessions : UiRemove(s)
        BY <3>1, <1>t DEF UiRemove, InfoTypeOK
      <3>2. CASE ~\E s \in Sessions : UiRemove(s)
        BY <1>5, <3>2 DEF UiSend, UiKill, UiNextTarget, UiBroadcast, UiKillProcess,
                          UiSetConfig, SendLookup, SendWrite, SendBroken, sessionVars
      <3> QED
        BY <3>1, <3>2
    <2> QED
      BY <1>5, <1>s, <2>1, <2>2, AllStill DEF SilentStep
  <1> HIDE DEF named, target
  <1>6. \/ \E t \in Tasks : (UiEnqueue(t) \/ UiCancel(t)) /\ Announce(Ui, t)
        \/ FailHeld(Ui) /\ Announce(Ui, named)
        \/ SendMark(Ui) /\ Announce(Ui, target)
        \/ \E s \in Sessions, c \in Contexts : UiCreate(s, c) /\ Announce(Ui, s)
        \/ /\ \/ \E s \in Sessions : UiSend(s) \/ UiKill(s) \/ UiRemove(s) \/ UiNextTarget(s)
              \/ UiBroadcast \/ UiKillProcess
              \/ \E policy \in Policies : UiSetConfig(policy)
              \/ SendLookup(Ui) \/ SendWrite(Ui) \/ SendBroken(Ui)
           /\ Silent
    BY DEF PubUi, named, target
  <1> QED
    BY <1>1, <1>2, <1>3, <1>4, <1>5, <1>6

LEMMA ReaderShapes ==
    ASSUME TypeInv, NEW s \in Sessions, PubReader(s)
    PROVE  SilentStep \/ \E x \in Things : LoudStep(s, x)
  <1>t. TasksTypeOK /\ InfoTypeOK
    BY DEF TypeInv, SessionsTypeOK, InfoTypeOK
  <1>f. Free(s) /\ thread'[Scheduler] = thread[Scheduler]
    BY DEF PubReader
  <1> DEFINE mine == reader[s].task
  <1>1. CASE SettleTurn(s) /\ Announce(s, mine)
    <2>1. mine \in Tasks /\ SettleTask(mine, reader[s].is_error) /\ UNCHANGED <<registry, info>>
      BY <1>1 DEF SettleTurn, TypeInv, HeldByReaders
    <2>2. Lone(mine) /\ tasks'[mine].status \in {"Done", "Failed"}
      BY <2>1, <1>t, SettleFacts, LoneTask
    <2>3. LoudStep(s, mine)
      BY <1>1, <1>f, <2>2, Announced DEF LoudStep, CopySays
    <2> QED
      BY <2>1, <2>3 DEF Things
  <1>2. CASE RecoverInterrupted(s) /\ Announce(s, mine)
    <2>1. mine \in Tasks /\ RecoverTask(mine) /\ UNCHANGED <<registry, info>>
      BY <1>2 DEF RecoverInterrupted, TypeInv, HeldByReaders
    <2>2. Lone(mine) /\ tasks'[mine].status \in {"Queued", "Failed"}
      BY <2>1, <1>t, RecoverFacts, LoneTask
    <2>3. LoudStep(s, mine)
      BY <1>2, <1>f, <2>2, Announced DEF LoudStep, CopySays
    <2> QED
      BY <2>1, <2>3 DEF Things
  <1>3. ASSUME ReadInit(s) \/ ReadAssistant(s) \/ ReadResult(s) \/ Finalize(s),
               UNCHANGED tasks, Announce(s, s)
        PROVE  LoudStep(s, s) /\ s \in Things
    <2>1. registry' = registry
      BY <1>3 DEF ReadInit, ReadAssistant, ReadResult, Finalize, ReadLine
    <2>2. \A r \in Sessions \ {s} : info'[r] = info[r]
      <3>1. CASE ReadInit(s)
        BY <3>1, <1>t DEF ReadInit, InfoTypeOK
      <3>2. CASE ReadAssistant(s) \/ ReadResult(s)
        BY <3>2, <2>1, <1>t, UpdateStatusFacts DEF ReadAssistant, ReadResult, SessionStatus
      <3>3. CASE Finalize(s)
        <4>1. FinalStatus(s) \in SessionStatus
          BY DEF FinalStatus, SessionStatus
        <4> QED
          BY <3>3, <2>1, <4>1, <1>t, UpdateStatusFacts DEF Finalize
      <3> QED
        BY <1>3, <3>1, <3>2, <3>3
    <2>3. Lone(s)
      BY <1>3, <2>1, <2>2, LoneSession
    <2> QED
      BY <1>3, <1>f, <2>3, Announced, Ids DEF LoudStep
  <1>4. ASSUME ReadAfterStop(s) \/ TakeCurrentTask(s) \/ ReadEof(s), UNCHANGED tasks, Silent
        PROVE  SilentStep
    <2>1. registry' = registry
      BY <1>4 DEF ReadAfterStop, TakeCurrentTask, ReadEof, ReadLine
    <2>2. \A r \in Sessions : info'[r].status = info[r].status
      <3>1. CASE TakeCurrentTask(s)
        BY <3>1, <2>1, <1>t, BindFacts DEF TakeCurrentTask
      <3>2. CASE ~TakeCurrentTask(s)
        BY <1>4, <3>2 DEF ReadAfterStop, ReadEof
      <3> QED
        BY <3>1, <3>2
    <2> QED
      BY <1>4, <1>f, <2>1, <2>2, AllStill DEF SilentStep
  <1> HIDE DEF mine
  <1>5. \/ SettleTurn(s) /\ Announce(s, mine)
        \/ RecoverInterrupted(s) /\ Announce(s, mine)
        \/ /\ ReadInit(s) \/ ReadAssistant(s) \/ ReadResult(s) \/ Finalize(s)
           /\ UNCHANGED tasks
           /\ Announce(s, s)
        \/ /\ ReadAfterStop(s) \/ TakeCurrentTask(s) \/ ReadEof(s)
           /\ UNCHANGED tasks
           /\ Silent
    BY DEF PubReader, mine
  <1> QED
    BY <1>1, <1>2, <1>3, <1>4, <1>5

LEMMA Shapes ==
    ASSUME TypeInv, Work
    PROVE  SilentStep \/ \E a \in Actors, x \in Things : LoudStep(a, x)
  <1>1. CASE PubScheduler
    BY <1>1, SchedulerShapes, Ids
  <1>2. CASE PubUi
    BY <1>2, UiShapes, Ids
  <1>3. ASSUME NEW s \in Sessions, PubReader(s)
        PROVE  SilentStep \/ \E a \in Actors, x \in Things : LoudStep(a, x)
    BY <1>3, ReaderShapes, Ids
  <1>4. ASSUME NEW s \in Sessions, AgentStep(s), Silent PROVE SilentStep
    BY <1>4, AllStill DEF AgentStep, sessionVars, SilentStep
  <1> QED
    BY <1>1, <1>2, <1>3, <1>4 DEF Work

\* What was answered stays answered.
LEMMA AnswersStay ==
    ASSUME Work
    PROVE  answered \subseteq answered'
  <1>1. CASE PubScheduler
    BY <1>1 DEF PubScheduler, StartHeld, FailHeld, BindHeld, SendMark, SpawnWorker, Tick,
                CountActive, TakeNothing, FindNone, SpawnFails, TakeTask, FindIdle, SendLookup,
                SendWrite, SendBroken, agentVars
  <1>2. CASE PubUi
    BY <1>2 DEF PubUi, UiEnqueue, UiCancel, FailHeld, SendMark, UiCreate, UiSend, UiKill,
                UiRemove, UiNextTarget, UiBroadcast, UiKillProcess, UiSetConfig, SendLookup,
                SendWrite, SendBroken, agentVars
  <1>3. ASSUME NEW s \in Sessions, PubReader(s) PROVE answered \subseteq answered'
    BY <1>3 DEF PubReader, SettleTurn, RecoverInterrupted, ReadInit, ReadAssistant, ReadResult,
                Finalize, ReadAfterStop, TakeCurrentTask, ReadEof, ReadLine, agentVars
  <1>4. ASSUME NEW s \in Sessions, AgentStep(s) PROVE answered \subseteq answered'
    BY <1>4 DEF AgentStep, AgentNext, AgentInit, AgentSpeak, AgentReply, AgentCrash, AgentExit,
                AgentClose, AgentCloseEnd
  <1> QED
    BY <1>1, <1>2, <1>3, <1>4 DEF Work

-----------------------------------------------------------------------------
(* What is on its way: types, and the effect of each publishing step.      *)

Message == [about : Tasks, status : Status]

\* What is yet to be written is about a task or a session, what is yet to be sent about a task.
Bound(copy) ==
    /\ copy.to = "row" => copy.about \in Things
    /\ copy.to = "window" => copy.about \in Tasks
    /\ copy.to = "none" => copy = Nothing

PubTyped ==
    /\ pub \in [Actors -> Copy]
    /\ \A a \in Actors : Bound(pub[a])
    /\ rows \in [Things -> Status] /\ shown \in [Tasks -> Status]
    /\ queue \in Seq(Message)
    /\ crossed \subseteq Things /\ before \subseteq Tasks

LEMMA PostFacts ==
    ASSUME queue \in Seq(Message), NEW m \in Message, Post(m)
    PROVE  /\ queue' \in Seq(Message)
           /\ Len(queue') = Len(queue) + 1
           /\ \A i \in 1..Len(queue) : queue'[i] = queue[i]
           /\ queue'[Len(queue) + 1] = m
  BY DEF Post

LEMMA TailFacts ==
    ASSUME queue \in Seq(Message), queue # <<>>, queue' = Tail(queue)
    PROVE  /\ queue' \in Seq(Message)
           /\ Len(queue) >= 1 /\ Len(queue') = Len(queue) - 1
           /\ queue[1] \in Message /\ Head(queue) = queue[1]
           /\ \A i \in 1..Len(queue') : queue'[i] = queue[i + 1]
  OBVIOUS

\* Only the copy of a changes.
Alone(a) == \A b \in Actors \ {a} : pub'[b] = pub[b]

LEMMA CopyFacts ==
    ASSUME PubTyped, NEW a \in Actors, NEW x \in Things, Free(a), CopyTo(a, x, "row")
    PROVE  /\ Alone(a)
           /\ UNCHANGED <<rows, shown, queue>>
           /\ \/ ~Known(x)' /\ pub' = pub /\ crossed' = crossed
              \/ /\ Known(x)'
                 /\ pub'[a] = [about |-> x, status |-> StatusOf(x)', to |-> "row"]
                 /\ \/ Pending(x) /\ crossed' = crossed \cup {x}
                    \/ ~Pending(x) /\ crossed' = crossed \ {x}
  BY DEF CopyTo, Alone, PubTyped

LEMMA UpsertFacts ==
    ASSUME PubTyped, NEW a \in Actors, Upsert(a)
    PROVE  LET x == pub[a].about IN
           /\ x \in Things
           /\ rows' \in [Things -> Status] /\ rows'[x] = pub[a].status
           /\ \A y \in Things \ {x} : rows'[y] = rows[y]
           /\ Alone(a)
           /\ x \in Tasks => pub'[a] = [about |-> x, status |-> pub[a].status, to |-> "window"]
           /\ x \notin Tasks => pub'[a] = Nothing
           /\ UNCHANGED <<vars, shown, queue, crossed, before>>
  <1>1. pub[a] \in Copy /\ Bound(pub[a]) /\ pub[a].to = "row"
    BY DEF PubTyped, Upsert
  <1>2. pub[a].about \in Things /\ pub[a].status \in Status
    BY <1>1 DEF Bound, Copy
  <1>3. [pub[a] EXCEPT !.to = "window"]
          = [about |-> pub[a].about, status |-> pub[a].status, to |-> "window"]
    BY <1>1 DEF Copy
  <1>4. /\ Alone(a)
        /\ pub[a].about \in Tasks => pub'[a] = [pub[a] EXCEPT !.to = "window"]
        /\ pub[a].about \notin Tasks => pub'[a] = Nothing
    BY DEF PubTyped, Upsert, Alone
  <1>5. /\ rows' \in [Things -> Status] /\ rows'[pub[a].about] = pub[a].status
        /\ \A y \in Things \ {pub[a].about} : rows'[y] = rows[y]
    BY <1>2 DEF PubTyped, Upsert
  <1> QED
    BY <1>2, <1>3, <1>4, <1>5 DEF Upsert

LEMMA EmissionFacts ==
    ASSUME PubTyped, NEW a \in Actors, Emission(a)
    PROVE  LET x == pub[a].about
               m == [about |-> x, status |-> pub[a].status] IN
           /\ pub[a].to = "window"
           /\ x \in Tasks /\ m \in Message
           /\ pub'[a] = Nothing /\ Alone(a)
           /\ \/ /\ a = Ui /\ queue' = queue
                 /\ shown' \in [Tasks -> Status] /\ shown'[x] = pub[a].status
                 /\ \A y \in Tasks \ {x} : shown'[y] = shown[y]
              \/ /\ a # Ui /\ shown' = shown
                 /\ Post(m)
           /\ UNCHANGED <<vars, rows, crossed, before>>
  <1>1. pub[a] \in Copy /\ Bound(pub[a]) /\ pub[a].to = "window"
    BY DEF PubTyped, Emission
  <1>2. pub[a].about \in Tasks /\ pub[a].status \in Status
    BY <1>1 DEF Bound, Copy
  <1>3. pub'[a] = Nothing /\ Alone(a)
    BY DEF PubTyped, Emission, Alone
  <1>4. CASE a = Ui
    BY <1>1, <1>2, <1>3, <1>4 DEF PubTyped, Emission, Message
  <1>5. CASE a # Ui
    BY <1>1, <1>2, <1>3, <1>5 DEF Emission, Message
  <1> QED
    BY <1>4, <1>5

LEMMA DeliverFacts ==
    ASSUME PubTyped, Deliver
    PROVE  /\ queue \in Seq(Message) /\ queue # <<>> /\ queue' = Tail(queue)
           /\ queue[1] \in Message
           /\ shown' \in [Tasks -> Status] /\ shown'[queue[1].about] = queue[1].status
           /\ \A t \in Tasks \ {queue[1].about} : shown'[t] = shown[t]
           /\ UNCHANGED <<vars, pub, rows, crossed, before>>
  <1>1. queue \in Seq(Message) /\ queue # <<>> /\ queue' = Tail(queue)
    BY DEF PubTyped, Deliver
  <1>2. queue[1] \in Message /\ Head(queue) = queue[1]
    BY <1>1, TailFacts
  <1>3. queue[1].about \in Tasks /\ queue[1].status \in Status
    BY <1>2 DEF Message
  <1>4. shown' = [shown EXCEPT ![queue[1].about] = queue[1].status]
    BY <1>2 DEF Deliver
  <1>5. /\ shown' \in [Tasks -> Status] /\ shown'[queue[1].about] = queue[1].status
        /\ \A t \in Tasks \ {queue[1].about} : shown'[t] = shown[t]
    BY <1>3, <1>4 DEF PubTyped
  <1> QED
    BY <1>1, <1>2, <1>5 DEF Deliver

LEMMA StatusTypes == TypeInv' => \A x \in Things : StatusOf(x)' \in Status
  BY Ids DEF TypeInv, TasksTypeOK, SessionsTypeOK, Task, Info, Things, StatusOf, Status

LEMMA NothingTypes == Nothing \in Copy /\ Bound(Nothing)
  BY DEF Nothing, Copy, Bound, Status

LEMMA TypedInit == PubInit => PubTyped
  <1> SUFFICES ASSUME PubInit PROVE PubTyped
    OBVIOUS
  <1>1. <<>> \in Seq(Message) /\ "none" \in Status
    BY DEF Status
  <1> QED
    BY <1>1, NothingTypes DEF PubInit, PubTyped

LEMMA TypedStep == TypeInv /\ TypeInv' /\ PubTyped /\ [PubNext]_allVars => PubTyped'
  <1> SUFFICES ASSUME TypeInv, TypeInv', PubTyped, [PubNext]_allVars PROVE PubTyped'
    OBVIOUS
  <1>p. DOMAIN pub = Actors /\ \A a \in Actors : pub[a] \in Copy /\ Bound(pub[a])
    BY DEF PubTyped
  <1>1. ASSUME Work, before' = before PROVE PubTyped'
    <2>1. CASE SilentStep
      BY <1>1, <2>1 DEF SilentStep, Silent, published, PubTyped
    <2>2. ASSUME NEW a \in Actors, NEW x \in Things, LoudStep(a, x) PROVE PubTyped'
      <3>1. Free(a) /\ CopyTo(a, x, "row")
        BY <2>2 DEF LoudStep
      <3>2. StatusOf(x)' \in Status
        BY StatusTypes
      <3>3. UNCHANGED <<rows, shown, queue>> /\ crossed' \subseteq Things
        BY <3>1, CopyFacts DEF PubTyped
      <3>4. pub' \in [Actors -> Copy] /\ \A b \in Actors : Bound(pub'[b])
        <4>1. CASE Known(x)'
          <5> DEFINE copy == [about |-> x, status |-> StatusOf(x)', to |-> "row"]
          <5>1. pub' = [pub EXCEPT ![a] = copy]
            BY <3>1, <4>1 DEF CopyTo
          <5>2. copy \in Copy /\ Bound(copy)
            BY <3>2 DEF Copy, Bound
          <5> HIDE DEF copy
          <5> QED
            BY <5>1, <5>2 DEF PubTyped
        <4>2. CASE ~Known(x)'
          BY <3>1, <4>2 DEF CopyTo, PubTyped
        <4> QED
          BY <4>1, <4>2
      <3> QED
        BY <1>1, <3>3, <3>4 DEF PubTyped
    <2> QED
      BY <1>1, <2>1, <2>2, Shapes
  <1>2. ASSUME NEW a \in Actors, Upsert(a) PROVE PubTyped'
    <2> DEFINE x == pub[a].about
    <2>1. /\ rows' \in [Things -> Status] /\ Alone(a)
          /\ x \in Tasks => pub'[a] = [about |-> x, status |-> pub[a].status, to |-> "window"]
          /\ x \notin Tasks => pub'[a] = Nothing
          /\ UNCHANGED <<shown, queue, crossed, before>>
      BY <1>2, UpsertFacts
    <2>2. pub'[a] \in Copy /\ Bound(pub'[a])
      BY <2>1, <1>p, NothingTypes DEF Copy, Bound
    <2>3. DOMAIN pub' = Actors /\ pub' = [b \in Actors |-> pub'[b]]
      BY <1>2 DEF Upsert, PubTyped
    <2>4. \A b \in Actors : pub'[b] \in Copy /\ Bound(pub'[b])
      BY <2>1, <2>2, <1>p DEF Alone
    <2> QED
      BY <2>1, <2>3, <2>4 DEF PubTyped
  <1>3. ASSUME NEW a \in Actors, Emission(a) PROVE PubTyped'
    <2>1. /\ pub'[a] = Nothing /\ Alone(a) /\ UNCHANGED <<rows, crossed, before>>
          /\ shown' \in [Tasks -> Status]
      BY <1>3, EmissionFacts DEF PubTyped
    <2>2. queue' \in Seq(Message)
      BY <1>3, EmissionFacts, PostFacts DEF PubTyped
    <2>3. pub' = [pub EXCEPT ![a] = Nothing]
      BY <1>3 DEF Emission
    <2>4. pub' \in [Actors -> Copy] /\ \A b \in Actors : Bound(pub'[b])
      BY <2>3, <1>p, NothingTypes DEF PubTyped
    <2> QED
      BY <2>1, <2>2, <2>4 DEF PubTyped
  <1>4. CASE Deliver
    BY <1>4, DeliverFacts, TailFacts DEF PubTyped
  <1>5. CASE Restart
    <2>1. <<>> \in Seq(Message) /\ "none" \in Status /\ answered \subseteq Tasks
      BY DEF Status, TypeInv, AgentsTypeOK
    <2> QED
      BY <1>5, <2>1, NothingTypes DEF Restart, PubTyped
  <1>6. CASE UNCHANGED allVars
    BY <1>6 DEF allVars, published, PubTyped
  <1> QED
    BY <1>1, <1>2, <1>3, <1>4, <1>5, <1>6, PubSteps

\* PubTypeOK holds, over any number of restarts.
THEOREM PublicationTypes == PubSpec => []PubTypeOK
  <1>1. PubInit => TypeInv /\ PubTyped
    BY InitStarts, TypeInit, TypedInit DEF PubInit
  <1>2. TypeInv /\ PubTyped => PubTypeOK
    <2> SUFFICES ASSUME TypeInv, PubTyped PROVE PubTypeOK
      OBVIOUS
    <2>1. TypeOK
      BY DEF TypeInv, TypeOK, ThreadsTypeOK, UserOK
    <2>2. \A i \in DOMAIN queue : queue[i] \in Message
      BY DEF PubTyped
    <2> QED
      BY <2>1, <2>2 DEF PubTyped, PubTypeOK, Message
  <1> QED
    BY <1>1, <1>2, PubTypeStep, TypedStep, PTL DEF PubSpec

-----------------------------------------------------------------------------
(* A result is never hidden behind the start it answers.  Only the         *)
(* scheduler copies a start, and it publishes the copy before it binds the *)
(* task to its worker; so no copy of the start is left when the task can   *)
(* be Done, and what the start has reached is overtaken by the copy that   *)
(* the reader made with the result, or by what became of it.               *)

StartIsPublished ==
    \A a \in Actors :
        pub[a].about \in Tasks /\ pub[a].status = "Running" =>
            a = Scheduler /\ At(Scheduler, "bind") /\ Held = pub[a].about

\* A thread has a copy of t for the event loop of the window.
InHand(t) == \E a \in Actors \ {Ui} : pub[a].about = t
ForRow(t) == \E a \in Actors \ {Ui} : pub[a].about = t /\ pub[a].to = "row"

\* What the i-th message says of t is not the last word.
Later(t, i) ==
    \/ InHand(t)
    \/ \E j \in 1..Len(queue) : j > i /\ queue[j].about = t /\ queue[j].status # "Running"

Corrected(t) ==
    /\ rows[t] = "Running" => ForRow(t)
    /\ shown[t] = "Running" => Later(t, 0)
    /\ \A i \in 1..Len(queue) : queue[i].about = t /\ queue[i].status = "Running" => Later(t, i)

HideInv == StartIsPublished /\ \A t \in WithStatus("Done") : Corrected(t)

LEMMA FreeIsAboutNothing == \A a \in Actors : Free(a) => pub[a].about \notin Things
  BY Ids DEF Free, Nothing

LEMMA StillDone ==
    ASSUME NEW t \in WithStatus("Done")', Still(t)
    PROVE  t \in WithStatus("Done")
  BY DEF WithStatus, Still, Known, PublishedStatus, StatusOf

\* A copy of a task that is Done says no start.
LEMMA ResultCopies ==
    ASSUME HideInv, OwnerInv, NEW t \in WithStatus("Done"), NEW a \in Actors, pub[a].about = t
    PROVE  pub[a].status # "Running"
  BY DEF HideInv, StartIsPublished, OwnerInv, HeldStatus, WithStatus, At, Held

LEMMA PublishedStep ==
    ASSUME PubTyped, StartIsPublished, TypeInv, [PubNext]_allVars
    PROVE  StartIsPublished'
  <1>1. ASSUME Work PROVE StartIsPublished'
    <2>1. CASE SilentStep
      BY <2>1, FreeIsAboutNothing, Ids
         DEF SilentStep, Silent, published, StartIsPublished, At, Held, Things
    <2>2. ASSUME NEW a \in Actors, NEW x \in Things, LoudStep(a, x) PROVE StartIsPublished'
      <3>1. Free(a) /\ CopyTo(a, x, "row") /\ (x \in Tasks => CopySays(a, x))
            /\ (a # Scheduler => thread'[Scheduler] = thread[Scheduler])
        BY <2>2 DEF LoudStep
      <3>2. SUFFICES ASSUME NEW b \in Actors, pub'[b].about \in Tasks, pub'[b].status = "Running"
                     PROVE  b = Scheduler /\ thread'[Scheduler].pc = "bind"
                            /\ thread'[Scheduler].task = pub'[b].about
        BY DEF StartIsPublished, At, Held
      <3>3. CASE b # a
        <4>1. pub'[b] = pub[b]
          BY <3>1, <3>3, CopyFacts DEF Alone
        <4>2. b = Scheduler /\ At(Scheduler, "bind") /\ Held = pub[b].about
          BY <3>2, <4>1 DEF StartIsPublished
        <4> QED
          BY <3>1, <3>3, <4>1, <4>2 DEF At, Held
      <3>4. CASE b = a
        <4>1. pub' # pub
          BY <3>1, <3>2, <3>4, FreeIsAboutNothing DEF Things
        <4>2. pub'[a] = [about |-> x, status |-> StatusOf(x)', to |-> "row"]
          BY <3>1, <4>1, CopyFacts
        <4>3. x \in Tasks /\ tasks'[x].status = "Running"
          BY <3>2, <3>4, <4>2 DEF StatusOf
        <4> QED
          BY <3>1, <3>4, <4>2, <4>3 DEF CopySays
      <3> QED
        BY <3>3, <3>4
    <2> QED
      BY <1>1, <2>1, <2>2, Shapes
  <1>2. ASSUME NEW a \in Actors, Upsert(a) \/ Emission(a) PROVE StartIsPublished'
    <2>1. thread' = thread
      BY <1>2 DEF Upsert, Emission, vars
    <2>2. ASSUME NEW b \in Actors, pub'[b].about \in Tasks
          PROVE  pub'[b].about = pub[b].about /\ pub'[b].status = pub[b].status
      <3>1. CASE b # a
        <4>1. Alone(a)
          BY <1>2, UpsertFacts, EmissionFacts
        <4> QED
          BY <3>1, <4>1 DEF Alone
      <3>2. CASE b = a
        <4>1. pub'[a] # Nothing
          BY <2>2, <3>2, Ids DEF Nothing, Things
        <4>2. pub'[a] = [about |-> pub[a].about, status |-> pub[a].status, to |-> "window"]
          BY <1>2, <4>1, UpsertFacts, EmissionFacts
        <4> QED
          BY <3>2, <4>2
      <3> QED
        BY <3>1, <3>2
    <2> QED
      BY <2>1, <2>2 DEF StartIsPublished, At, Held
  <1>3. CASE Deliver
    BY <1>3 DEF Deliver, vars, StartIsPublished, At, Held
  <1>4. CASE Restart
    BY <1>4, Ids DEF Restart, Nothing, StartIsPublished, Things
  <1>5. CASE UNCHANGED allVars
    BY <1>5 DEF allVars, published, vars, StartIsPublished, At, Held
  <1> QED
    BY <1>1, <1>2, <1>3, <1>4, <1>5, PubSteps

\* What corrects a start goes on doing so while its copy is held and the messages stay.
LEMMA CorrectedKept ==
    ASSUME NEW t \in Tasks, Corrected(t),
           rows'[t] = "Running" => rows[t] = "Running" /\ (ForRow(t) => ForRow(t)'),
           shown'[t] = "Running" => shown[t] = "Running",
           InHand(t) => InHand(t)', queue' = queue
    PROVE  Corrected(t)'
  <1>1. \A i \in Nat : Later(t, i) => Later(t, i)'
    BY DEF Later
  <1>2. \A i \in 1..Len(queue) : i \in Nat
    OBVIOUS
  <1> QED
    BY <1>1, <1>2 DEF Corrected

LEMMA CorrectedPosted ==
    ASSUME NEW t \in Tasks, Corrected(t), queue \in Seq(Message),
           NEW m \in Message, Post(m), m.about = t => m.status # "Running",
           rows' = rows, shown' = shown,
           m.about = t \/ (InHand(t) => InHand(t)'),
           ForRow(t) => ForRow(t)'
    PROVE  Corrected(t)'
  <1> DEFINE n == Len(queue)
  <1>1. /\ n \in Nat /\ Len(queue') = n + 1 /\ queue'[n + 1] = m
        /\ \A i \in 1..n : queue'[i] = queue[i]
    BY PostFacts
  <1> HIDE DEF n
  <1>2. ASSUME NEW i \in 0..n, Later(t, i) PROVE Later(t, i)'
    <2>1. CASE m.about = t
      BY <1>1, <2>1 DEF Later
    <2>2. CASE m.about # t /\ InHand(t)
      BY <2>2 DEF Later
    <2>3. CASE ~InHand(t)
      <3>1. PICK j \in 1..n : j > i /\ queue[j].about = t /\ queue[j].status # "Running"
        BY <1>2, <2>3 DEF Later, n
      <3> QED
        BY <1>1, <3>1 DEF Later
    <2> QED
      BY <2>1, <2>2, <2>3
  <1>3. shown'[t] = "Running" => Later(t, 0)'
    BY <1>1, <1>2 DEF Corrected
  <1>4. ASSUME NEW i \in 1..Len(queue'), queue'[i].about = t, queue'[i].status = "Running"
        PROVE  Later(t, i)'
    <2>1. i \in 1..n
      BY <1>1, <1>4
    <2>2. Later(t, i)
      BY <1>1, <1>4, <2>1 DEF Corrected, n
    <2> QED
      BY <1>1, <1>2, <2>1, <2>2
  <1> QED
    BY <1>3, <1>4 DEF Corrected

LEMMA CorrectedDelivered ==
    ASSUME NEW t \in Tasks, Corrected(t), PubTyped, Deliver
    PROVE  Corrected(t)'
  <1>1. /\ queue \in Seq(Message) /\ Len(queue) >= 1 /\ Len(queue') = Len(queue) - 1
        /\ \A i \in 1..Len(queue') : queue'[i] = queue[i + 1]
        /\ shown'[queue[1].about] = queue[1].status
        /\ \A u \in Tasks \ {queue[1].about} : shown'[u] = shown[u]
        /\ pub' = pub /\ rows' = rows
    BY DeliverFacts, TailFacts
  <1>n. Len(queue) \in Nat /\ Len(queue') \in Nat
    BY <1>1
  <1>2. ASSUME NEW i \in Nat,
               \/ Later(t, i + 1)
               \/ i = 0 /\ Later(t, 0) /\ queue[1].about # t
        PROVE  Later(t, i)'
    <2>1. CASE InHand(t)
      BY <2>1, <1>1 DEF Later, InHand
    <2>2. CASE ~InHand(t)
      <3>1. PICK j \in 1..Len(queue) : j > i + 1 /\ queue[j].about = t /\ queue[j].status # "Running"
        BY <1>2, <2>2, <1>n DEF Later
      <3>2. j - 1 \in 1..Len(queue') /\ j - 1 > i /\ (j - 1) + 1 = j
        BY <3>1, <1>1, <1>n
      <3>3. queue'[j - 1] = queue[j]
        BY <3>2, <1>1
      <3> QED
        BY <3>1, <3>2, <3>3 DEF Later
    <2> QED
      BY <2>1, <2>2
  <1>3. ASSUME shown'[t] = "Running" PROVE Later(t, 0)'
    <2>1. CASE queue[1].about = t
      <3>1. 1 \in 1..Len(queue) /\ queue[1].status = "Running"
        BY <1>1, <1>3, <1>n, <2>1
      <3>2. Later(t, 0 + 1)
        BY <2>1, <3>1 DEF Corrected
      <3> QED
        BY <1>2, <3>2
    <2>2. CASE queue[1].about # t
      <3>1. Later(t, 0)
        BY <1>1, <1>3, <2>2 DEF Corrected
      <3> QED
        BY <1>2, <2>2, <3>1
    <2> QED
      BY <2>1, <2>2
  <1>4. ASSUME NEW i \in 1..Len(queue'), queue'[i].about = t, queue'[i].status = "Running"
        PROVE  Later(t, i)'
    <2>1. i \in Nat /\ i + 1 \in 1..Len(queue) /\ queue'[i] = queue[i + 1]
      BY <1>1, <1>n
    <2>2. Later(t, i + 1)
      BY <1>4, <2>1 DEF Corrected
    <2> QED
      BY <1>2, <2>1, <2>2
  <1>5. rows'[t] = "Running" => ForRow(t)'
    BY <1>1 DEF Corrected, ForRow
  <1> QED
    BY <1>3, <1>4, <1>5 DEF Corrected

LEMMA CorrectedStep ==
    ASSUME PubTyped, HideInv, OwnerInv, TypeInv, [PubNext]_allVars, NEW t \in WithStatus("Done")'
    PROVE  Corrected(t)'
  <1>t. t \in Tasks /\ t \in Things
    BY DEF WithStatus, Things
  <1>d. ASSUME t \in WithStatus("Done")
        PROVE  Corrected(t) /\ \A a \in Actors : pub[a].about = t => pub[a].status # "Running"
    BY <1>d, ResultCopies DEF HideInv
  <1>1. ASSUME Work PROVE Corrected(t)'
    <2>1. CASE SilentStep
      <3>1. t \in WithStatus("Done")
        BY <1>t, <2>1, StillDone DEF SilentStep
      <3>2. UNCHANGED <<pub, rows, shown, queue>>
        BY <2>1 DEF SilentStep, Silent, published
      <3>3. (InHand(t) => InHand(t)') /\ (ForRow(t) => ForRow(t)')
        BY <3>2 DEF InHand, ForRow
      <3> QED
        BY <1>t, <1>d, <3>1, <3>2, <3>3, CorrectedKept
    <2>2. ASSUME NEW a \in Actors, NEW x \in Things, LoudStep(a, x) PROVE Corrected(t)'
      <3>1. Free(a) /\ CopyTo(a, x, "row") /\ Lone(x) /\ (x \in Tasks => CopySays(a, x))
        BY <2>2 DEF LoudStep
      <3>2. UNCHANGED <<rows, shown, queue>> /\ Alone(a)
        BY <3>1, CopyFacts
      <3>3. CASE t = x
        <4>1. a \in Sessions /\ a # Ui /\ Known(x)'
          BY <1>t, <3>1, <3>3, Ids DEF CopySays, WithStatus, Known
        <4>2. pub'[a] = [about |-> t, status |-> StatusOf(x)', to |-> "row"]
          BY <3>1, <3>3, <4>1, CopyFacts
        <4>3. InHand(t)' /\ ForRow(t)'
          BY <4>1, <4>2 DEF InHand, ForRow
        <4> QED
          BY <4>3 DEF Corrected, Later
      <3>4. CASE t # x
        <4>1. t \in WithStatus("Done")
          BY <1>t, <3>1, <3>4, StillDone DEF Lone
        <4>2. pub[a].about # t
          BY <1>t, <3>1, FreeIsAboutNothing
        <4>3. (InHand(t) => InHand(t)') /\ (ForRow(t) => ForRow(t)')
          BY <3>2, <4>2 DEF InHand, ForRow, Alone
        <4> QED
          BY <1>t, <1>d, <3>2, <4>1, <4>3, CorrectedKept
      <3> QED
        BY <3>3, <3>4
    <2> QED
      BY <1>1, <2>1, <2>2, Shapes
  <1>2. ASSUME NEW a \in Actors, Upsert(a) PROVE Corrected(t)'
    <2> DEFINE x == pub[a].about
    <2>1. /\ rows'[x] = pub[a].status /\ \A y \in Things \ {x} : rows'[y] = rows[y]
          /\ Alone(a)
          /\ x \in Tasks => pub'[a] = [about |-> x, status |-> pub[a].status, to |-> "window"]
          /\ UNCHANGED <<vars, shown, queue>>
      BY <1>2, UpsertFacts
    <2>2. t \in WithStatus("Done")
      BY <2>1 DEF vars, WithStatus
    <2>3. InHand(t) => InHand(t)'
      <3>1. x \in Tasks => pub'[a].about = x
        BY <2>1
      <3> QED
        BY <2>1, <3>1, <1>t DEF InHand, Alone
    <2>4. rows'[t] = "Running" => x # t /\ rows[t] = "Running"
      BY <2>1, <1>t, <1>d, <2>2
    <2>5. x # t /\ ForRow(t) => ForRow(t)'
      BY <2>1 DEF ForRow, Alone
    <2> QED
      BY <1>t, <1>d, <2>1, <2>2, <2>3, <2>4, <2>5, CorrectedKept
  <1>3. ASSUME NEW a \in Actors, Emission(a) PROVE Corrected(t)'
    <2> DEFINE x == pub[a].about
               m == [about |-> x, status |-> pub[a].status]
    <2>1. /\ pub[a].to = "window" /\ x \in Tasks /\ m \in Message /\ Alone(a)
          /\ UNCHANGED <<vars, rows>>
          /\ \/ /\ a = Ui /\ queue' = queue /\ shown'[x] = pub[a].status
                /\ \A y \in Tasks \ {x} : shown'[y] = shown[y]
             \/ a # Ui /\ shown' = shown /\ Post(m)
      BY <1>3, EmissionFacts
    <2>2. t \in WithStatus("Done")
      BY <2>1 DEF vars, WithStatus
    <2>3. ForRow(t) => ForRow(t)'
      BY <2>1 DEF ForRow, Alone
    <2>4. m.about = t => m.status # "Running"
      BY <1>d, <2>2
    <2>5. a = Ui \/ x # t => (InHand(t) => InHand(t)')
      BY <2>1 DEF InHand, Alone
    <2>6. CASE a = Ui
      <3>1. shown'[t] = "Running" => shown[t] = "Running"
        BY <1>t, <1>d, <2>1, <2>2, <2>6
      <3> QED
        BY <1>t, <1>d, <2>1, <2>2, <2>3, <2>5, <2>6, <3>1, CorrectedKept
    <2>7. CASE a # Ui
      <3>1. queue \in Seq(Message) /\ Corrected(t)
        BY <1>d, <2>2 DEF PubTyped
      <3>2. m.about = t \/ (InHand(t) => InHand(t)')
        BY <2>5
      <3>3. rows' = rows /\ shown' = shown /\ Post(m) /\ m \in Message
        BY <2>1, <2>7
      <3> HIDE DEF m
      <3> QED
        BY <1>t, <2>3, <2>4, <3>1, <3>2, <3>3, CorrectedPosted
    <2> QED
      BY <2>6, <2>7
  <1>4. CASE Deliver
    <2>1. t \in WithStatus("Done")
      BY <1>4 DEF Deliver, vars, WithStatus
    <2> QED
      BY <1>4, <1>t, <1>d, <2>1, CorrectedDelivered
  <1>5. CASE Restart
    BY <1>5, <1>t DEF Restart, NewTask, WithStatus
  <1>6. CASE UNCHANGED allVars
    <2>1. UNCHANGED <<tasks, pub, rows, shown, queue>>
      BY <1>6 DEF allVars, vars, published
    <2>2. t \in WithStatus("Done") /\ (InHand(t) => InHand(t)') /\ (ForRow(t) => ForRow(t)')
      BY <2>1 DEF WithStatus, InHand, ForRow
    <2> QED
      BY <1>t, <1>d, <2>1, <2>2, CorrectedKept
  <1> QED
    BY <1>1, <1>2, <1>3, <1>4, <1>5, <1>6, PubSteps

\* StartNeverHidesResult: a task that is Done is not left Running in the database or in the window,
\* whatever the user does, however the agents fail and however often the program is restarted.
THEOREM ResultsAreSeen == PubSpec => []StartNeverHidesResult
  <1>1. PubInit => TypeInv /\ PubTyped /\ OwnerInv
    BY InitStarts, TypeInit, TypedInit, OwnerInit DEF PubInit
  <1>2. PubInit => HideInv
    <2>1. PubInit => WithStatus("Done") = {}
      BY DEF PubInit, Init, Start, TasksInit, NewTask, WithStatus
    <2> QED
      BY <2>1, Ids DEF PubInit, Nothing, HideInv, StartIsPublished, Things
  <1>3. TypeInv /\ PubTyped /\ OwnerInv /\ HideInv /\ [PubNext]_allVars => HideInv'
    BY PublishedStep, CorrectedStep DEF HideInv
  <1>4. HideInv /\ PubTyped => StartNeverHidesResult
    <2> SUFFICES ASSUME HideInv, PubTyped, NEW t \in WithStatus("Done"), ~Pending(t)
                 PROVE  rows[t] # "Running" /\ shown[t] # "Running"
      BY DEF StartNeverHidesResult
    <2>1. ~InHand(t) /\ ~ForRow(t) /\ \A j \in 1..Len(queue) : queue[j].about # t
      BY DEF Pending, InHand, ForRow, PubTyped
    <2>2. Corrected(t)
      BY DEF HideInv
    <2> QED
      BY <2>1, <2>2 DEF Corrected, Later
  <1> QED
    BY <1>1, <1>2, <1>3, <1>4, PubTypeStep, TypedStep, PubOwnerStep, PTL DEF PubSpec

-----------------------------------------------------------------------------
(* What is said to be Done was answered.  The tasks that are Done were, as *)
(* long as every turn of a worker is the task it is bound to; the copies   *)
(* were made of tasks that were Done, and what was answered stays so.      *)

Answers == answered \cup before

AnswerInv ==
    /\ DoneRowMeansAnswered
    /\ \A a \in Actors : pub[a].about \in Tasks /\ pub[a].status = "Done" => pub[a].about \in Answers
    /\ \A i \in 1..Len(queue) : queue[i].status = "Done" => queue[i].about \in Answers

LEMMA AnswerStep ==
    TypeInv /\ PubTyped /\ DoneMeansAnswered' /\ AnswerInv /\ [PubNext]_allVars => AnswerInv'
  <1> SUFFICES ASSUME TypeInv, PubTyped, DoneMeansAnswered', AnswerInv, [PubNext]_allVars
               PROVE  AnswerInv'
    OBVIOUS
  <1>1. ASSUME Work, before' = before PROVE AnswerInv'
    <2>a. Answers \subseteq Answers'
      BY <1>1, AnswersStay DEF Answers
    <2>1. CASE SilentStep
      BY <2>1, <2>a DEF SilentStep, Silent, published, AnswerInv, DoneRowMeansAnswered, Answers
    <2>2. ASSUME NEW a \in Actors, NEW x \in Things, LoudStep(a, x) PROVE AnswerInv'
      <3>1. Free(a) /\ CopyTo(a, x, "row")
        BY <2>2 DEF LoudStep
      <3>2. UNCHANGED <<rows, shown, queue>> /\ Alone(a)
        BY <3>1, CopyFacts
      <3>3. ASSUME NEW b \in Actors, pub'[b].about \in Tasks, pub'[b].status = "Done"
            PROVE  pub'[b].about \in Answers'
        <4>1. CASE pub'[b] = pub[b]
          BY <3>3, <4>1, <2>a DEF AnswerInv
        <4>2. CASE pub'[b] # pub[b]
          <5>1. pub'[b] = [about |-> x, status |-> StatusOf(x)', to |-> "row"]
            BY <3>1, <3>2, <4>2, CopyFacts DEF Alone
          <5>2. x \in Tasks /\ tasks'[x].status = "Done"
            BY <3>3, <5>1 DEF StatusOf
          <5>3. x \in answered'
            BY <5>2 DEF DoneMeansAnswered, WithStatus
          <5> QED
            BY <5>1, <5>3 DEF Answers
        <4> QED
          BY <4>1, <4>2
      <3> QED
        BY <2>a, <3>2, <3>3 DEF AnswerInv, DoneRowMeansAnswered, Answers
    <2> QED
      BY <1>1, <2>1, <2>2, Shapes
  <1>c. ASSUME NEW a \in Actors, Alone(a),
               \/ pub'[a] = Nothing
               \/ pub'[a] = [about |-> pub[a].about, status |-> pub[a].status, to |-> "window"],
               NEW b \in Actors, pub'[b].about \in Tasks, pub'[b].status = "Done"
        PROVE  pub'[b].about \in Answers
    <2>1. pub'[b].about = pub[b].about /\ pub'[b].status = pub[b].status
      BY <1>c DEF Alone, Nothing
    <2> QED
      BY <1>c, <2>1 DEF AnswerInv
  <1>2. ASSUME NEW a \in Actors, Upsert(a) PROVE AnswerInv'
    <2> DEFINE x == pub[a].about
    <2>1. /\ rows'[x] = pub[a].status /\ \A y \in Things \ {x} : rows'[y] = rows[y]
          /\ UNCHANGED <<vars, shown, queue, before>>
      BY <1>2, UpsertFacts
    <2>2. Answers' = Answers
      BY <2>1 DEF vars, agentVars, Answers
    <2>3. \A b \in Actors :
             pub'[b].about \in Tasks /\ pub'[b].status = "Done" => pub'[b].about \in Answers
      BY <1>2, <1>c, UpsertFacts
    <2>4. \A t \in Tasks : rows'[t] = "Done" => t \in Answers
      BY <2>1 DEF AnswerInv, DoneRowMeansAnswered, Answers, Things
    <2> QED
      BY <2>1, <2>2, <2>3, <2>4 DEF AnswerInv, DoneRowMeansAnswered, Answers
  <1>3. ASSUME NEW a \in Actors, Emission(a) PROVE AnswerInv'
    <2> DEFINE x == pub[a].about
               m == [about |-> x, status |-> pub[a].status]
    <2>1. /\ x \in Tasks /\ m \in Message /\ UNCHANGED <<vars, rows, before>>
          /\ \/ /\ a = Ui /\ queue' = queue /\ shown'[x] = pub[a].status
                /\ \A y \in Tasks \ {x} : shown'[y] = shown[y]
             \/ a # Ui /\ shown' = shown /\ Post(m)
      BY <1>3, EmissionFacts
    <2>2. Answers' = Answers
      BY <2>1 DEF vars, agentVars, Answers
    <2>3. \A b \in Actors :
             pub'[b].about \in Tasks /\ pub'[b].status = "Done" => pub'[b].about \in Answers
      BY <1>3, <1>c, EmissionFacts
    <2>4. \A t \in Tasks : shown'[t] = "Done" => t \in Answers
      BY <2>1 DEF AnswerInv, DoneRowMeansAnswered, Answers
    <2>5. m.status = "Done" => m.about \in Answers
      BY <2>1 DEF AnswerInv
    <2> HIDE DEF m
    <2>6. \A i \in 1..Len(queue') : queue'[i].status = "Done" => queue'[i].about \in Answers
      <3>1. CASE queue' = queue
        BY <3>1 DEF AnswerInv
      <3>2. CASE Post(m)
        <4>1. queue \in Seq(Message) /\ Len(queue) \in Nat
          BY DEF PubTyped
        <4>2. /\ Len(queue') = Len(queue) + 1 /\ queue'[Len(queue) + 1] = m
              /\ \A i \in 1..Len(queue) : queue'[i] = queue[i]
          BY <2>1, <3>2, <4>1, PostFacts
        <4>3. \A i \in 1..Len(queue') : i \in 1..Len(queue) \/ i = Len(queue) + 1
          BY <4>1, <4>2
        <4> QED
          BY <2>5, <4>2, <4>3 DEF AnswerInv
      <3> QED
        BY <2>1, <3>1, <3>2
    <2> QED
      BY <2>1, <2>2, <2>3, <2>4, <2>6 DEF AnswerInv, DoneRowMeansAnswered, Answers
  <1>4. CASE Deliver
    <2>1. /\ queue \in Seq(Message) /\ queue # <<>> /\ queue' = Tail(queue) /\ queue[1] \in Message
          /\ shown'[queue[1].about] = queue[1].status
          /\ \A t \in Tasks \ {queue[1].about} : shown'[t] = shown[t]
          /\ UNCHANGED <<vars, pub, rows, before>>
      BY <1>4, DeliverFacts
    <2>2. /\ Len(queue) \in Nat /\ Len(queue) >= 1 /\ Len(queue') = Len(queue) - 1
          /\ \A i \in 1..Len(queue') : queue'[i] = queue[i + 1]
      BY <2>1, TailFacts
    <2>3. Answers' = Answers
      BY <2>1 DEF vars, agentVars, Answers
    <2>4. \A i \in 1..Len(queue') : i + 1 \in 1..Len(queue)
      BY <2>2
    <2>5. \A i \in 1..Len(queue') : queue'[i].status = "Done" => queue'[i].about \in Answers
      BY <2>2, <2>4 DEF AnswerInv
    <2>6. 1 \in 1..Len(queue)
      BY <2>2
    <2>7. \A t \in Tasks : shown'[t] = "Done" => t \in Answers
      BY <2>1, <2>6 DEF AnswerInv, DoneRowMeansAnswered, Answers
    <2> QED
      BY <2>1, <2>3, <2>5, <2>7 DEF AnswerInv, DoneRowMeansAnswered, Answers
  <1>5. CASE Restart
    BY <1>5, Ids DEF Restart, Nothing, AnswerInv, DoneRowMeansAnswered, Answers, Things
  <1>6. CASE UNCHANGED allVars
    BY <1>6 DEF allVars, vars, agentVars, published, AnswerInv, DoneRowMeansAnswered, Answers
  <1> QED
    BY <1>1, <1>2, <1>3, <1>4, <1>5, <1>6, PubSteps

\* DoneRowMeansAnswered: where the user writes to no session, what the database or the window calls
\* Done was answered, in this life of the program or in an earlier one.
THEOREM DoneRowsAreAnswered ==
    ASSUME UserCommands \cap {"create", "send", "broadcast"} = {}
    PROVE  PubSpec => []DoneRowMeansAnswered
  <1>1. NoSends
    BY DEF NoSends
  <1>2. PubInit => TypeInv /\ PubTyped /\ OwnerInv /\ LinkInv /\ PipeInv
    BY InitStarts, TypeInit, TypedInit, OwnerInit, LinkInit, PipeInit DEF PubInit
  <1>3. PubInit => AnswerInv
    BY Ids DEF PubInit, Nothing, AnswerInv, DoneRowMeansAnswered, Things
  <1>4. TypeInv /\ LinkInv /\ PipeInv /\ [PubNext]_allVars => PipeInv'
    BY <1>1, PubPipeStep
  <1>5. PipeInv => DoneMeansAnswered
    BY DEF PipeInv
  <1>6. AnswerInv => DoneRowMeansAnswered
    BY DEF AnswerInv
  <1> QED
    BY <1>2, <1>3, <1>4, <1>5, <1>6, PubTypeStep, TypedStep, PubOwnerStep, PubLinkStep, AnswerStep, PTL
       DEF PubSpec

-----------------------------------------------------------------------------
(* Every change is published.  Of a thing whose last publication crossed   *)
(* no other, whatever is on its way says what the core has; a message is   *)
(* sent after the row is written; and when nothing is on its way, both     *)
(* have arrived.                                                           *)

UpToDate(x) ==
    /\ \A a \in Actors : pub[a].about = x =>
          /\ pub[a].status = PublishedStatus(x)
          /\ pub[a].to = "window" => rows[x] = PublishedStatus(x)
    /\ \A i \in 1..Len(queue) : queue[i].about = x =>
          queue[i].status = PublishedStatus(x) /\ rows[x] = PublishedStatus(x)
    /\ ~Pending(x) => /\ rows[x] = PublishedStatus(x)
                      /\ x \in Tasks => shown[x] = PublishedStatus(x)

CurrentInv == \A x \in Things \ crossed : Known(x) => UpToDate(x)

\* What a change of the core and nothing else leaves up to date.
LEMMA StaysUpToDate ==
    ASSUME PubTyped, NEW x \in Things, UpToDate(x), PublishedStatus(x)' = PublishedStatus(x),
           UNCHANGED <<rows, shown, queue>>,
           \A a \in Actors : \/ pub'[a] = pub[a]
                             \/ pub'[a].about # x /\ pub[a].about # x
    PROVE  UpToDate(x)'
  <1>1. Pending(x) => Pending(x)'
    BY DEF Pending
  <1> QED
    BY <1>1 DEF UpToDate

LEMMA SameStatus ==
    ASSUME UNCHANGED vars, NEW x
    PROVE  Known(x)' = Known(x) /\ PublishedStatus(x)' = PublishedStatus(x)
  BY DEF vars, sessionVars, Known, PublishedStatus, StatusOf

LEMMA CurrentStep ==
    ASSUME TypeInv, TypeInv', PubTyped, CurrentInv, [PubNext]_allVars,
           NEW x \in Things, x \notin crossed', Known(x)'
    PROVE  UpToDate(x)'
  <1> DEFINE p == PublishedStatus(x)
  <1>q. queue \in Seq(Message) /\ Len(queue) \in Nat /\ DOMAIN queue = 1..Len(queue)
    BY DEF PubTyped
  <1>1. ASSUME Work PROVE UpToDate(x)'
    <2>1. CASE SilentStep
      <3>1. Known(x) /\ PublishedStatus(x)' = PublishedStatus(x)
        BY <2>1 DEF SilentStep, Still
      <3>2. UNCHANGED <<pub, rows, shown, queue, crossed>>
        BY <2>1 DEF SilentStep, Silent, published
      <3>3. UpToDate(x)
        BY <3>1, <3>2 DEF CurrentInv
      <3> QED
        BY <3>1, <3>2, <3>3, StaysUpToDate
    <2>2. ASSUME NEW a \in Actors, NEW y \in Things, LoudStep(a, y) PROVE UpToDate(x)'
      <3>1. Free(a) /\ CopyTo(a, y, "row") /\ Lone(y) /\ (y \in Tasks => CopySays(a, y))
        BY <2>2 DEF LoudStep
      <3>2. UNCHANGED <<rows, shown, queue>> /\ Alone(a)
        BY <3>1, CopyFacts
      <3>3. pub[a].about # x
        BY <3>1, FreeIsAboutNothing
      <3>4. CASE x = y
        <4>1. /\ pub'[a] = [about |-> x, status |-> StatusOf(x)', to |-> "row"]
              /\ (Pending(x) /\ crossed' = crossed \cup {x}) \/ ~Pending(x)
          BY <3>1, <3>4, CopyFacts
        <4>2. ~Pending(x)
          BY <4>1
        <4>3. /\ \A b \in Actors \ {a} : pub'[b].about # x
              /\ \A i \in 1..Len(queue) : queue[i].about # x
          BY <3>2, <4>2, <1>q DEF Pending, Alone
        <4>4. StatusOf(x)' # "Assigned"
          <5>1. CASE x \in Tasks
            BY <3>1, <3>4, <5>1 DEF CopySays, StatusOf
          <5>2. CASE x \in Sessions /\ x \notin Tasks
            BY <5>2 DEF StatusOf, TypeInv, SessionsTypeOK, Info, SessionStatus
          <5> QED
            BY <5>1, <5>2 DEF Things
        <4>5. PublishedStatus(x)' = StatusOf(x)'
          BY <4>4 DEF PublishedStatus
        <4>6. Pending(x)'
          BY <4>1 DEF Pending
        <4> QED
          BY <3>2, <4>1, <4>3, <4>5, <4>6 DEF UpToDate
      <3>5. CASE x # y
        <4>1. Known(x) /\ PublishedStatus(x)' = PublishedStatus(x)
          BY <3>1, <3>5 DEF Lone, Still
        <4>2. x \notin crossed
          BY <3>1, <3>5, CopyFacts
        <4>3. UpToDate(x)
          BY <4>1, <4>2 DEF CurrentInv
        <4>4. \A b \in Actors : \/ pub'[b] = pub[b]
                                \/ pub'[b].about # x /\ pub[b].about # x
          <5>1. \/ pub' = pub
                \/ pub'[a] = [about |-> y, status |-> StatusOf(y)', to |-> "row"]
            BY <3>1, CopyFacts
          <5>2. pub'[a] = pub[a] \/ pub'[a].about = y
            BY <5>1
          <5> QED
            BY <3>2, <3>3, <3>5, <5>2 DEF Alone
        <4> QED
          BY <3>2, <4>1, <4>3, <4>4, StaysUpToDate
      <3> QED
        BY <3>4, <3>5
    <2> QED
      BY <1>1, <2>1, <2>2, Shapes
  <1>u. ASSUME UNCHANGED <<vars, crossed>>
        PROVE  UpToDate(x) /\ PublishedStatus(x)' = p
    BY <1>u, SameStatus DEF CurrentInv
  <1>2. ASSUME NEW a \in Actors, Upsert(a) PROVE UpToDate(x)'
    <2> DEFINE y == pub[a].about
    <2>1. /\ y \in Things /\ rows'[y] = pub[a].status /\ \A z \in Things \ {y} : rows'[z] = rows[z]
          /\ Alone(a)
          /\ y \in Tasks => pub'[a] = [about |-> y, status |-> pub[a].status, to |-> "window"]
          /\ y \notin Tasks => pub'[a] = Nothing
          /\ UNCHANGED <<vars, shown, queue, crossed>>
      BY <1>2, UpsertFacts
    <2>2. UpToDate(x) /\ PublishedStatus(x)' = p
      BY <2>1, <1>u
    <2>3. CASE y # x
      <3>1. pub'[a].about # x
        BY <2>1, <2>3, Ids DEF Nothing
      <3>2. Pending(x)' <=> Pending(x)
        BY <2>1, <2>3, <3>1 DEF Pending, Alone
      <3>3. rows'[x] = rows[x]
        BY <2>1, <2>3
      <3> QED
        BY <2>1, <2>2, <2>3, <3>1, <3>2, <3>3 DEF UpToDate, Alone
    <2>4. CASE y = x
      <3>1. rows'[x] = p
        BY <2>1, <2>2, <2>4 DEF UpToDate
      <3>2. pub'[a].about = x => pub'[a].status = p
        <4>1. CASE x \in Tasks
          BY <2>1, <2>2, <2>4, <4>1 DEF UpToDate
        <4>2. CASE x \notin Tasks
          BY <2>1, <2>4, <4>2, Ids DEF Nothing
        <4> QED
          BY <4>1, <4>2
      <3>3. x \in Tasks => Pending(x)'
        <4>1. x \in Tasks => pub'[a].about = x
          BY <2>1, <2>4
        <4> QED
          BY <4>1 DEF Pending
      <3> HIDE DEF p
      <3>4. \A b \in Actors : pub'[b].about = x => pub'[b].status = p
        BY <2>1, <2>2, <3>2 DEF UpToDate, Alone, p
      <3>5. \A i \in 1..Len(queue) : queue[i].about = x => queue[i].status = p
        BY <2>2 DEF UpToDate, p
      <3> QED
        BY <2>1, <2>2, <3>1, <3>3, <3>4, <3>5 DEF UpToDate
    <2> QED
      BY <2>3, <2>4
  <1>3. ASSUME NEW a \in Actors, Emission(a) PROVE UpToDate(x)'
    <2> DEFINE y == pub[a].about
               m == [about |-> y, status |-> pub[a].status]
    <2>1. /\ y \in Tasks /\ m \in Message /\ pub[a].to = "window"
          /\ pub'[a] = Nothing /\ Alone(a)
          /\ \/ /\ a = Ui /\ queue' = queue /\ shown'[y] = pub[a].status
                /\ \A z \in Tasks \ {y} : shown'[z] = shown[z]
             \/ a # Ui /\ shown' = shown /\ Post(m)
          /\ UNCHANGED <<vars, rows, crossed>>
      BY <1>3, EmissionFacts
    <2>2. UpToDate(x) /\ PublishedStatus(x)' = p
      BY <2>1, <1>u
    <2>3. \A b \in Actors : pub'[b].about = x => b # a /\ pub'[b] = pub[b]
      BY <2>1, Ids DEF Alone, Nothing
    <2>4. y = x => pub[a].status = p /\ rows[x] = p
      BY <2>1, <2>2 DEF UpToDate
    <2>5. CASE a = Ui
      <3>1. queue' = queue /\ (x \in Tasks /\ x # y => shown'[x] = shown[x]) /\ (x = y => shown'[x] = p)
        BY <2>1, <2>4, <2>5
      <3>2. x # y => (Pending(x) => Pending(x)')
        BY <2>1, <3>1 DEF Pending, Alone
      <3>3. ~Pending(x)' => rows[x] = p /\ (x \in Tasks => shown'[x] = p)
        BY <2>2, <2>4, <3>1, <3>2 DEF UpToDate
      <3> HIDE DEF p
      <3> QED
        BY <2>1, <2>2, <2>3, <3>1, <3>3 DEF UpToDate, p
    <2>6. CASE a # Ui
      <3>1. m.about = x => m.status = p /\ rows[x] = p
        BY <2>4
      <3>2. y = m.about /\ m \in Message /\ Post(m) /\ shown' = shown /\ rows' = rows
        BY <2>1, <2>6
      <3> HIDE DEF m
      <3>3. /\ Len(queue') = Len(queue) + 1 /\ queue'[Len(queue) + 1] = m
            /\ \A i \in 1..Len(queue) : queue'[i] = queue[i]
            /\ queue' \in Seq(Message)
        BY <3>2, <1>q, PostFacts
      <3>4. \A i \in 1..Len(queue') : i \in 1..Len(queue) \/ i = Len(queue) + 1
        BY <3>3, <1>q
      <3>5. DOMAIN queue' = 1..Len(queue') /\ Len(queue) + 1 \in 1..Len(queue')
            /\ \A i \in 1..Len(queue) : i \in 1..Len(queue')
        BY <3>3, <1>q
      <3>6. Pending(x) => Pending(x)'
        <4>1. CASE \E b \in Actors \ {a} : pub[b].about = x
          BY <2>1, <4>1 DEF Pending, Alone
        <4>2. CASE pub[a].about = x
          BY <3>2, <3>3, <3>5, <4>2 DEF Pending
        <4>3. CASE \E i \in 1..Len(queue) : queue[i].about = x
          BY <3>3, <3>5, <4>3 DEF Pending
        <4> QED
          BY <4>1, <4>2, <4>3, <1>q DEF Pending
      <3>7. \A i \in 1..Len(queue') : queue'[i].about = x => queue'[i].status = p /\ rows[x] = p
        BY <2>2, <3>1, <3>3, <3>4 DEF UpToDate
      <3>8. ~Pending(x)' => rows[x] = p /\ (x \in Tasks => shown[x] = p)
        BY <2>2, <3>6 DEF UpToDate
      <3>9. \A b \in Actors : pub'[b].about = x =>
               pub'[b].status = p /\ (pub'[b].to = "window" => rows[x] = p)
        BY <2>2, <2>3 DEF UpToDate
      <3> HIDE DEF p
      <3> QED
        BY <2>2, <3>2, <3>7, <3>8, <3>9 DEF UpToDate, p
    <2> QED
      BY <2>5, <2>6
  <1>4. CASE Deliver
    <2>1. /\ queue # <<>> /\ queue' = Tail(queue) /\ queue[1] \in Message
          /\ shown'[queue[1].about] = queue[1].status
          /\ \A t \in Tasks \ {queue[1].about} : shown'[t] = shown[t]
          /\ UNCHANGED <<vars, pub, rows, crossed>>
      BY <1>4, DeliverFacts
    <2>2. /\ Len(queue) >= 1 /\ Len(queue') = Len(queue) - 1
          /\ \A i \in 1..Len(queue') : queue'[i] = queue[i + 1]
          /\ queue' \in Seq(Message)
      BY <2>1, <1>q, TailFacts
    <2>3. UpToDate(x) /\ PublishedStatus(x)' = p
      BY <2>1, <1>u
    <2>4. 1 \in 1..Len(queue) /\ DOMAIN queue' = 1..Len(queue')
          /\ \A i \in 1..Len(queue') : i + 1 \in 1..Len(queue)
      BY <2>2, <1>q
    <2>5. \A i \in 1..Len(queue') : queue'[i].about = x => queue'[i].status = p /\ rows[x] = p
      BY <2>2, <2>3, <2>4 DEF UpToDate
    <2>6. CASE queue[1].about = x
      <3>1. rows[x] = p /\ shown'[x] = p
        BY <2>1, <2>3, <2>4, <2>6 DEF UpToDate
      <3> HIDE DEF p
      <3> QED
        BY <2>1, <2>3, <2>5, <3>1 DEF UpToDate, p
    <2>7. CASE queue[1].about # x
      <3>1. Pending(x) => Pending(x)'
        <4>1. ASSUME NEW j \in 1..Len(queue), queue[j].about = x PROVE Pending(x)'
          <5>1. j - 1 \in 1..Len(queue') /\ (j - 1) + 1 = j
            BY <2>2, <2>7, <4>1, <1>q
          <5>2. queue'[j - 1].about = x
            BY <2>2, <4>1, <5>1
          <5> QED
            BY <2>4, <5>1, <5>2 DEF Pending
        <4> QED
          BY <2>1, <4>1, <1>q DEF Pending
      <3>2. x \in Tasks => shown'[x] = shown[x]
        BY <2>1, <2>7
      <3> HIDE DEF p
      <3> QED
        BY <2>1, <2>3, <2>5, <3>1, <3>2 DEF UpToDate, p
    <2> QED
      BY <2>6, <2>7
  <1>5. CASE Restart
    BY <1>5 DEF Restart, NewTask, Known, Things
  <1>6. CASE UNCHANGED allVars
    <2>1. UNCHANGED <<vars, pub, rows, shown, queue, crossed>>
      BY <1>6 DEF allVars, published
    <2> QED
      BY <2>1, <1>u, StaysUpToDate
  <1> QED
    BY <1>1, <1>2, <1>3, <1>4, <1>5, <1>6, PubSteps

\* UncrossedIsCurrent: when nothing about a task or a session is on its way, and its last publication
\* overlapped no other, the database and the window agree with the core.
THEOREM ChangesArePublished == PubSpec => []UncrossedIsCurrent
  <1>1. PubInit => TypeInv /\ PubTyped /\ CurrentInv
    <2>1. PubInit => \A x \in Things : ~Known(x)
      BY DEF PubInit, Init, Start, TasksInit, NewTask, SessionsInit, Known
    <2> QED
      BY <2>1, InitStarts, TypeInit, TypedInit DEF PubInit, CurrentInv
  <1>2. TypeInv /\ TypeInv' /\ PubTyped /\ CurrentInv /\ [PubNext]_allVars => CurrentInv'
    BY CurrentStep DEF CurrentInv
  <1>3. CurrentInv => UncrossedIsCurrent
    BY DEF CurrentInv, UncrossedIsCurrent, UpToDate
  <1> QED
    BY <1>1, <1>2, <1>3, PubTypeStep, TypedStep, PTL DEF PubSpec
=============================================================================
