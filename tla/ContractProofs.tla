---------------------------- MODULE ContractProofs ----------------------------
(***************************************************************************)
(* More theorems about Orchestrator: the table names the session that may  *)
(* settle a task, every step keeps what TaskContract promises, and a task  *)
(* that runs is in somebody's care or can be seen not to be.               *)
(***************************************************************************)
EXTENDS OrchestratorProofs

-----------------------------------------------------------------------------
(* What a step does to the links between tasks, sessions and threads: the  *)
(* registry, the current task of each session, where its reader is, and    *)
(* what the threads hold.                                                  *)

SameCurrents == \A r \in Sessions : info'[r].current_task = info[r].current_task
OthersKept(s) == \A r \in Sessions \ {s} : reader'[r] = reader[r] /\ info'[r] = info[r]

LinksKept ==
    /\ UNCHANGED <<registry, reader>>
    /\ SameCurrents
    /\ \A r \in Sessions : info'[r].status \in {info[r].status, "Busy"}

\* The reader of s takes a line, or finds the end of the stream.
ReaderMoves(s) ==
    /\ reader[s].pc = "read" /\ reader'[s].pc \in {"read", "turn", "reap"}
    /\ SameCurrents /\ OthersKept(s)
    /\ UNCHANGED <<tasks, registry, thread>>

ReaderTakes(s) ==
    /\ reader[s].pc = "turn"
    /\ \/ /\ s \in registry /\ info[s].current_task \in Tasks
          /\ reader'[s].pc = "settle" /\ reader'[s].task = info[s].current_task
          /\ info'[s].current_task = NoTask
       \/ reader'[s].pc = "read" /\ SameCurrents /\ (s \in registry => info[s].current_task = NoTask)
    /\ OthersKept(s)
    /\ UNCHANGED <<tasks, registry, thread>>

ReaderSettles(s) ==
    /\ reader[s].pc = "settle" /\ reader'[s].pc = "read"
    /\ reader[s].task \in Tasks
    /\ SettleTask(reader[s].task, reader[s].is_error)
    /\ OthersKept(s)
    /\ UNCHANGED <<registry, info, thread>>

ReaderEnds(s) ==
    /\ reader[s].pc = "reap"
    /\ \/ /\ s \in registry /\ info[s].current_task \in Tasks
          /\ FinalStatus(s) = "Crashed"
          /\ reader'[s].pc = "recover" /\ reader'[s].task = info[s].current_task
       \/ /\ reader'[s].pc = "done"
          /\ s \in registry /\ info[s].current_task # NoTask => FinalStatus(s) # "Crashed"
    /\ s \in registry => info'[s].status = FinalStatus(s)
    /\ SameCurrents /\ OthersKept(s)
    /\ UNCHANGED <<tasks, registry, thread>>

ReaderRecovers(s) ==
    /\ reader[s].pc = "recover" /\ reader'[s].pc = "done"
    /\ reader[s].task \in Tasks
    /\ RecoverTask(reader[s].task)
    /\ OthersKept(s)
    /\ UNCHANGED <<registry, info, thread>>

\* A new session is entered.
Launched(s) ==
    /\ reader[s].pc = "none" /\ reader'[s].pc = "read"
    /\ registry' = registry \cup {s}
    /\ info'[s].current_task = NoTask
    /\ OthersKept(s)
    /\ tasks' = tasks

Removed(s) ==
    /\ s \in registry /\ registry' = registry \ {s}
    /\ info'[s].current_task = NoTask
    /\ reader' = reader /\ OthersKept(s)
    /\ tasks' = tasks
    /\ thread'[Scheduler] = thread[Scheduler]
    /\ thread[Ui].pc = "ready"
    /\ \/ info[s].current_task = NoTask /\ thread' = thread
       \/ /\ info[s].current_task \in Tasks
          /\ thread'[Ui].pc = "fail" /\ thread'[Ui].task = info[s].current_task

\* The interface thread goes on with a command, with no effect on the table.
UiMoves ==
    /\ LinksKept
    /\ tasks' = tasks
    /\ thread'[Scheduler] = thread[Scheduler]
    /\ thread[Ui].pc # "fail" /\ thread'[Ui].pc # "fail"

UiLaunches ==
    /\ \E s \in Sessions : Launched(s)
    /\ thread'[Scheduler] = thread[Scheduler]
    /\ thread[Ui].pc = "ready" /\ thread'[Ui].pc = "ready"

UiTables ==
    /\ LinksKept
    /\ thread' = thread
    /\ \E t \in Tasks : EnqueueTask(t) \/ CancelTask(t)

UiFails ==
    /\ LinksKept
    /\ thread[Ui].pc = "fail" /\ thread'[Ui].pc = "ready"
    /\ thread[Ui].task \in Tasks
    /\ FailTask(thread[Ui].task)
    /\ thread'[Scheduler] = thread[Scheduler]

\* The scheduler goes from one place to another with the task and the session it holds.
SchedulerGoes(from, to) ==
    /\ thread[Scheduler].pc = from /\ thread'[Scheduler].pc = to
    /\ thread'[Scheduler].task = Held
    /\ thread'[Scheduler].sid = thread[Scheduler].sid

SchedulerIdles ==
    /\ LinksKept
    /\ tasks' = tasks
    /\ thread[Scheduler].pc \in {"asleep", "count", "take"}
    /\ thread'[Scheduler].pc \in {"asleep", "count", "take"}

SchedulerTakes(t) ==
    /\ LinksKept
    /\ thread[Scheduler].pc = "take" /\ thread'[Scheduler].pc \in {"find", "spawn"}
    /\ thread'[Scheduler].task = t
    /\ TakeNextTask(t)

\* A worker is found, or entered.
SchedulerChooses(s) ==
    /\ \/ LinksKept /\ tasks' = tasks /\ s \in registry /\ info[s].current_task = NoTask
       \/ Launched(s)
    /\ thread[Scheduler].pc \in {"find", "spawn"} /\ thread'[Scheduler].pc = "start"
    /\ thread'[Scheduler].task = Held
    /\ thread'[Scheduler].sid = s

SchedulerStarts ==
    /\ LinksKept
    /\ SchedulerGoes("start", "bind")
    /\ Held \in Tasks /\ thread[Scheduler].sid \in Sessions \cup {NoSession}
    /\ StartTask(Held, thread[Scheduler].sid)

SchedulerBinds ==
    /\ SchedulerGoes("bind", "lookup")
    /\ Held \in Tasks
    /\ UNCHANGED <<tasks, registry, reader>>
    /\ \A r \in Sessions :
          /\ info'[r].status = info[r].status
          /\ info'[r].current_task = IF r = thread[Scheduler].sid /\ r \in registry
                                     THEN Held ELSE info[r].current_task

\* send_message, up to the mark.
SchedulerSends ==
    /\ LinksKept
    /\ tasks' = tasks
    /\ \/ thread[Scheduler].sid \in registry /\ SchedulerGoes("lookup", "write")
       \/ thread[Scheduler].sid \notin registry /\ SchedulerGoes("lookup", "fail")
       \/ ~Exited(thread[Scheduler].sid) /\ SchedulerGoes("write", "mark")
       \/ SchedulerGoes("write", "fail")

SchedulerMarks ==
    /\ LinksKept
    /\ tasks' = tasks
    /\ thread[Scheduler].pc = "mark" /\ thread'[Scheduler].pc = "count"
    /\ \A r \in registry : r = thread[Scheduler].sid => info'[r].status = "Busy"

\* No worker is found, or none can be spawned.
SchedulerMisses ==
    /\ LinksKept
    /\ tasks' = tasks
    /\ SchedulerGoes("find", "spawn") \/ SchedulerGoes("spawn", "fail")

SchedulerFails ==
    /\ LinksKept
    /\ thread[Scheduler].pc = "fail" /\ thread'[Scheduler].pc = "count"
    /\ Held \in Tasks
    /\ FailTask(Held)

ReaderLink(s) ==
    ReaderMoves(s) \/ ReaderTakes(s) \/ ReaderSettles(s) \/ ReaderEnds(s) \/ ReaderRecovers(s)

UiLink ==
    \/ UiMoves \/ UiLaunches \/ UiTables \/ UiFails
    \/ \E s \in Sessions : Removed(s)

SchedulerLink ==
    /\ thread'[Ui] = thread[Ui]
    /\ \/ SchedulerIdles \/ SchedulerMisses \/ SchedulerStarts \/ SchedulerBinds
       \/ SchedulerSends \/ SchedulerMarks \/ SchedulerFails
       \/ \E t \in Tasks : SchedulerTakes(t)
       \/ \E s \in Sessions : SchedulerChooses(s)

\* What an agent does changes no link.
NoLink == LinksKept /\ UNCHANGED <<tasks, thread>>

LEMMA ReaderLinks ==
    ASSUME TypeInv, NEW s \in Sessions, ReaderStep(s)
    PROVE  ReaderLink(s)
  <1>f. thread' = thread
    BY DEF ReaderStep
  <1>r. reader \in [Sessions -> Reader] /\ InfoTypeOK
    BY DEF TypeInv, SessionsTypeOK, InfoTypeOK
  <1>1. CASE ReadAfterStop(s) /\ UNCHANGED tasks
    BY <1>1, <1>f, <1>r DEF ReadAfterStop, ReadLine, Reader, ReaderMoves, SameCurrents, OthersKept,
                            ReaderLink
  <1>2. CASE ReadInit(s) /\ UNCHANGED tasks
    <2>1. /\ reader' = reader /\ registry' = registry /\ reader[s].pc = "read"
          /\ SameCurrents
          /\ \A r \in Sessions \ {s} : info'[r] = info[r]
      BY <1>2, <1>r DEF ReadInit, ReadLine, SameCurrents, InfoTypeOK, Info
    <2> QED
      BY <1>2, <1>f, <2>1 DEF ReaderMoves, OthersKept, ReaderLink
  <1>3. CASE ReadAssistant(s) /\ UNCHANGED tasks
    <2>1. SameCurrents /\ \A r \in Sessions \ {s} : info'[r] = info[r]
      BY <1>3, <1>r, UpdateStatusFacts DEF ReadAssistant, ReadLine, SameCurrents, SessionStatus
    <2> QED
      BY <1>3, <1>f, <2>1 DEF ReadAssistant, ReadLine, ReaderMoves, OthersKept, ReaderLink
  <1>4. CASE ReadResult(s) /\ UNCHANGED tasks
    <2>1. SameCurrents /\ \A r \in Sessions \ {s} : info'[r] = info[r]
      BY <1>4, <1>r, UpdateStatusFacts DEF ReadResult, ReadLine, SameCurrents, SessionStatus
    <2>2. /\ reader[s].pc = "read" /\ reader'[s].pc = "turn" /\ registry' = registry
          /\ \A r \in Sessions \ {s} : reader'[r] = reader[r]
      BY <1>4, <1>r DEF ReadResult, ReadLine, Reader
    <2> QED
      BY <1>4, <1>f, <2>1, <2>2 DEF ReaderMoves, OthersKept, ReaderLink
  <1>5. CASE TakeCurrentTask(s) /\ UNCHANGED tasks
    <2> DEFINE t == IF s \in registry THEN info[s].current_task ELSE NoTask
    <2>1. /\ reader[s].pc = "turn" /\ BindTask(s, NoTask) /\ registry' = registry
          /\ reader' = [reader EXCEPT ![s].pc = IF t = NoTask THEN "read" ELSE "settle",
                                      ![s].task = t]
      BY <1>5 DEF TakeCurrentTask
    <2>2. t \in Tasks \cup {NoTask} /\ (t # NoTask => s \in registry /\ t = info[s].current_task)
          /\ (t = NoTask /\ s \in registry => info[s].current_task = NoTask)
      BY <1>r DEF InfoTypeOK, Info
    <2>3. /\ \A r \in Sessions \ {s} : info'[r] = info[r]
          /\ s \in registry => info'[s].current_task = NoTask
          /\ s \notin registry => info' = info
      BY <2>1, <1>r, BindFacts DEF BindTask
    <2> HIDE DEF t
    <2>4. /\ reader'[s].pc = (IF t = NoTask THEN "read" ELSE "settle") /\ reader'[s].task = t
          /\ \A r \in Sessions \ {s} : reader'[r] = reader[r]
      BY <2>1, <1>r DEF Reader
    <2> QED
      BY <1>5, <1>f, <2>1, <2>2, <2>3, <2>4
         DEF ReaderTakes, SameCurrents, OthersKept, ReaderLink
  <1>6. CASE SettleTurn(s)
    BY <1>6, <1>f, <1>r
       DEF SettleTurn, TypeInv, HeldByReaders, NewReader, ReaderSettles, OthersKept, ReaderLink
  <1>7. CASE ReadEof(s) /\ UNCHANGED tasks
    BY <1>7, <1>f, <1>r DEF ReadEof, Reader, ReaderMoves, SameCurrents, OthersKept, ReaderLink
  <1>8. CASE Finalize(s) /\ UNCHANGED tasks
    <2> DEFINE t == info[s].current_task
    <2> DEFINE recovers == s \in registry /\ FinalStatus(s) = "Crashed" /\ t # NoTask
    <2>1. reader[s].pc = "reap" /\ UpdateStatus(s, FinalStatus(s)) /\ registry' = registry
          /\ reader' = [reader EXCEPT ![s] = IF recovers THEN [NewReader("recover") EXCEPT !.task = t]
                                                         ELSE NewReader("done")]
      BY <1>8 DEF Finalize
    <2>2. FinalStatus(s) \in SessionStatus
      BY DEF FinalStatus, SessionStatus
    <2>3. SameCurrents /\ \A r \in Sessions \ {s} : info'[r] = info[r]
      BY <2>1, <2>2, <1>r, UpdateStatusFacts DEF SameCurrents
    <2>4. s \in registry => info'[s].status = FinalStatus(s)
      BY <2>1, <1>r DEF UpdateStatus, InfoTypeOK, Info
    <2>5. t \in Tasks \cup {NoTask}
      BY <1>r DEF InfoTypeOK, Info
    <2>6. /\ \A r \in Sessions \ {s} : reader'[r] = reader[r]
          /\ recovers => reader'[s].pc = "recover" /\ reader'[s].task = t
          /\ ~recovers => reader'[s].pc = "done"
      BY <2>1, <1>r DEF NewReader
    <2> QED
      BY <1>8, <1>f, <2>1, <2>3, <2>4, <2>5, <2>6 DEF ReaderEnds, OthersKept, ReaderLink
  <1>9. CASE RecoverInterrupted(s)
    BY <1>9, <1>f, <1>r
       DEF RecoverInterrupted, TypeInv, HeldByReaders, NewReader, ReaderRecovers, OthersKept,
           ReaderLink
  <1> QED
    BY <1>1, <1>2, <1>3, <1>4, <1>5, <1>6, <1>7, <1>8, <1>9 DEF ReaderStep, ReaderNext

LEMMA UiLinks ==
    ASSUME TypeInv, UiNext
    PROVE  UiLink
  <1>h. Ui \in Threads /\ Scheduler \in Threads /\ Scheduler # Ui
    BY DEF Threads, Scheduler, Ui
  <1>t. thread \in [Threads -> Thread] /\ ThreadsTypeOK /\ InfoTypeOK
    BY DEF TypeInv, ThreadsTypeOK, SessionsTypeOK, InfoTypeOK
  <1>s. ASSUME UNCHANGED sessionVars PROVE LinksKept
    BY <1>s DEF sessionVars, LinksKept, SameCurrents
  \* What the interface thread does where it is ready.
  <1>1. ASSUME NEW t \in Tasks, UiEnqueue(t) \/ UiCancel(t) PROVE UiTables
    BY <1>1, <1>s DEF UiEnqueue, UiCancel, UiTables
  <1>2. ASSUME NEW s \in Sessions, NEW c \in Contexts, UiCreate(s, c) PROVE UiLaunches
    <2>1. Launched(s)
      BY <1>2, SpawnFacts DEF UiCreate, SpawnHeadless, Launched, OthersKept
    <2>2. /\ thread'[Scheduler] = thread[Scheduler]
          /\ thread[Ui].pc = "ready" /\ thread'[Ui].pc = "ready"
      BY <1>2, <1>h, <1>t DEF UiCreate, Gives, Ready, At, Thread
    <2> QED
      BY <2>1, <2>2 DEF UiLaunches
  <1>3. ASSUME NEW s \in Sessions, UiSend(s) \/ UiNextTarget(s) PROVE UiMoves
    <2>1. /\ thread'[Scheduler] = thread[Scheduler]
          /\ thread[Ui].pc # "fail" /\ thread'[Ui].pc # "fail"
      BY <1>3, <1>h, <1>t DEF UiSend, UiNextTarget, Gives, Ready, At, Thread
    <2> QED
      BY <1>3, <1>s, <2>1 DEF UiSend, UiNextTarget, UiMoves
  <1>4. CASE UiBroadcast
    <2>1. /\ thread'[Scheduler] = thread[Scheduler]
          /\ thread[Ui].pc # "fail" /\ thread'[Ui].pc # "fail"
      BY <1>4, <1>h, <1>t DEF UiBroadcast, Gives, Ready, At, Thread
    <2> QED
      BY <1>4, <1>s, <2>1 DEF UiBroadcast, UiMoves, UiLink
  <1>5. ASSUME NEW s \in Sessions, UiKill(s) PROVE UiMoves
    <2>1. /\ thread'[Scheduler] = thread[Scheduler]
          /\ thread[Ui].pc # "fail" /\ thread'[Ui].pc # "fail"
      BY <1>5, <1>h, <1>t DEF UiKill, Gives, Ready, At, Thread
    <2> QED
      BY <1>5, <2>1 DEF UiKill, UiMoves, LinksKept, SameCurrents
  <1>6. CASE UiKillProcess
    <2>1. /\ thread'[Scheduler] = thread[Scheduler]
          /\ thread[Ui].pc # "fail" /\ thread'[Ui].pc # "fail"
      BY <1>6, <1>h, <1>t, FinishFacts DEF UiKillProcess, At
    <2> QED
      BY <1>6, <1>s, <2>1 DEF UiKillProcess, UiMoves, UiLink
  <1>7. ASSUME NEW s \in Sessions, UiRemove(s) PROVE Removed(s)
    <2>1. /\ thread'[Scheduler] = thread[Scheduler] /\ thread[Ui].pc = "ready"
          /\ \/ info[s].current_task = NoTask /\ thread' = thread
             \/ /\ info[s].current_task \in Tasks
                /\ thread'[Ui].pc = "fail" /\ thread'[Ui].task = info[s].current_task
      BY <1>7, <1>h, <1>t DEF UiRemove, Gives, Ready, At, Thread, InfoTypeOK, Info
    <2>2. /\ registry' = registry \ {s} /\ s \in registry /\ reader' = reader /\ tasks' = tasks
          /\ \A r \in Sessions \ {s} : info'[r] = info[r]
          /\ info'[s].current_task = NoTask
      BY <1>7, <1>t DEF UiRemove, InfoTypeOK, NoInfo
    <2> QED
      BY <2>1, <2>2 DEF Removed, OthersKept
  <1>8. CASE SendNext(Ui)
    <2>1. CASE FailHeld(Ui)
      <3>1. thread'[Scheduler] = thread[Scheduler] /\ thread'[Ui].pc = "ready"
        BY <2>1, <1>h, <1>t, FinishFacts DEF FailHeld
      <3> QED
        BY <2>1, <3>1, <1>s DEF FailHeld, At, TypeInv, HeldByThreads, UiFails, UiLink
    <2>2. CASE SendMark(Ui)
      <3>1. /\ thread'[Scheduler] = thread[Scheduler]
            /\ thread[Ui].pc # "fail" /\ thread'[Ui].pc # "fail"
        BY <2>2, <1>h, <1>t, FinishFacts DEF SendMark, At
      <3>2. SameCurrents
        BY <2>2, <1>t, UpdateStatusFacts DEF SendMark, SameCurrents, SessionStatus
      <3>3. \A r \in Sessions : info'[r].status \in {info[r].status, "Busy"}
        BY <2>2, <1>t DEF SendMark, UpdateStatus, InfoTypeOK, Info
      <3> QED
        BY <2>2, <3>1, <3>2, <3>3 DEF SendMark, UiMoves, LinksKept, UiLink
    <2>3. CASE SendLookup(Ui) \/ SendWrite(Ui) \/ SendBroken(Ui)
      <3>1. /\ thread'[Scheduler] = thread[Scheduler]
            /\ thread[Ui].pc # "fail" /\ thread'[Ui].pc # "fail"
        BY <2>3, <1>h, <1>t, GotoFacts, FinishFacts
           DEF SendLookup, SendWrite, SendBroken, SendError, At
      <3> QED
        BY <2>3, <3>1, <1>s DEF SendLookup, SendWrite, SendBroken, UiMoves, UiLink
    <2> QED
      BY <1>8, <2>1, <2>2, <2>3 DEF SendNext
  <1>9. ASSUME NEW policy \in Policies, UiSetConfig(policy) PROVE UiMoves
    <2>1. thread' = thread /\ thread[Ui].pc # "fail"
      BY <1>9 DEF UiSetConfig, Gives, Ready, At
    <2> QED
      BY <1>9, <1>s, <2>1 DEF UiSetConfig, UiMoves
  <1> QED
    BY <1>1, <1>2, <1>3, <1>4, <1>5, <1>6, <1>7, <1>8, <1>9 DEF UiNext, UiContinue, UiLink

LEMMA SchedulerLinks ==
    ASSUME TypeInv, SchedulerNext
    PROVE  SchedulerLink
  <1>h. Scheduler \in Threads /\ Ui \in Threads /\ Scheduler # Ui
    BY DEF Threads, Scheduler, Ui
  <1>t. thread \in [Threads -> Thread] /\ ThreadsTypeOK /\ InfoTypeOK
    BY DEF TypeInv, ThreadsTypeOK, SessionsTypeOK, InfoTypeOK
  <1>s. ASSUME UNCHANGED sessionVars PROVE LinksKept
    BY <1>s DEF sessionVars, LinksKept, SameCurrents
  <1>g. ASSUME NEW from, NEW pc, At(Scheduler, from), Goto(Scheduler, pc),
               pc \in {"asleep", "count", "take", "find", "spawn", "start", "bind",
                       "lookup", "write", "mark", "fail", "ready", "kill"}
        PROVE  SchedulerGoes(from, pc) /\ thread'[Ui] = thread[Ui]
    BY <1>g, <1>h, <1>t, GotoFacts DEF SchedulerGoes, At, Held
  <1>1. CASE Tick \/ CountActive \/ TakeNothing
    <2>1. /\ thread[Scheduler].pc \in {"asleep", "count", "take"}
          /\ thread'[Scheduler].pc \in {"asleep", "count", "take"}
          /\ thread'[Ui] = thread[Ui]
      BY <1>1, <1>h, <1>t, GotoFacts, TickFacts
         DEF Tick, CountActive, TakeNothing, At, TypeInv, UserOK
    <2> QED
      BY <1>1, <2>1, <1>s DEF Tick, CountActive, TakeNothing, SchedulerIdles, SchedulerLink
  <1>2. CASE FindNone \/ SpawnFails
    <2>1. /\ SchedulerGoes("find", "spawn") \/ SchedulerGoes("spawn", "fail")
          /\ thread'[Ui] = thread[Ui]
      BY <1>2, <1>g DEF FindNone, SpawnFails
    <2> QED
      BY <1>2, <2>1, <1>s DEF FindNone, SpawnFails, SchedulerMisses, SchedulerLink
  <1>3. ASSUME NEW t \in Tasks, TakeTask(t) PROVE SchedulerLink
    <2>1. /\ thread[Scheduler].pc = "take" /\ thread'[Scheduler].pc \in {"find", "spawn"}
          /\ thread'[Scheduler].task = t /\ thread'[Ui] = thread[Ui]
      BY <1>3, <1>h, <1>t DEF TakeTask, AfterTake, At, Thread
    <2> QED
      BY <1>3, <2>1, <1>s DEF TakeTask, SchedulerTakes, SchedulerLink
  <1>4. ASSUME NEW s \in Sessions, FindIdle(s) \/ SpawnWorker(s) PROVE SchedulerLink
    <2>1. /\ thread[Scheduler].pc \in {"find", "spawn"} /\ thread'[Scheduler].pc = "start"
          /\ thread'[Scheduler].task = Held /\ thread'[Scheduler].sid = s
          /\ thread'[Ui] = thread[Ui]
      BY <1>4, <1>h, <1>t DEF FindIdle, SpawnWorker, At, Thread, Held
    <2>2. CASE FindIdle(s)
      BY <2>1, <2>2, <1>s DEF FindIdle, IsIdleFor, SchedulerChooses, SchedulerLink
    <2>3. CASE SpawnWorker(s)
      <3>1. TaskContext[Held] \in Contexts
        BY <2>3, TaskContextAssumption DEF SpawnWorker, At, TypeInv, HeldByThreads, Held
      <3>2. Launched(s)
        BY <2>3, <3>1, SpawnFacts DEF SpawnWorker, SpawnHeadless, Launched, OthersKept
      <3> QED
        BY <2>1, <3>2 DEF SchedulerChooses, SchedulerLink
    <2> QED
      BY <1>4, <2>2, <2>3
  <1>5. CASE StartHeld
    <2>1. Held \in Tasks /\ thread[Scheduler].sid \in Sessions \cup {NoSession}
      BY <1>5, <1>h, <1>t DEF StartHeld, At, TypeInv, HeldByThreads, Held, Thread
    <2>2. SchedulerGoes("start", "bind") /\ thread'[Ui] = thread[Ui]
      BY <1>5, <1>g DEF StartHeld
    <2> QED
      BY <1>5, <2>1, <2>2, <1>s DEF StartHeld, SchedulerStarts, SchedulerLink
  <1>6. CASE BindHeld
    <2>1. Held \in Tasks
      BY <1>6 DEF BindHeld, At, TypeInv, HeldByThreads, Held
    <2>2. SchedulerGoes("bind", "lookup") /\ thread'[Ui] = thread[Ui]
      BY <1>6, <1>g DEF BindHeld
    <2>3. \A r \in Sessions :
            /\ info'[r].status = info[r].status
            /\ info'[r].current_task = IF r = thread[Scheduler].sid /\ r \in registry
                                       THEN Held ELSE info[r].current_task
      BY <1>6, <1>t DEF BindHeld, BindTask, InfoTypeOK, Info
    <2> QED
      BY <1>6, <2>1, <2>2, <2>3 DEF BindHeld, SchedulerBinds, SchedulerLink
  <1>7. CASE SendNext(Scheduler)
    <2>1. CASE FailHeld(Scheduler)
      <3>1. thread'[Scheduler].pc = "count" /\ thread'[Ui] = thread[Ui]
        BY <2>1, <1>h, <1>t, FinishFacts DEF FailHeld
      <3> QED
        BY <2>1, <3>1, <1>s DEF FailHeld, At, TypeInv, HeldByThreads, Held, SchedulerFails,
                                SchedulerLink
    <2>2. CASE SendMark(Scheduler)
      <3>1. thread[Scheduler].pc = "mark" /\ thread'[Scheduler].pc = "count"
            /\ thread'[Ui] = thread[Ui]
        BY <2>2, <1>h, <1>t, FinishFacts DEF SendMark, At
      <3>2. SameCurrents
        BY <2>2, <1>t, UpdateStatusFacts DEF SendMark, SameCurrents, SessionStatus
      <3>3. /\ \A r \in Sessions : info'[r].status \in {info[r].status, "Busy"}
            /\ \A r \in registry : r = thread[Scheduler].sid => info'[r].status = "Busy"
        BY <2>2, <1>t DEF SendMark, UpdateStatus, InfoTypeOK, Info
      <3> QED
        BY <2>2, <3>1, <3>2, <3>3 DEF SendMark, SchedulerMarks, LinksKept, SchedulerLink
    <2>3. CASE SendLookup(Scheduler) \/ SendWrite(Scheduler) \/ SendBroken(Scheduler)
      <3>1. /\ \/ thread[Scheduler].sid \in registry /\ SchedulerGoes("lookup", "write")
               \/ thread[Scheduler].sid \notin registry /\ SchedulerGoes("lookup", "fail")
               \/ ~Exited(thread[Scheduler].sid) /\ SchedulerGoes("write", "mark")
               \/ SchedulerGoes("write", "fail")
            /\ thread'[Ui] = thread[Ui]
        BY <2>3, <1>g DEF SendLookup, SendWrite, WriteTurn, SendBroken, SendError
      <3> QED
        BY <2>3, <3>1, <1>s DEF SendLookup, SendWrite, SendBroken, SchedulerSends, SchedulerLink
    <2> QED
      BY <1>7, <2>1, <2>2, <2>3 DEF SendNext
  <1> QED
    BY <1>1, <1>2, <1>3, <1>4, <1>5, <1>6, <1>7 DEF SchedulerNext

\* Every step is one of these.
LEMMA Links ==
    ASSUME TypeInv, [Next]_vars
    PROVE  \/ NoLink \/ UiLink \/ SchedulerLink
           \/ \E s \in Sessions : ReaderLink(s)
  <1>1. CASE UNCHANGED vars
    BY <1>1 DEF vars, NoLink, LinksKept, SameCurrents
  <1>2. ASSUME NEW s \in Sessions, AgentStep(s) PROVE NoLink
    BY <1>2 DEF AgentStep, sessionVars, NoLink, LinksKept, SameCurrents
  <1>3. CASE Next
    BY <1>2, <1>3, ReaderLinks, UiLinks, SchedulerLinks DEF Next
  <1> QED
    BY <1>1, <1>3

-----------------------------------------------------------------------------
(* The task table names the one session that may settle a task.            *)

\* A task that was started and not given to its worker yet is recorded with that worker.
BoundRecord ==
    thread[Scheduler].pc = "bind" => tasks[Held].session_id = thread[Scheduler].sid

RecordInv == ClaimMatchesRecord /\ BoundRecord

\* Only a start and a recovery change the session a task is recorded with.
LEMMA RecordKept ==
    ASSUME TasksTypeOK, NEW t \in Tasks,
           \/ EnqueueTask(t) \/ CancelTask(t) \/ TakeNextTask(t) \/ FailTask(t)
           \/ \E is_error \in BOOLEAN : SettleTask(t, is_error)
    PROVE  \A u \in Tasks : tasks'[u].session_id = tasks[u].session_id
  BY DEF EnqueueTask, CancelTask, TakeNextTask, FailTask, SettleTask, TasksTypeOK, Task

\* The step of the scheduler from start to bind keeps the session it has chosen.
LEMMA StartRecords ==
    ASSUME TypeInv, [Next]_vars, StartStep
    PROVE  thread'[Scheduler].sid = thread[Scheduler].sid
  BY Links
     DEF StartStep, NoLink, UiLink, UiMoves, UiLaunches, UiTables, UiFails, Removed, SchedulerLink,
         SchedulerIdles, SchedulerTakes, SchedulerChooses, SchedulerStarts, SchedulerBinds,
         SchedulerSends, SchedulerMarks, SchedulerMisses, SchedulerFails, SchedulerGoes,
         ReaderLink, ReaderMoves, ReaderTakes, ReaderSettles, ReaderEnds, ReaderRecovers

LEMMA RecordStep == TypeInv /\ OwnerInv /\ RecordInv /\ [Next]_vars => RecordInv'
  <1> SUFFICES ASSUME TypeInv, OwnerInv, RecordInv, [Next]_vars PROVE RecordInv'
    OBVIOUS
  <1>t. TasksTypeOK
    BY DEF TypeInv
  <1>r. \A t \in Tasks, s \in Sessions : Claims(s, t) => tasks[t].session_id = s
    BY DEF RecordInv, ClaimMatchesRecord
  <1>h. thread[Scheduler].pc = "bind" => Held \in Tasks
    BY DEF TypeInv, HeldByThreads, Held
  \* No one is given a task, and every task keeps its record.
  <1>k. ASSUME NoNewClaims, \A u \in Tasks : tasks'[u].session_id = tasks[u].session_id,
               thread'[Scheduler] = thread[Scheduler] \/ thread'[Scheduler].pc # "bind"
        PROVE  RecordInv'
    <2>1. ClaimMatchesRecord'
      BY <1>k, <1>r DEF ClaimMatchesRecord, NoNewClaims
    <2>2. BoundRecord'
      BY <1>k, <1>h DEF RecordInv, BoundRecord, Held
    <2> QED
      BY <2>1, <2>2 DEF RecordInv
  <1>1. CASE EnvStep
    <2>1. NoNewClaims /\ thread'[Scheduler] = thread[Scheduler]
      BY <1>1 DEF EnvStep
    <2>2. CASE tasks' = tasks
      BY <1>k, <2>1, <2>2
    <2>3. CASE \E t \in Tasks : EnqueueTask(t) \/ CancelTask(t) \/ FailTask(t)
      BY <1>k, <1>t, <2>1, <2>3, RecordKept
    <2>4. ASSUME NEW t \in Tasks, NEW s \in Sessions, SettleTask(t, reader[s].is_error)
          PROVE  RecordInv'
      <3>1. reader[s].is_error \in BOOLEAN
        BY DEF TypeInv, SessionsTypeOK, Reader
      <3> QED
        BY <1>k, <1>t, <2>1, <2>4, <3>1, RecordKept
    <2>5. ASSUME NEW t \in Tasks, NEW s \in Sessions,
                 Claims(s, t), ~Claims(s, t)', RecoverTask(t)
          PROVE  RecordInv'
      <3>1. Others(t)
        BY <1>t, <2>5, RecoverFacts
      <3>2. \A r \in Sessions : ~Claims(r, t)'
        BY <2>1, <2>5, OwnerFacts DEF NoNewClaims
      <3>3. thread[Scheduler].pc = "bind" => Held # t
        BY <2>5, OwnerFacts
      <3>4. ClaimMatchesRecord'
        BY <1>r, <2>1, <3>1, <3>2 DEF ClaimMatchesRecord, NoNewClaims, Others
      <3>5. BoundRecord'
        BY <1>h, <2>1, <3>1, <3>3 DEF RecordInv, BoundRecord, Held, Others
      <3> QED
        BY <3>4, <3>5 DEF RecordInv
    <2> QED
      BY <1>1, <2>2, <2>3, <2>4, <2>5 DEF EnvStep, EnvEffect
  <1>2. CASE QuietStep
    BY <1>2, <1>k DEF QuietStep
  <1>3. CASE TakeStep
    BY <1>3, <1>k, <1>t, RecordKept DEF TakeStep, TakenPcs
  <1>4. CASE StartStep
    <2>1. PICK t \in Tasks : t = Held
      BY <1>4 DEF StartStep
    <2>2. Others(t) /\ tasks'[t].session_id = thread[Scheduler].sid
      BY <1>4, <1>t, <2>1 DEF StartStep, StartTask, TasksTypeOK, Task, Others
    <2>3. \A s \in Sessions : ~Claims(s, t)
      BY <1>4, <2>1, OwnerFacts DEF StartStep, TakenPcs
    <2>4. ClaimMatchesRecord'
      BY <1>4, <1>r, <2>2, <2>3 DEF ClaimMatchesRecord, StartStep, NoNewClaims, Others
    <2>5. BoundRecord'
      BY <1>4, <2>1, <2>2, StartRecords DEF StartStep, BoundRecord, Held
    <2> QED
      BY <2>4, <2>5 DEF RecordInv
  <1>5. CASE BindStep
    <2>1. tasks[Held].session_id = thread[Scheduler].sid
      BY <1>5 DEF BindStep, RecordInv, BoundRecord
    <2>2. ClaimMatchesRecord'
      BY <1>5, <1>r, <2>1 DEF BindStep, ClaimMatchesRecord
    <2> QED
      BY <1>5, <2>2 DEF BindStep, RecordInv, BoundRecord
  <1>6. CASE FailStep
    BY <1>6, <1>k, <1>t, RecordKept DEF FailStep
  <1> QED
    BY <1>1, <1>2, <1>3, <1>4, <1>5, <1>6, StepKinds

\* Whatever the users send to whom, and whichever workers crash: a session that may still settle
\* or recover a task is the one the task table names.
THEOREM ClaimsAreRecorded == Spec => []ClaimMatchesRecord
  <1>1. Start => RecordInv
    <2> SUFFICES ASSUME Start PROVE RecordInv
      OBVIOUS
    <2>1. \A s \in Sessions, t \in Tasks : ~Claims(s, t)
      BY DEF Start, SessionsInit, NewReader, Claims
    <2> QED
      BY <2>1, InitFacts DEF RecordInv, ClaimMatchesRecord, BoundRecord
  <1>2. RecordInv => ClaimMatchesRecord
    BY DEF RecordInv
  <1> QED
    BY InitStarts, TypeInit, TypeStep, OwnerInit, OwnerStep, RecordStep, <1>1, <1>2, PTL DEF Spec

-----------------------------------------------------------------------------
(* How tasks, sessions and threads are linked in every reachable state.    *)

Sendings == {"lookup", "write", "mark"}
Holdings == TakenPcs \cup Sendings \cup {"bind", "fail"}
HasWorker == thread[Scheduler].pc \in {"start", "bind"} \cup Sendings

\* What a session or a thread names is in the task table.
KnownTasks ==
    /\ \A s \in Sessions : info[s].current_task \in Tasks =>
          tasks[info[s].current_task].status # "Absent"
    /\ thread[Scheduler].pc \in Holdings => tasks[Held].status # "Absent"
    /\ thread[Ui].pc = "fail" => tasks[thread[Ui].task].status # "Absent"

\* The task that a reader settles has been taken out of its session.
SettleOnce ==
    \A s \in registry : reader[s].pc = "settle" => info[s].current_task # reader[s].task

\* The task that a reader recovers is still named by its session.
RecoverNamed ==
    \A s \in registry : reader[s].pc = "recover" => info[s].current_task = reader[s].task

\* The worker the scheduler has chosen was launched, and has no task until the scheduler gives
\* it one.
FreshWorker ==
    /\ thread[Scheduler].pc \in {"start", "bind"} =>
          \A s \in registry : s = thread[Scheduler].sid => info[s].current_task = NoTask
    /\ HasWorker => thread[Scheduler].sid \in Sessions /\ reader[thread[Scheduler].sid].pc # "none"

Launches == \A s \in registry : reader[s].pc # "none"

LinkInv == KnownTasks /\ SettleOnce /\ RecoverNamed /\ FreshWorker /\ Launches

\* No operation takes a task out of the table.
LEMMA TasksStay ==
    ASSUME TasksTypeOK, NEW t \in Tasks,
           \/ EnqueueTask(t) \/ CancelTask(t) \/ TakeNextTask(t) \/ FailTask(t) \/ RecoverTask(t)
           \/ \E s \in Sessions \cup {NoSession} : StartTask(t, s)
           \/ \E is_error \in BOOLEAN : SettleTask(t, is_error)
    PROVE  \A u \in Tasks : tasks'[u].status = "Absent" => tasks[u].status = "Absent"
  BY EnqueueFacts, CancelFacts, TakeFacts, FailFacts, RecoverFacts, StartFacts, SettleFacts
     DEF Others

LEMMA LinkInit == Start => LinkInv
  <1> SUFFICES ASSUME Start PROVE LinkInv
    OBVIOUS
  <1>1. registry = {} /\ \A s \in Sessions : info[s].current_task = NoTask
    BY DEF Start, SessionsInit, NoInfo
  <1>2. thread[Scheduler].pc = "asleep" /\ thread[Ui].pc = "ready"
    BY DEF Start, NewThread, Threads, Scheduler, Ui
  <1> QED
    BY <1>1, <1>2, NoTaskAssumption
       DEF LinkInv, KnownTasks, SettleOnce, RecoverNamed, FreshWorker, Launches, Holdings,
           HasWorker, Sendings, TakenPcs

\* The steps that change neither the scheduler nor what a session names.
LEMMA LinkReader ==
    ASSUME TypeInv, LinkInv, NEW s \in Sessions, ReaderLink(s)
    PROVE  LinkInv'
  <1>t. TasksTypeOK /\ registry \subseteq Sessions /\ thread' = thread
    BY DEF TypeInv, SessionsTypeOK, ReaderLink, ReaderMoves, ReaderTakes, ReaderSettles, ReaderEnds,
           ReaderRecovers
  <1>h. /\ thread[Scheduler].pc \in Holdings => Held \in Tasks
        /\ thread[Ui].pc = "fail" => thread[Ui].task \in Tasks
    BY DEF TypeInv, HeldByThreads, Held, Holdings, Sendings, TakenPcs
  <1> USE DEF LinkInv, Held
  <1>1. /\ registry' = registry
        /\ \A r \in Sessions : \/ info'[r].current_task = info[r].current_task
                               \/ info'[r].current_task = NoTask
        /\ \A r \in Sessions : reader'[r].pc = "none" => reader[r].pc = "none"
    BY DEF ReaderLink, ReaderMoves, ReaderTakes, ReaderSettles, ReaderEnds, ReaderRecovers,
           SameCurrents, OthersKept
  <1>2. \A u \in Tasks : tasks'[u].status = "Absent" => tasks[u].status = "Absent"
    <2>1. reader[s].is_error \in BOOLEAN
      BY DEF TypeInv, SessionsTypeOK, Reader
    <2> QED
      BY <1>t, <2>1, TasksStay
         DEF ReaderLink, ReaderMoves, ReaderTakes, ReaderSettles, ReaderEnds, ReaderRecovers
  <1>3. KnownTasks'
    BY <1>t, <1>h, <1>1, <1>2, NoTaskAssumption DEF KnownTasks
  <1>4. SettleOnce' /\ RecoverNamed'
    BY <1>t, <1>1, NoTaskAssumption
       DEF SettleOnce, RecoverNamed, ReaderLink, ReaderMoves, ReaderTakes, ReaderSettles, ReaderEnds,
           ReaderRecovers, SameCurrents, OthersKept
  <1>5. FreshWorker' /\ Launches'
    BY <1>t, <1>1 DEF FreshWorker, HasWorker, Launches
  <1> QED
    BY <1>3, <1>4, <1>5

LEMMA LinkUi ==
    ASSUME TypeInv, LinkInv, UiLink
    PROVE  LinkInv'
  <1>t. TasksTypeOK /\ registry \subseteq Sessions
    BY DEF TypeInv, SessionsTypeOK
  <1>h. /\ thread[Scheduler].pc \in Holdings => Held \in Tasks
        /\ thread[Ui].pc = "fail" => thread[Ui].task \in Tasks
    BY DEF TypeInv, HeldByThreads, Held, Holdings, Sendings, TakenPcs
  <1> USE DEF LinkInv, Held
  <1>1. thread'[Scheduler] = thread[Scheduler]
    BY DEF UiLink, UiMoves, UiLaunches, UiTables, UiFails, Removed
  <1>2. \A u \in Tasks : tasks'[u].status = "Absent" => tasks[u].status = "Absent"
    BY <1>t, TasksStay DEF UiLink, UiMoves, UiLaunches, UiTables, UiFails, Removed, Launched
  <1>3. CASE UiMoves \/ UiTables \/ UiFails
    <2>1. LinksKept
      BY <1>3 DEF UiMoves, UiTables, UiFails
    <2>2. KnownTasks'
      BY <1>t, <1>h, <1>1, <1>2, <1>3, <2>1
         DEF KnownTasks, UiMoves, UiTables, UiFails, LinksKept, SameCurrents
    <2> QED
      BY <1>t, <1>1, <2>1, <2>2
         DEF SettleOnce, RecoverNamed, FreshWorker, HasWorker, Launches, LinksKept, SameCurrents
  <1>4. CASE UiLaunches
    <2>1. PICK s \in Sessions : Launched(s)
      BY <1>4 DEF UiLaunches
    <2>2. KnownTasks'
      BY <1>t, <1>h, <1>1, <1>4, <2>1, NoTaskAssumption
         DEF KnownTasks, UiLaunches, Launched, OthersKept
    <2> QED
      BY <1>t, <1>1, <2>1, <2>2
         DEF SettleOnce, RecoverNamed, FreshWorker, HasWorker, Launches, Launched, OthersKept
  <1>5. ASSUME NEW s \in Sessions, Removed(s) PROVE LinkInv'
    <2>1. KnownTasks'
      BY <1>t, <1>h, <1>1, <1>5, NoTaskAssumption DEF KnownTasks, Removed, OthersKept
    <2> QED
      BY <1>t, <1>1, <1>5, <2>1
         DEF SettleOnce, RecoverNamed, FreshWorker, HasWorker, Launches, Removed, OthersKept
  <1> QED
    BY <1>3, <1>4, <1>5 DEF UiLink

LEMMA LinkScheduler ==
    ASSUME TypeInv, OwnerInv, LinkInv, SchedulerLink
    PROVE  LinkInv'
  <1>t. TasksTypeOK /\ registry \subseteq Sessions /\ thread'[Ui] = thread[Ui]
    BY DEF TypeInv, SessionsTypeOK, SchedulerLink
  <1>h. /\ thread[Scheduler].pc \in Holdings => Held \in Tasks
        /\ thread[Ui].pc = "fail" => thread[Ui].task \in Tasks
    BY DEF TypeInv, HeldByThreads, Held, Holdings, Sendings, TakenPcs
  <1>p. Holdings = {"find", "spawn", "start", "bind", "lookup", "write", "mark", "fail"}
    BY DEF Holdings, Sendings, TakenPcs
  <1>w. HasWorker <=> thread[Scheduler].pc \in {"start", "bind", "lookup", "write", "mark"}
    BY DEF HasWorker, Sendings
  <1>v. HasWorker' <=> thread'[Scheduler].pc \in {"start", "bind", "lookup", "write", "mark"}
    BY DEF HasWorker, Sendings
  <1> USE DEF LinkInv, Held
  \* Where the links stay, the table and the place of the scheduler remain to be looked at.
  <1>k. ASSUME LinksKept,
               \A u \in Tasks : tasks'[u].status = "Absent" => tasks[u].status = "Absent",
               thread'[Scheduler].pc \in Holdings =>
                  tasks'[thread'[Scheduler].task].status # "Absent",
               FreshWorker'
        PROVE  LinkInv'
    <2>1. KnownTasks'
      BY <1>k, <1>t, <1>h DEF KnownTasks, LinksKept, SameCurrents
    <2> QED
      BY <1>k, <1>t, <2>1 DEF SettleOnce, RecoverNamed, Launches, LinksKept, SameCurrents
  <1>1. CASE SchedulerIdles \/ SchedulerMisses \/ SchedulerSends \/ SchedulerMarks
    <2>1. LinksKept /\ tasks' = tasks
      BY <1>1 DEF SchedulerIdles, SchedulerMisses, SchedulerSends, SchedulerMarks
    <2>2. thread'[Scheduler].pc \in Holdings =>
            tasks'[thread'[Scheduler].task].status # "Absent"
      BY <1>1, <1>p, <2>1
         DEF KnownTasks, SchedulerIdles, SchedulerMisses, SchedulerSends, SchedulerMarks,
             SchedulerGoes
    <2>3. FreshWorker'
      BY <1>1, <1>w, <1>v, <2>1
         DEF FreshWorker, LinksKept, SchedulerIdles, SchedulerMisses, SchedulerSends,
             SchedulerMarks, SchedulerGoes
    <2> QED
      BY <1>k, <2>1, <2>2, <2>3
  <1>2. ASSUME NEW t \in Tasks, SchedulerTakes(t) PROVE LinkInv'
    <2>1. LinksKept /\ thread'[Scheduler].pc \in {"find", "spawn"} /\ thread'[Scheduler].task = t
      BY <1>2 DEF SchedulerTakes
    <2>2. /\ tasks'[t].status = "Assigned"
          /\ \A u \in Tasks : tasks'[u].status = "Absent" => tasks[u].status = "Absent"
      BY <1>2, <1>t, TakeFacts DEF SchedulerTakes, Others
    <2>3. FreshWorker'
      BY <1>v, <2>1 DEF FreshWorker
    <2> QED
      BY <1>k, <2>1, <2>2, <2>3
  <1>3. ASSUME NEW s \in Sessions, SchedulerChooses(s) PROVE LinkInv'
    <2>1. /\ thread[Scheduler].pc \in Holdings /\ thread'[Scheduler].pc = "start"
          /\ thread'[Scheduler].task = thread[Scheduler].task /\ thread'[Scheduler].sid = s
          /\ tasks' = tasks
      BY <1>3, <1>p DEF SchedulerChooses, Launched
    <2>2. CASE LinksKept /\ s \in registry /\ info[s].current_task = NoTask
      <3>1. FreshWorker'
        BY <1>v, <2>1, <2>2 DEF FreshWorker, Launches, LinksKept, SameCurrents
      <3> QED
        BY <1>k, <2>1, <2>2, <3>1 DEF KnownTasks
    <2>3. CASE Launched(s)
      <3>1. KnownTasks'
        BY <1>t, <1>h, <2>1, <2>3, NoTaskAssumption DEF KnownTasks, Launched, OthersKept
      <3>2. FreshWorker'
        BY <1>v, <2>1, <2>3 DEF FreshWorker, Launched
      <3> QED
        BY <1>t, <2>3, <3>1, <3>2
           DEF SettleOnce, RecoverNamed, Launches, Launched, OthersKept
    <2> QED
      BY <1>3, <2>2, <2>3 DEF SchedulerChooses
  <1>4. CASE SchedulerStarts
    <2>1. /\ LinksKept /\ thread[Scheduler].pc = "start" /\ thread'[Scheduler].pc = "bind"
          /\ thread'[Scheduler].task = thread[Scheduler].task
          /\ thread'[Scheduler].sid = thread[Scheduler].sid
      BY <1>4 DEF SchedulerStarts, SchedulerGoes
    <2>2. /\ tasks'[Held].status = "Running"
          /\ \A u \in Tasks : tasks'[u].status = "Absent" => tasks[u].status = "Absent"
      BY <1>4, <1>t, StartFacts DEF SchedulerStarts, Others
    <2>3. FreshWorker'
      BY <1>w, <1>v, <2>1 DEF FreshWorker, LinksKept, SameCurrents
    <2> QED
      BY <1>k, <2>1, <2>2, <2>3
  <1>5. CASE SchedulerBinds
    <2>1. /\ thread[Scheduler].pc = "bind" /\ thread'[Scheduler].pc = "lookup"
          /\ thread'[Scheduler].task = thread[Scheduler].task
          /\ thread'[Scheduler].sid = thread[Scheduler].sid
          /\ Held \in Tasks /\ UNCHANGED <<tasks, registry, reader>>
          /\ \A r \in Sessions : info'[r].current_task = IF r = thread[Scheduler].sid /\ r \in registry
                                                         THEN Held ELSE info[r].current_task
      BY <1>5 DEF SchedulerBinds, SchedulerGoes
    <2>2. KnownTasks'
      BY <1>t, <1>p, <2>1 DEF KnownTasks
    <2>3. \A r \in Sessions : reader[r].pc = "settle" => reader[r].task # Held
      BY <2>1, OwnerFacts DEF Claims
    <2>4. SettleOnce'
      BY <1>t, <2>1, <2>3 DEF SettleOnce
    <2>5. \A r \in registry : reader[r].pc = "recover" => r # thread[Scheduler].sid
      BY <1>t, <2>1, NoTaskAssumption DEF FreshWorker, RecoverNamed, TypeInv, HeldByReaders
    <2>6. RecoverNamed'
      BY <1>t, <2>1, <2>5 DEF RecoverNamed
    <2>7. FreshWorker' /\ Launches'
      BY <1>w, <1>v, <2>1 DEF FreshWorker, Launches
    <2> QED
      BY <2>2, <2>4, <2>6, <2>7
  <1>6. CASE SchedulerFails
    <2>1. LinksKept /\ thread'[Scheduler].pc = "count"
      BY <1>6 DEF SchedulerFails
    <2>2. \A u \in Tasks : tasks'[u].status = "Absent" => tasks[u].status = "Absent"
      BY <1>6, <1>t, TasksStay DEF SchedulerFails
    <2>3. FreshWorker'
      BY <1>v, <2>1 DEF FreshWorker
    <2> QED
      BY <1>k, <1>p, <2>1, <2>2, <2>3
  <1> QED
    BY <1>1, <1>2, <1>3, <1>4, <1>5, <1>6 DEF SchedulerLink

LEMMA LinkStep == TypeInv /\ OwnerInv /\ LinkInv /\ [Next]_vars => LinkInv'
  <1> SUFFICES ASSUME TypeInv, OwnerInv, LinkInv, [Next]_vars PROVE LinkInv'
    OBVIOUS
  <1>1. CASE NoLink
    <2>1. registry \subseteq Sessions
      BY DEF TypeInv, SessionsTypeOK
    <2> QED
      BY <1>1, <2>1
         DEF NoLink, LinksKept, SameCurrents, LinkInv, KnownTasks, SettleOnce, RecoverNamed,
             FreshWorker, HasWorker, Launches, Held
  <1> QED
    BY <1>1, Links, LinkReader, LinkUi, LinkScheduler

-----------------------------------------------------------------------------
(* Refinement: every step is a step of TaskContract, or changes nothing of *)
(* what TaskContract promises.                                             *)

SameHands == \A t \in Tasks : HandOf(t)' = HandOf(t)
SameOwners == \A t \in Tasks, s \in Sessions : Claims(s, t)' <=> Claims(s, t)

\* The session s loses its claim on t, and nothing else happens to the claims.
Loses(s, t) ==
    /\ Claims(s, t)
    /\ \A u \in Tasks, r \in Sessions : Claims(r, u)' <=> Claims(r, u) /\ ~(r = s /\ u = t)

\* How the four parts of the promise follow from the variables of Orchestrator.
LEMMA PromiseStatus ==
    ASSUME NEW t \in Tasks, NEW new, Others(t), tasks'[t].status = new
    PROVE  Contract!Becomes(t, new)
  BY DEF Contract!Becomes, Others

LEMMA PromiseAttempts ==
    ASSUME NEW t \in Tasks, Others(t), tasks'[t].attempts = tasks[t].attempts
    PROVE  UNCHANGED [u \in Tasks |-> tasks[u].attempts]
  BY DEF Others

LEMMA PromiseHand ==
    ASSUME NEW t \in Tasks, NEW new, HandOf(t)' = new,
           \A u \in Tasks \ {t} : HandOf(u)' = HandOf(u)
    PROVE  Contract!Hand(t, new)
  <1>1. \A u \in Tasks : HandOf(u)' = IF u = t THEN new ELSE HandOf(u)
    OBVIOUS
  <1> HIDE DEF HandOf
  <1> QED
    BY <1>1 DEF Contract!Hand

LEMMA PromiseOwners ==
    ASSUME NEW t \in Tasks, NEW s \in Sessions, Loses(s, t)
    PROVE  Contract!Yields(t, s)
  <1> DEFINE owners == [u \in Tasks |-> {r \in Sessions : Claims(r, u)}]
  <1>1. \A u \in Tasks, r \in Sessions : Claims(r, u)' <=> Claims(r, u) /\ ~(r = s /\ u = t)
    BY DEF Loses
  <1>2. s \in owners[t]
    BY DEF Loses
  <1>3. \A u \in Tasks : owners'[u] = IF u = t THEN owners[u] \ {s} ELSE owners[u]
    BY <1>1
  <1>4. owners' = [owners EXCEPT ![t] = owners[t] \ {s}]
    BY <1>3
  <1> QED
    BY <1>2, <1>4 DEF Contract!Yields

LEMMA PromiseKept ==
    /\ tasks' = tasks => UNCHANGED [t \in Tasks |-> tasks[t].status]
                         /\ UNCHANGED [t \in Tasks |-> tasks[t].attempts]
    /\ SameHands => UNCHANGED [t \in Tasks |-> HandOf(t)]
    /\ SameOwners => UNCHANGED [t \in Tasks |-> {s \in Sessions : Claims(s, t)}]
  <1>1. SameHands => UNCHANGED [t \in Tasks |-> HandOf(t)]
    BY DEF SameHands
  <1>2. SameOwners => UNCHANGED [t \in Tasks |-> {s \in Sessions : Claims(s, t)}]
    BY DEF SameOwners
  <1> QED
    BY <1>1, <1>2

\* Where a task is, said with the place of the scheduler.
LEMMA Hands ==
    ASSUME NEW t \in Tasks
    PROVE  /\ Held = t /\ thread[Scheduler].pc \in TakenPcs => HandOf(t) = "taken"
           /\ Held = t /\ thread[Scheduler].pc = "bind" => HandOf(t) = "started"
           /\ Held # t \/ thread[Scheduler].pc \notin TakenPcs \cup {"bind"} => HandOf(t) = "none"
  BY DEF HandOf, TakenByScheduler, At, TakenPcs

LEMMA HandsNext ==
    ASSUME NEW t \in Tasks
    PROVE  /\ thread'[Scheduler].task = t /\ thread'[Scheduler].pc \in TakenPcs =>
                HandOf(t)' = "taken"
           /\ thread'[Scheduler].task = t /\ thread'[Scheduler].pc = "bind" =>
                HandOf(t)' = "started"
           /\ \/ thread'[Scheduler].task # t
              \/ thread'[Scheduler].pc \notin TakenPcs \cup {"bind"}
              => HandOf(t)' = "none"
  BY DEF HandOf, TakenByScheduler, At, TakenPcs, Held

LEMMA HandsStay == thread'[Scheduler] = thread[Scheduler] => SameHands
  BY DEF SameHands, HandOf, TakenByScheduler, At, Held

LEMMA LinksKeepOwners == LinksKept => SameOwners
  BY DEF LinksKept, SameCurrents, SameOwners, Claims

LEMMA RefineStutter ==
    ASSUME tasks' = tasks, SameHands, SameOwners
    PROVE  UNCHANGED Contract!promised
  BY PromiseKept DEF Contract!promised

LEMMA RefineLetGo ==
    ASSUME NEW t \in Tasks, NEW s \in Sessions, tasks' = tasks, SameHands, Loses(s, t)
    PROVE  Contract!ContractNext
  <1>1. Contract!LetGo(t, s)
    BY PromiseKept, PromiseOwners DEF Contract!LetGo
  <1> QED
    BY <1>1 DEF Contract!ContractNext

\* The reader of s settles, recovers or lets go the task of s, or does nothing that counts.
LEMMA RefineReader ==
    ASSUME TypeInv, OwnerInv, LinkInv, NEW s \in Sessions, ReaderLink(s)
    PROVE  Contract!ContractNext \/ UNCHANGED Contract!promised
  <1>t. TasksTypeOK /\ registry \subseteq Sessions
    BY DEF TypeInv, SessionsTypeOK
  <1>h. registry' = registry /\ SameHands
    BY HandsStay DEF ReaderLink, ReaderMoves, ReaderTakes, ReaderSettles, ReaderEnds, ReaderRecovers
  <1>1. CASE ReaderMoves(s)
    <2>1. SameOwners
      BY <1>1 DEF ReaderMoves, SameOwners, SameCurrents, OthersKept, Claims
    <2> QED
      BY <1>1, <1>h, <2>1, RefineStutter DEF ReaderMoves
  <1>2. CASE ReaderTakes(s)
    <2>1. SameOwners
      BY <1>2, NoTaskAssumption DEF ReaderTakes, SameOwners, SameCurrents, OthersKept, Claims
    <2> QED
      BY <1>2, <1>h, <2>1, RefineStutter DEF ReaderTakes
  <1>3. CASE ReaderSettles(s)
    <2>1. PICK t \in Tasks : t = reader[s].task /\ SettleTask(t, reader[s].is_error)
      BY <1>3 DEF ReaderSettles
    <2>2. Loses(s, t)
      BY <1>3, <2>1 DEF ReaderSettles, OthersKept, Loses, Claims, LinkInv, SettleOnce
    <2>3. /\ Others(t) /\ tasks'[t].attempts = tasks[t].attempts
          /\ tasks'[t].status \in {"Done", "Failed"}
      BY <1>t, <2>1, SettleFacts
    <2>4. Contract!Settle(t, s)
      BY <1>h, <2>2, <2>3, PromiseKept, PromiseStatus, PromiseAttempts, PromiseOwners
         DEF Contract!Settle
    <2> QED
      BY <2>4 DEF Contract!ContractNext
  <1>4. CASE ReaderEnds(s)
    <2>1. tasks' = tasks /\ SameCurrents /\ OthersKept(s) /\ reader[s].pc = "reap"
      BY <1>4 DEF ReaderEnds
    <2>2. CASE reader'[s].pc = "recover"
      <3>1. SameOwners
        BY <1>4, <1>h, <2>1, <2>2
           DEF ReaderEnds, SameOwners, SameCurrents, OthersKept, Claims
      <3> QED
        BY <1>h, <2>1, <3>1, RefineStutter
    <2>3. CASE reader'[s].pc = "done" /\ s \in registry /\ info[s].current_task \in Tasks
      <3>1. PICK t \in Tasks : t = info[s].current_task
        BY <2>3
      <3>2. Loses(s, t)
        BY <1>h, <2>1, <2>3, <3>1 DEF Loses, SameCurrents, OthersKept, Claims
      <3> QED
        BY <1>h, <2>1, <3>2, RefineLetGo
    <2>4. CASE reader'[s].pc = "done" /\ ~(s \in registry /\ info[s].current_task \in Tasks)
      <3>1. SameOwners
        BY <1>h, <2>1, <2>4 DEF SameOwners, SameCurrents, OthersKept, Claims
      <3> QED
        BY <1>h, <2>1, <3>1, RefineStutter
    <2> QED
      BY <1>4, <2>2, <2>3, <2>4 DEF ReaderEnds
  <1>5. CASE ReaderRecovers(s)
    <2>1. PICK t \in Tasks : t = reader[s].task /\ RecoverTask(t)
      BY <1>5 DEF ReaderRecovers
    <2>2. Loses(s, t)
      BY <1>5, <2>1 DEF ReaderRecovers, OthersKept, Loses, Claims
    <2>3. /\ Others(t) /\ tasks'[t].attempts = tasks[t].attempts
          /\ \/ tasks'[t].status = "Queued" /\ tasks[t].attempts < MaxAttempts[t]
             \/ tasks'[t].status = "Failed"
      BY <1>t, <2>1, RecoverFacts
    <2>4. [u \in Tasks |-> tasks[u].attempts][t] = tasks[t].attempts
      OBVIOUS
    <2>5. /\ Contract!Yields(t, s)
          /\ UNCHANGED [u \in Tasks |-> tasks[u].attempts]
          /\ UNCHANGED [u \in Tasks |-> HandOf(u)]
      BY <1>h, <2>2, <2>3, PromiseKept, PromiseAttempts, PromiseOwners
    <2>6. Contract!Recover(t, s)
      <3>1. CASE tasks'[t].status = "Queued" /\ tasks[t].attempts < MaxAttempts[t]
        <4>1. Contract!Becomes(t, "Queued")
          BY <2>3, <3>1, PromiseStatus
        <4> QED
          BY <2>4, <2>5, <3>1, <4>1 DEF Contract!Recover, Contract!Becomes
      <3>2. CASE tasks'[t].status = "Failed"
        <4>1. Contract!Becomes(t, "Failed")
          BY <2>3, <3>2, PromiseStatus
        <4> QED
          BY <2>4, <2>5, <3>2, <4>1 DEF Contract!Recover, Contract!Becomes
      <3> QED
        BY <2>3, <3>1, <3>2
    <2> QED
      BY <2>6 DEF Contract!ContractNext
  <1> QED
    BY <1>1, <1>2, <1>3, <1>4, <1>5 DEF ReaderLink

\* The operations on the table that the threads call.
LEMMA RefineEnqueue ==
    ASSUME TypeInv, NEW t \in Tasks, EnqueueTask(t) \/ CancelTask(t), SameHands, SameOwners
    PROVE  Contract!ContractNext
  <1>t. TasksTypeOK
    BY DEF TypeInv
  <1>1. CASE EnqueueTask(t)
    <2>1. Others(t) /\ tasks'[t].attempts = tasks[t].attempts
      BY <1>1, <1>t, EnqueueFacts
    <2>2. tasks[t].status = "Absent" /\ tasks'[t].status = "Queued"
      BY <1>1, <1>t, EnqueueFacts
    <2>3. Contract!Enqueue(t)
      BY <2>1, <2>2, PromiseKept, PromiseStatus, PromiseAttempts DEF Contract!Enqueue
    <2> QED
      BY <2>3 DEF Contract!ContractNext
  <1>2. CASE CancelTask(t)
    <2>1. Others(t) /\ tasks'[t].attempts = tasks[t].attempts
      BY <1>2, <1>t, CancelFacts
    <2>2. tasks[t].status = "Queued" /\ tasks'[t].status = "Canceled"
      BY <1>2, <1>t, CancelFacts
    <2>3. Contract!Cancel(t)
      BY <2>1, <2>2, PromiseKept, PromiseStatus, PromiseAttempts DEF Contract!Cancel
    <2> QED
      BY <2>3 DEF Contract!ContractNext
  <1> QED
    BY <1>1, <1>2

LEMMA RefineFail ==
    ASSUME TypeInv, NEW t \in Tasks, FailTask(t), tasks[t].status # "Absent", SameHands, SameOwners
    PROVE  Contract!ContractNext
  <1>1. Others(t) /\ tasks'[t].attempts = tasks[t].attempts /\ tasks'[t].status = "Failed"
    BY FailFacts DEF TypeInv
  <1>2. Contract!Fail(t)
    BY <1>1, PromiseKept, PromiseStatus, PromiseAttempts DEF Contract!Fail
  <1> QED
    BY <1>2 DEF Contract!ContractNext

LEMMA LaunchKeepsOwners ==
    ASSUME TypeInv, LinkInv, NEW s \in Sessions, Launched(s)
    PROVE  SameOwners
  BY NoTaskAssumption DEF LinkInv, Launches, Launched, OthersKept, SameOwners, Claims

LEMMA RefineUi ==
    ASSUME TypeInv, OwnerInv, LinkInv, UiLink
    PROVE  Contract!ContractNext \/ UNCHANGED Contract!promised
  <1>h. SameHands
    BY HandsStay DEF UiLink, UiMoves, UiLaunches, UiTables, UiFails, Removed
  <1>1. CASE UiMoves
    BY <1>1, <1>h, LinksKeepOwners, RefineStutter DEF UiMoves
  <1>2. CASE UiLaunches
    <2>1. PICK s \in Sessions : Launched(s)
      BY <1>2 DEF UiLaunches
    <2> QED
      BY <1>h, <2>1, LaunchKeepsOwners, RefineStutter DEF Launched
  <1>3. CASE UiTables
    BY <1>3, <1>h, LinksKeepOwners, RefineEnqueue DEF UiTables
  <1>4. CASE UiFails
    BY <1>4, <1>h, LinksKeepOwners, RefineFail DEF UiFails, LinkInv, KnownTasks
  <1>5. ASSUME NEW s \in Sessions, Removed(s)
        PROVE  Contract!ContractNext \/ UNCHANGED Contract!promised
    <2>1. CASE \E t \in Tasks : info[s].current_task = t /\ reader[s].pc \notin {"recover", "done"}
      <3>1. PICK t \in Tasks : info[s].current_task = t /\ reader[s].pc \notin {"recover", "done"}
        BY <2>1
      <3>2. Loses(s, t)
        BY <1>5, <3>1, NoTaskAssumption
           DEF Removed, OthersKept, Loses, Claims, LinkInv, SettleOnce
      <3> QED
        BY <1>5, <1>h, <3>2, RefineLetGo DEF Removed
    <2>2. CASE ~\E t \in Tasks : /\ info[s].current_task = t
                                 /\ reader[s].pc \notin {"recover", "done"}
      <3>1. SameOwners
        BY <1>5, <2>2, NoTaskAssumption DEF Removed, OthersKept, SameOwners, Claims
      <3> QED
        BY <1>5, <1>h, <3>1, RefineStutter DEF Removed
    <2> QED
      BY <2>1, <2>2
  <1> QED
    BY <1>1, <1>2, <1>3, <1>4, <1>5 DEF UiLink

LEMMA RefineScheduler ==
    ASSUME TypeInv, AttemptsInv, OwnerInv, LinkInv, SchedulerLink
    PROVE  Contract!ContractNext \/ UNCHANGED Contract!promised
  <1>t. TasksTypeOK
    BY DEF TypeInv
  <1>h. thread[Scheduler].pc \in Holdings => Held \in Tasks
    BY DEF TypeInv, HeldByThreads, Held, Holdings, Sendings, TakenPcs
  \* From one of these places to another no task changes hands.
  <1>q. ASSUME thread[Scheduler].pc \notin TakenPcs \cup {"bind"},
               thread'[Scheduler].pc \notin TakenPcs \cup {"bind"}
        PROVE  SameHands
    BY <1>q, Hands, HandsNext DEF SameHands
  <1>r. ASSUME thread[Scheduler].pc \in TakenPcs, thread'[Scheduler].pc \in TakenPcs,
               thread'[Scheduler].task = Held
        PROVE  SameHands
    BY <1>r, Hands, HandsNext DEF SameHands
  <1>1. CASE SchedulerIdles \/ SchedulerSends \/ SchedulerMarks
    <2>1. LinksKept /\ tasks' = tasks
      BY <1>1 DEF SchedulerIdles, SchedulerSends, SchedulerMarks
    <2>2. SameHands
      BY <1>1, <1>q DEF SchedulerIdles, SchedulerSends, SchedulerMarks, SchedulerGoes, TakenPcs
    <2> QED
      BY <2>1, <2>2, LinksKeepOwners, RefineStutter
  <1>2. ASSUME NEW t \in Tasks, SchedulerTakes(t) PROVE Contract!ContractNext
    <2>1. /\ LinksKept /\ thread[Scheduler].pc = "take" /\ thread'[Scheduler].pc \in TakenPcs
          /\ thread'[Scheduler].task = t /\ TakeNextTask(t)
      BY <1>2 DEF SchedulerTakes, TakenPcs
    <2>2. /\ Others(t) /\ tasks'[t].attempts = tasks[t].attempts
          /\ tasks[t].status = "Queued" /\ tasks'[t].status = "Assigned"
      BY <1>t, <2>1, TakeFacts
    <2>3. \A u \in Tasks : HandOf(u) = "none"
      BY <2>1, Hands DEF TakenPcs
    <2>4. HandOf(t)' = "taken" /\ \A u \in Tasks \ {t} : HandOf(u)' = HandOf(u)
      BY <2>1, <2>3, HandsNext
    <2>5. Contract!Take(t)
      BY <2>1, <2>2, <2>3, <2>4, LinksKeepOwners, PromiseKept, PromiseStatus, PromiseAttempts,
         PromiseHand DEF Contract!Take
    <2> QED
      BY <2>5 DEF Contract!ContractNext
  <1>3. ASSUME NEW s \in Sessions, SchedulerChooses(s) PROVE UNCHANGED Contract!promised
    <2>1. SameHands /\ tasks' = tasks
      BY <1>3, <1>r DEF SchedulerChooses, Launched, TakenPcs
    <2>2. SameOwners
      BY <1>3, LinksKeepOwners, LaunchKeepsOwners DEF SchedulerChooses
    <2> QED
      BY <2>1, <2>2, RefineStutter
  <1>4. CASE SchedulerMisses
    <2>1. LinksKept /\ tasks' = tasks
      BY <1>4 DEF SchedulerMisses
    <2>2. CASE SchedulerGoes("find", "spawn")
      <3>1. SameHands
        BY <1>r, <2>2 DEF SchedulerGoes, TakenPcs
      <3> QED
        BY <2>1, <3>1, LinksKeepOwners, RefineStutter
    <2>3. CASE SchedulerGoes("spawn", "fail")
      <3>1. PICK t \in Tasks : t = Held
        BY <1>h, <2>3 DEF SchedulerGoes, Holdings, TakenPcs
      <3>2. HandOf(t) = "taken" /\ HandOf(t)' = "none"
        BY <2>3, <3>1, Hands, HandsNext DEF SchedulerGoes, TakenPcs
      <3>3. \A u \in Tasks \ {t} : HandOf(u)' = HandOf(u)
        BY <2>3, <3>1, Hands, HandsNext DEF SchedulerGoes, TakenPcs
      <3>4. Contract!PutDown(t)
        BY <2>1, <3>2, <3>3, LinksKeepOwners, PromiseKept, PromiseHand DEF Contract!PutDown
      <3> QED
        BY <3>4 DEF Contract!ContractNext
    <2> QED
      BY <1>4, <2>2, <2>3 DEF SchedulerMisses
  <1>5. CASE SchedulerStarts
    <2>1. PICK t \in Tasks : t = Held
      BY <1>5 DEF SchedulerStarts
    <2>2. /\ LinksKept /\ thread[Scheduler].pc = "start" /\ thread'[Scheduler].pc = "bind"
          /\ thread'[Scheduler].task = t
      BY <1>5, <2>1 DEF SchedulerStarts, SchedulerGoes
    <2>3. /\ Others(t) /\ tasks'[t].attempts = tasks[t].attempts + 1
          /\ tasks'[t].status = "Running"
      BY <1>5, <1>t, <2>1, StartFacts DEF SchedulerStarts
    <2>4. HandOf(t) = "taken" /\ HandOf(t)' = "started"
          /\ \A u \in Tasks \ {t} : HandOf(u)' = HandOf(u)
      BY <2>1, <2>2, Hands, HandsNext DEF TakenPcs
    <2>5. tasks[t].attempts < MaxAttempts[t]
      BY <2>1, <2>2 DEF AttemptsInv, TakenPcs
    <2>6. [u \in Tasks |-> tasks'[u].attempts] =
            [[u \in Tasks |-> tasks[u].attempts] EXCEPT ![t] = @ + 1]
      BY <2>3 DEF Others
    <2>7. Contract!Start(t)
      BY <2>2, <2>3, <2>4, <2>5, <2>6, LinksKeepOwners, PromiseKept, PromiseStatus, PromiseHand
         DEF Contract!Start
    <2> QED
      BY <2>7 DEF Contract!ContractNext
  <1>6. CASE SchedulerBinds
    <2>1. PICK t \in Tasks : t = Held
      BY <1>6 DEF SchedulerBinds
    <2>2. /\ thread[Scheduler].pc = "bind" /\ thread'[Scheduler].pc = "lookup"
          /\ UNCHANGED <<tasks, registry, reader>>
          /\ \A r \in Sessions : info'[r].current_task = IF r = thread[Scheduler].sid /\ r \in registry
                                                         THEN t ELSE info[r].current_task
      BY <1>6, <2>1 DEF SchedulerBinds, SchedulerGoes
    <2>3. HandOf(t) = "started" /\ HandOf(t)' = "none"
          /\ \A u \in Tasks \ {t} : HandOf(u)' = HandOf(u)
      BY <2>1, <2>2, Hands, HandsNext DEF TakenPcs
    <2>4. \A r \in Sessions : ~Claims(r, t)
      BY <2>1, <2>2, OwnerFacts
    <2> DEFINE new == {r \in Sessions : Claims(r, t)'}
    <2>5. new \in {{}} \cup {{s} : s \in Sessions}
      <3>1. \A r \in new : r = thread[Scheduler].sid
        BY <2>2, <2>4 DEF Claims
      <3>2. \/ new = {}
            \/ new = {thread[Scheduler].sid} /\ thread[Scheduler].sid \in Sessions
        BY <3>1
      <3> QED
        BY <3>2
    <2>6. \A u \in Tasks \ {t}, r \in Sessions : Claims(r, u)' <=> Claims(r, u)
      BY <2>2, NoTaskAssumption DEF Claims, LinkInv, FreshWorker
    <2>7. [u \in Tasks |-> {r \in Sessions : Claims(r, u)'}] =
            [[u \in Tasks |-> {r \in Sessions : Claims(r, u)}] EXCEPT ![t] = new]
      BY <2>6
    <2> HIDE DEF new
    <2>8. [u \in Tasks |-> {r \in Sessions : Claims(r, u)}][t] = {}
      BY <2>4
    <2>9. Contract!Give(t)
      BY <2>2, <2>3, <2>5, <2>7, <2>8, PromiseKept, PromiseHand DEF Contract!Give
    <2> QED
      BY <2>9 DEF Contract!ContractNext
  <1>7. CASE SchedulerFails
    <2>1. SameHands
      BY <1>7, <1>q DEF SchedulerFails, TakenPcs
    <2>2. tasks[Held].status # "Absent"
      BY <1>7 DEF SchedulerFails, LinkInv, KnownTasks, Holdings
    <2> QED
      BY <1>7, <2>1, <2>2, LinksKeepOwners, RefineFail DEF SchedulerFails
  <1> QED
    BY <1>1, <1>2, <1>3, <1>4, <1>5, <1>6, <1>7 DEF SchedulerLink

\* Initially no task is in the table, in a hand or owned.
LEMMA RefineInit == Start => Contract!ContractInit
  <1> SUFFICES ASSUME Start PROVE Contract!ContractInit
    OBVIOUS
  <1>1. \A t \in Tasks : tasks[t].status = "Absent" /\ tasks[t].attempts = 0
    BY InitFacts
  <1>2. \A t \in Tasks : HandOf(t) = "none"
    BY InitFacts, Hands DEF TakenPcs
  <1>3. \A t \in Tasks, s \in Sessions : ~Claims(s, t)
    BY DEF Start, SessionsInit, NewReader, Claims
  <1>4. /\ [t \in Tasks |-> tasks[t].status] = [t \in Tasks |-> "Absent"]
        /\ [t \in Tasks |-> tasks[t].attempts] = [t \in Tasks |-> 0]
    BY <1>1
  <1>5. [t \in Tasks |-> HandOf(t)] = [t \in Tasks |-> "none"]
    BY <1>2
  <1>6. [t \in Tasks |-> {s \in Sessions : Claims(s, t)}] = [t \in Tasks |-> {}]
    BY <1>3
  <1> QED
    BY <1>4, <1>5, <1>6 DEF Contract!ContractInit

LEMMA RefineStep ==
    TypeInv /\ AttemptsInv /\ OwnerInv /\ LinkInv /\ [Next]_vars =>
        [Contract!ContractNext]_Contract!promised
  <1> SUFFICES ASSUME TypeInv, AttemptsInv, OwnerInv, LinkInv, [Next]_vars
               PROVE  Contract!ContractNext \/ UNCHANGED Contract!promised
    OBVIOUS
  <1>1. CASE NoLink
    BY <1>1, HandsStay, LinksKeepOwners, RefineStutter DEF NoLink
  <1> QED
    BY <1>1, Links, RefineReader, RefineUi, RefineScheduler

\* The orchestrator implements TaskContract: whatever its threads, its workers and its users do,
\* one hand takes a task from the queue, each start is an attempt, a start gives the task to one
\* worker at most, and only that worker settles it or sends it back.
THEOREM ContractKept == Spec => ImplementsContract
  BY InitStarts, TypeInit, TypeStep, AttemptsInit, AttemptsStep, OwnerInit, OwnerStep, LinkInit, LinkStep,
     RefineInit, RefineStep, PTL DEF Spec, ImplementsContract, Contract!ContractSpec

-----------------------------------------------------------------------------
(* Running tasks are in somebody's care, or can be seen not to be.         *)

\* The scheduler will still give t to its worker, or fail it.
InScheduler(t) ==
    /\ Held = t
    /\ \/ thread[Scheduler].pc \in {"bind", "fail"}
       \/ thread[Scheduler].pc = "lookup" /\ thread[Scheduler].sid \notin registry

\* The worker s of t has ended without a crash, or had crashed before it was given t, which the
\* scheduler is about to find out.
Named(s, t) ==
    /\ s \in registry /\ info[s].current_task = t /\ reader[s].pc = "done"
    /\ \/ info[s].status # "Crashed"
       \/ Held = t /\ thread[Scheduler].sid = s /\ thread[Scheduler].pc \in Sendings

Cared(t) ==
    \/ \E s \in Sessions : Claims(s, t)
    \/ thread[Ui].pc = "fail" /\ thread[Ui].task = t
    \/ InScheduler(t)
    \/ \E s \in Sessions : Named(s, t)

RunningInv == \A t \in WithStatus("Running") : Cared(t)

\* Only a start makes a task Running.
LEMMA RunningTasks ==
    ASSUME TasksTypeOK, NEW t \in Tasks,
           \/ EnqueueTask(t) \/ CancelTask(t) \/ TakeNextTask(t) \/ FailTask(t) \/ RecoverTask(t)
           \/ \E is_error \in BOOLEAN : SettleTask(t, is_error)
    PROVE  \A u \in Tasks : tasks'[u].status = "Running" => u # t /\ tasks[u].status = "Running"
  BY EnqueueFacts, CancelFacts, TakeFacts, FailFacts, RecoverFacts, SettleFacts DEF Others

\* What the steps of the reader of s, of the interface thread and of the scheduler leave of the
\* care for a task that goes on running.
LEMMA CareReader ==
    ASSUME TypeInv, LinkInv, NEW s \in Sessions, ReaderLink(s),
           NEW t \in Tasks, Cared(t), tasks[t].status = "Running", tasks'[t].status = "Running"
    PROVE  Cared(t)'
  <1>t. TasksTypeOK /\ registry \subseteq Sessions /\ NoTask \notin Tasks
    BY NoTaskAssumption DEF TypeInv, SessionsTypeOK
  <1>h. thread' = thread /\ registry' = registry
    BY DEF ReaderLink, ReaderMoves, ReaderTakes, ReaderSettles, ReaderEnds, ReaderRecovers
  <1>o. OthersKept(s) /\ reader[s].pc # "done"
    BY DEF ReaderLink, ReaderMoves, ReaderTakes, ReaderSettles, ReaderEnds, ReaderRecovers
  <1>1. ASSUME NEW r \in Sessions, Claims(r, t), r # s PROVE Claims(r, t)'
    BY <1>1, <1>h, <1>o DEF Claims, OthersKept
  <1>2. ASSUME Claims(s, t) PROVE Claims(s, t)' \/ Named(s, t)'
    <2>1. CASE ReaderMoves(s)
      BY <1>2, <1>h, <2>1 DEF ReaderMoves, SameCurrents, Claims
    <2>2. CASE ReaderTakes(s)
      BY <1>2, <1>t, <1>h, <2>2 DEF ReaderTakes, SameCurrents, Claims
    <2>3. CASE ReaderSettles(s)
      <3>1. reader[s].task # t
        <4>1. reader[s].is_error \in BOOLEAN
          BY DEF TypeInv, SessionsTypeOK, Reader
        <4> QED
          BY <1>t, <2>3, <4>1, RunningTasks DEF ReaderSettles
      <3> QED
        BY <1>2, <1>h, <2>3, <3>1 DEF ReaderSettles, Claims
    <2>4. CASE ReaderEnds(s)
      BY <1>2, <1>t, <1>h, <2>4 DEF ReaderEnds, SameCurrents, Claims, Named
    <2>5. CASE ReaderRecovers(s)
      <3>1. reader[s].task # t
        BY <1>t, <2>5, RunningTasks DEF ReaderRecovers
      <3> QED
        BY <1>2, <1>h, <2>5, <3>1 DEF ReaderRecovers, Claims
    <2> QED
      BY <2>1, <2>2, <2>3, <2>4, <2>5 DEF ReaderLink
  <1>3. ASSUME NEW r \in Sessions, Named(r, t) PROVE Named(r, t)'
    <2>1. r # s
      BY <1>3, <1>o DEF Named
    <2> QED
      BY <1>3, <1>h, <1>o, <2>1 DEF Named, OthersKept, Held
  <1>4. ASSUME InScheduler(t) PROVE InScheduler(t)'
    BY <1>4, <1>h DEF InScheduler, Held
  <1> QED
    BY <1>1, <1>2, <1>3, <1>4, <1>h DEF Cared

LEMMA CareUi ==
    ASSUME TypeInv, LinkInv, UiLink,
           NEW t \in Tasks, Cared(t), tasks[t].status = "Running", tasks'[t].status = "Running"
    PROVE  Cared(t)'
  <1>t. TasksTypeOK /\ registry \subseteq Sessions /\ NoTask \notin Tasks
    BY NoTaskAssumption DEF TypeInv, SessionsTypeOK
  <1>h. thread'[Scheduler] = thread[Scheduler]
    BY DEF UiLink, UiMoves, UiLaunches, UiTables, UiFails, Removed
  <1>1. CASE UiMoves \/ UiTables \/ UiFails
    <2>1. LinksKept
      BY <1>1 DEF UiMoves, UiTables, UiFails
    <2>2. thread[Ui].pc = "fail" /\ thread[Ui].task = t => thread' = thread
      BY <1>t, <1>1, RunningTasks DEF UiMoves, UiTables, UiFails
    <2>3. \A r \in Sessions : (Claims(r, t) => Claims(r, t)') /\ (Named(r, t) => Named(r, t)')
      BY <1>h, <2>1 DEF LinksKept, SameCurrents, Claims, Named, Held
    <2>4. InScheduler(t) => InScheduler(t)'
      BY <1>h, <2>1 DEF LinksKept, InScheduler, Held
    <2> QED
      BY <2>2, <2>3, <2>4 DEF Cared
  <1>2. CASE UiLaunches
    <2>1. PICK s \in Sessions : Launched(s)
      BY <1>2 DEF UiLaunches
    <2>2. thread[Ui].pc # "fail"
      BY <1>2 DEF UiLaunches
    <2>3. \A r \in Sessions : (Claims(r, t) => Claims(r, t)') /\ (Named(r, t) => Named(r, t)')
      BY <1>h, <1>t, <2>1 DEF Launched, OthersKept, LinkInv, Launches, Claims, Named, Held
    <2>4. InScheduler(t) => InScheduler(t)'
      BY <1>h, <2>1 DEF Launched, LinkInv, FreshWorker, HasWorker, Sendings, InScheduler, Held
    <2> QED
      BY <2>2, <2>3, <2>4 DEF Cared
  <1>3. ASSUME NEW s \in Sessions, Removed(s) PROVE Cared(t)'
    <2>1. /\ registry' = registry \ {s} /\ reader' = reader /\ OthersKept(s)
          /\ thread[Ui].pc = "ready"
      BY <1>3 DEF Removed
    <2>2. info[s].current_task = t => thread'[Ui].pc = "fail" /\ thread'[Ui].task = t
      BY <1>3, <1>t DEF Removed
    <2>3. \A r \in Sessions :
            info[s].current_task # t => /\ Claims(r, t) => Claims(r, t)'
                                        /\ Named(r, t) => Named(r, t)'
      BY <1>h, <2>1 DEF OthersKept, Claims, Named, Held
    <2>4. InScheduler(t) => InScheduler(t)'
      BY <1>h, <2>1 DEF InScheduler, Held
    <2> QED
      BY <2>1, <2>2, <2>3, <2>4 DEF Cared
  <1> QED
    BY <1>1, <1>2, <1>3 DEF UiLink

LEMMA CareScheduler ==
    ASSUME TypeInv, OwnerInv, LinkInv, SchedulerLink,
           NEW t \in Tasks, Cared(t), tasks[t].status = "Running", tasks'[t].status = "Running"
    PROVE  Cared(t)'
  <1>t. TasksTypeOK /\ registry \subseteq Sessions /\ NoTask \notin Tasks
    BY NoTaskAssumption DEF TypeInv, SessionsTypeOK
  <1>u. thread'[Ui] = thread[Ui]
    BY DEF SchedulerLink
  <1>h. ~(Held = t /\ thread[Scheduler].pc \in TakenPcs)
    BY DEF OwnerInv, HeldStatus
  <1>c. ASSUME LinksKept,
               thread[Scheduler].pc \in Sendings \cup {"bind", "fail"} => thread'[Scheduler] = thread[Scheduler]
        PROVE  Cared(t)'
    <2>1. \A r \in Sessions : Claims(r, t) => Claims(r, t)'
      BY <1>c DEF LinksKept, SameCurrents, Claims
    <2>2. \A r \in Sessions : Named(r, t) => Named(r, t)'
      BY <1>c DEF LinksKept, SameCurrents, Named, Held, Sendings
    <2>3. InScheduler(t) => InScheduler(t)'
      BY <1>c DEF LinksKept, InScheduler, Held, Sendings
    <2> QED
      BY <1>u, <2>1, <2>2, <2>3 DEF Cared
  <1>1. CASE SchedulerIdles \/ SchedulerMisses \/ SchedulerStarts \/ \E w \in Tasks : SchedulerTakes(w)
    BY <1>1, <1>c
       DEF SchedulerIdles, SchedulerMisses, SchedulerStarts, SchedulerTakes, SchedulerGoes, Sendings
  <1>2. ASSUME NEW s \in Sessions, SchedulerChooses(s) PROVE Cared(t)'
    <2>1. thread[Scheduler].pc \notin Sendings \cup {"bind", "fail"}
      BY <1>2 DEF SchedulerChooses, Sendings
    <2>2. CASE LinksKept
      BY <1>c, <2>1, <2>2
    <2>3. CASE Launched(s)
      <3>1. \A r \in Sessions : (Claims(r, t) => Claims(r, t)') /\ (Named(r, t) => Named(r, t)')
        BY <1>t, <2>1, <2>3
           DEF Launched, OthersKept, LinkInv, Launches, Claims, Named, Held
      <3> QED
        BY <1>u, <2>1, <3>1 DEF Cared, InScheduler, Sendings
    <2> QED
      BY <1>2, <2>2, <2>3 DEF SchedulerChooses
  <1>3. CASE SchedulerBinds
    <2>1. /\ thread[Scheduler].pc = "bind" /\ thread'[Scheduler].pc = "lookup"
          /\ thread'[Scheduler].task = Held /\ thread'[Scheduler].sid = thread[Scheduler].sid
          /\ UNCHANGED <<tasks, registry, reader>>
          /\ \A r \in Sessions :
                /\ info'[r].status = info[r].status
                /\ info'[r].current_task = IF r = thread[Scheduler].sid /\ r \in registry
                                           THEN Held ELSE info[r].current_task
      BY <1>3 DEF SchedulerBinds, SchedulerGoes
    <2>2. \A r \in registry : r = thread[Scheduler].sid =>
            info[r].current_task = NoTask /\ reader[r].pc # "recover"
      BY <1>t, <2>1 DEF LinkInv, FreshWorker, RecoverNamed, TypeInv, HeldByReaders
    <2>3. \A r \in Sessions : (Claims(r, t) => Claims(r, t)') /\ (Named(r, t) => Named(r, t)')
      BY <1>t, <2>1, <2>2 DEF Claims, Named, Held, Sendings
    <2>4. CASE InScheduler(t) /\ thread[Scheduler].sid \notin registry
      BY <2>1, <2>4 DEF InScheduler, Held, Cared
    <2>5. CASE InScheduler(t) /\ thread[Scheduler].sid \in registry
      <3>1. PICK s \in Sessions : s = thread[Scheduler].sid
        BY <1>t, <2>5
      <3>2. Claims(s, t)' \/ Named(s, t)'
        BY <1>t, <2>1, <2>2, <2>5, <3>1 DEF InScheduler, Claims, Named, Held, Sendings
      <3> QED
        BY <3>2 DEF Cared
    <2> QED
      BY <1>u, <2>3, <2>4, <2>5 DEF Cared
  <1>4. CASE SchedulerSends
    <2>1. LinksKept /\ thread'[Scheduler].task = Held /\ thread'[Scheduler].sid = thread[Scheduler].sid
      BY <1>4 DEF SchedulerSends, SchedulerGoes
    <2>2. \A r \in Sessions : Claims(r, t) => Claims(r, t)'
      BY <2>1 DEF LinksKept, SameCurrents, Claims
    <2>3. \A r \in Sessions : Named(r, t) => Named(r, t)' \/ InScheduler(t)'
      BY <1>4, <2>1
         DEF SchedulerSends, SchedulerGoes, LinksKept, SameCurrents, Named, InScheduler, Held,
             Sendings
    <2>4. InScheduler(t) => InScheduler(t)'
      BY <1>4, <2>1 DEF SchedulerSends, SchedulerGoes, LinksKept, InScheduler, Held
    <2> QED
      BY <1>u, <2>2, <2>3, <2>4 DEF Cared
  <1>5. CASE SchedulerMarks
    <2>1. LinksKept /\ thread[Scheduler].pc = "mark" /\ thread'[Scheduler].pc = "count"
          /\ \A r \in registry : r = thread[Scheduler].sid => info'[r].status = "Busy"
      BY <1>5 DEF SchedulerMarks
    <2>2. \A r \in Sessions : (Claims(r, t) => Claims(r, t)') /\ (Named(r, t) => Named(r, t)')
      BY <2>1 DEF LinksKept, SameCurrents, Claims, Named, Held
    <2>3. ~InScheduler(t)
      BY <2>1 DEF InScheduler
    <2> QED
      BY <1>u, <2>2, <2>3 DEF Cared
  <1>6. CASE SchedulerFails
    <2>1. LinksKept /\ thread[Scheduler].pc = "fail" /\ Held # t
      BY <1>6, <1>t, RunningTasks DEF SchedulerFails
    <2>2. \A r \in Sessions : (Claims(r, t) => Claims(r, t)') /\ (Named(r, t) => Named(r, t)')
      BY <2>1 DEF LinksKept, SameCurrents, Claims, Named
    <2> QED
      BY <1>u, <2>1, <2>2 DEF Cared, InScheduler
  <1> QED
    BY <1>1, <1>2, <1>3, <1>4, <1>5, <1>6 DEF SchedulerLink

LEMMA RunningStep ==
    TypeInv /\ OwnerInv /\ LinkInv /\ RunningInv /\ [Next]_vars => RunningInv'
  <1> SUFFICES ASSUME TypeInv, OwnerInv, LinkInv, RunningInv, [Next]_vars,
                      NEW t \in Tasks, tasks'[t].status = "Running"
               PROVE  Cared(t)'
    BY DEF RunningInv, WithStatus
  <1>t. TasksTypeOK
    BY DEF TypeInv
  <1>1. CASE tasks[t].status = "Running"
    <2>1. Cared(t)
      BY <1>1 DEF RunningInv, WithStatus
    <2>2. CASE NoLink
      BY <2>1, <2>2
         DEF NoLink, LinksKept, SameCurrents, Cared, Claims, InScheduler, Named, Held
    <2> QED
      BY <1>1, <2>1, <2>2, Links, CareReader, CareUi, CareScheduler
  <1>2. CASE tasks[t].status # "Running"
    <2>1. StartStep
      <3>1. \A s \in Sessions : reader[s].is_error \in BOOLEAN
        BY DEF TypeInv, SessionsTypeOK, Reader
      <3> QED
        BY <1>2, <1>t, <3>1, StepKinds, RunningTasks
           DEF EnvStep, EnvEffect, QuietStep, TakeStep, BindStep, FailStep
    <2>2. t = Held /\ thread'[Scheduler].task = t /\ thread'[Scheduler].pc = "bind"
      BY <1>2, <1>t, <2>1, StartFacts DEF StartStep, Others
    <2> QED
      BY <2>2 DEF Cared, InScheduler, Held
  <1> QED
    BY <1>1, <1>2

\* A running task that nobody has in hand any more can be seen as such: it is named by a session
\* that is still listed and has ended without a crash.
THEOREM OrphansSeen == Spec => []OrphansAreNamed
  <1>1. Start => RunningInv
    BY InitFacts DEF RunningInv, WithStatus
  <1>2. TypeInv /\ RunningInv => OrphansAreNamed
    <2> SUFFICES ASSUME TypeInv, RunningInv, NEW t \in WithStatus("Running")
                 PROVE  InCare(t) \/ \E s \in registry : /\ info[s].current_task = t
                                                         /\ reader[s].pc = "done"
                                                         /\ info[s].status # "Crashed"
      BY DEF OrphansAreNamed
    <2>1. Cared(t)
      BY DEF RunningInv
    <2>2. Scheduler \in Threads /\ Ui \in Threads
      BY DEF Threads
    <2>3. Held = t \/ thread[Ui].task = t => InCare(t)
      BY <2>2 DEF InCare, Held
    <2> QED
      BY <2>1, <2>3 DEF Cared, InCare, InScheduler, Named
  <1> QED
    BY InitStarts, TypeInit, TypeStep, OwnerInit, OwnerStep, LinkInit, LinkStep, RunningStep, <1>1, <1>2, PTL
       DEF Spec
=============================================================================
