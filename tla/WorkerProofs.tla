----------------------------- MODULE WorkerProofs -----------------------------
(***************************************************************************)
(* Theorems about Orchestrator where the user leaves the headless workers  *)
(* to the scheduler: what is in their pipes, who answers which task, how   *)
(* many of them are active, and, where no agent outlives its stdout, that  *)
(* no task is worked on twice.  Each theorem names the commands and the    *)
(* faults it excludes.                                                     *)
(***************************************************************************)
EXTENDS ContractProofs, FiniteSetTheorems

-----------------------------------------------------------------------------
(* The pipes of a session.                                                 *)

Results(s) == {i \in DOMAIN stdout[s] : stdout[s][i].type = "result"}

\* No turn is under way in s: none in its stdin, no result on its way to the reader.
Quiet(s) == stdin[s] = <<>> /\ Results(s) = {} /\ reader[s].pc # "turn"

\* One turn at most is under way in s.
Single(s) ==
    /\ Len(stdin[s]) =< 1
    /\ \A i, j \in Results(s) : i = j
    /\ stdin[s] # <<>> => Results(s) = {} /\ reader[s].pc # "turn"
    /\ Results(s) # {} => reader[s].pc # "turn"

\* It is the turn of the task that the session names.
Current(s) ==
    s \in registry =>
        /\ info[s].current_task = NoTask => Quiet(s)
        /\ stdin[s] # <<>> => stdin[s] = <<info[s].current_task>>
        /\ \A i \in Results(s) : ~stdout[s][i].is_error => info[s].current_task \in answered
        /\ reader[s].pc = "turn" /\ ~reader[s].is_error => info[s].current_task \in answered

Unused(s) == reader[s].pc = "none" => proc[s] = "none" /\ stdin[s] = <<>> /\ stdout[s] = <<>>

Settling(s) == reader[s].pc = "settle" /\ ~reader[s].is_error => reader[s].task \in answered

SessionPipe(s) == Single(s) /\ Current(s) /\ Unused(s) /\ Settling(s)

\* The worker the scheduler has chosen is quiet until the scheduler writes to it.
SchedulerPipe ==
    /\ thread[Scheduler].pc \in {"start", "bind", "lookup", "write"} =>
          Quiet(thread[Scheduler].sid)
    /\ thread[Scheduler].pc \in {"lookup", "write"} /\ thread[Scheduler].sid \in registry =>
          info[thread[Scheduler].sid].current_task = Held

\* The interface thread writes to no one.
UiSilent == thread[Ui].targets = {} /\ thread[Ui].pc \in {"ready", "kill", "fail"}

PipeInv == (\A s \in Sessions : SessionPipe(s)) /\ SchedulerPipe /\ UiSilent /\ DoneMeansAnswered

NoSends == UserCommands \cap {"create", "send", "broadcast"} = {}

\* What an event that is written, and one that is read, do to the results in the pipe.
LEMMA AppendEvent ==
    ASSUME NEW s \in Sessions, stdout[s] \in Seq(Event), NEW e \in Event,
           stdout'[s] = Append(stdout[s], e)
    PROVE  \A i \in Results(s)' :
              \/ i \in Results(s) /\ stdout'[s][i] = stdout[s][i]
              \/ i = Len(stdout[s]) + 1 /\ stdout'[s][i] = e /\ e.type = "result"
  BY DEF Results

LEMMA TakeEvent ==
    ASSUME NEW s \in Sessions, stdout[s] \in Seq(Event), stdout[s] # <<>>,
           stdout'[s] = Tail(stdout[s])
    PROVE  /\ \A i \in Results(s)' : /\ i \in Nat \ {0} /\ i + 1 \in Results(s)
                                     /\ stdout'[s][i] = stdout[s][i + 1]
           /\ NextEvent(s) = stdout[s][1]
           /\ NextEvent(s).type = "result" => 1 \in Results(s)
  BY DEF Results, NextEvent

\* Nothing happens to the session r.
Untouched(r) ==
    /\ stdin'[r] = stdin[r] /\ stdout'[r] = stdout[r] /\ proc'[r] = proc[r]
    /\ reader'[r] = reader[r]
    /\ r \in registry' <=> r \in registry
    /\ info'[r].current_task = info[r].current_task

LEMMA UntouchedPipe ==
    ASSUME NEW r, SessionPipe(r), Untouched(r), answered \subseteq answered'
    PROVE  SessionPipe(r)' /\ (Quiet(r) => Quiet(r)')
  <1>1. Results(r)' = Results(r)
    BY DEF Untouched, Results
  <1> QED
    BY <1>1 DEF Untouched, SessionPipe, Single, Current, Unused, Settling, Quiet

\* A step of another thread is no business of the scheduler's as long as it leaves quiet sessions
\* quiet.
Calm ==
    /\ \A r \in Sessions : Quiet(r) => /\ Quiet(r)'
                                       /\ r \in registry' => info'[r].current_task = info[r].current_task
    /\ registry' \subseteq registry
    /\ thread'[Scheduler] = thread[Scheduler]

LEMMA CalmScheduler ==
    ASSUME LinkInv, SchedulerPipe, Calm
    PROVE  SchedulerPipe'
  <1>1. thread[Scheduler].pc \in {"start", "bind", "lookup", "write"} =>
            thread[Scheduler].sid \in Sessions
    BY DEF LinkInv, FreshWorker, HasWorker, Sendings
  <1> QED
    BY <1>1 DEF SchedulerPipe, Calm, Held

\* The table: only a turn that ended without error makes a task Done.
LEMMA DoneTasks ==
    ASSUME TasksTypeOK, NEW t \in Tasks,
           \/ EnqueueTask(t) \/ CancelTask(t) \/ TakeNextTask(t) \/ FailTask(t) \/ RecoverTask(t)
           \/ SettleTask(t, TRUE)
           \/ \E s \in Sessions \cup {NoSession} : StartTask(t, s)
    PROVE  WithStatus("Done")' \subseteq WithStatus("Done")
  <1>1. Others(t) /\ tasks'[t].status # "Done"
    <2>1. SettleTask(t, TRUE) => Others(t) /\ tasks'[t].status = "Failed"
      BY DEF SettleTask, TasksTypeOK, Task, Others
    <2> QED
      BY <2>1, EnqueueFacts, CancelFacts, TakeFacts, FailFacts, RecoverFacts, StartFacts
  <1> QED
    BY <1>1 DEF WithStatus, Others

\* What an agent does: it answers the turn in its stdin, or dies with it.
LEMMA AgentPipe ==
    ASSUME TypeInv, NEW s \in Sessions, SessionPipe(s), AgentStep(s)
    PROVE  /\ SessionPipe(s)' /\ (Quiet(s) => Quiet(s)')
           /\ \A r \in Sessions \ {s} : Untouched(r)
           /\ answered \subseteq answered'
  <1>t. AgentsTypeOK /\ stdout[s] \in Seq(Event) /\ stdin[s] \in Seq(Turn)
    BY DEF TypeInv, AgentsTypeOK
  <1>f. UNCHANGED <<tasks, registry, info, stop, reader, thread>>
    BY DEF AgentStep, sessionVars
  <1>p. reader[s].pc # "none"
    BY DEF AgentStep, AgentNext, AgentInit, AgentSpeak, AgentReply, AgentCrash, AgentExit, AgentClose,
           AgentCloseEnd, SessionPipe, Unused
  <1>c. registry' = registry /\ reader' = reader /\ info' = info
    BY <1>f
  <1> USE DEF SessionPipe
  <1>1. CASE AgentInit(s) \/ AgentSpeak(s)
    <2>1. PICK e \in Event : e.type # "result" /\ Emit(s, e)
      BY <1>1 DEF AgentInit, AgentSpeak, InitEvent, AssistantEvent, Event
    <2>2. /\ stdout'[s] = Append(stdout[s], e) /\ \A r \in Sessions \ {s} : stdout'[r] = stdout[r]
          /\ \A r \in Sessions \ {s} : proc'[r] = proc[r]
          /\ stdin' = stdin /\ answered' = answered
      BY <1>1, <1>t, <2>1 DEF AgentInit, AgentSpeak, Emit, AgentsTypeOK
    <2>3. \A i \in Results(s)' : i \in Results(s) /\ stdout'[s][i] = stdout[s][i]
      BY <1>t, <2>1, <2>2, AppendEvent
    <2>4. SessionPipe(s)' /\ (Quiet(s) => Quiet(s)')
      BY <1>c, <1>p, <2>2, <2>3 DEF Single, Current, Unused, Settling, Quiet
    <2> QED
      BY <1>c, <2>2, <2>4 DEF Untouched
  <1>2. CASE AgentReply(s)
    <2>1. PICK is_error \in BOOLEAN :
            /\ Emit(s, ResultEvent(is_error))
            /\ answered' = IF is_error THEN answered
                                       ELSE answered \cup ({Head(stdin[s])} \cap Tasks)
      BY <1>2 DEF AgentReply
    <2>2. /\ ResultEvent(is_error) \in Event /\ ResultEvent(is_error).type = "result"
          /\ ResultEvent(is_error).is_error = is_error
      BY DEF ResultEvent, Event
    <2>3. /\ stdout'[s] = Append(stdout[s], ResultEvent(is_error))
          /\ \A r \in Sessions \ {s} : stdout'[r] = stdout[r] /\ stdin'[r] = stdin[r]
          /\ proc' = proc /\ stdin[s] # <<>> /\ stdin'[s] = Tail(stdin[s])
      BY <1>2, <1>t, <2>1 DEF AgentReply, Emit, AgentsTypeOK
    <2>4. Results(s) = {} /\ reader[s].pc # "turn" /\ stdin'[s] = <<>>
      BY <1>t, <2>3 DEF Single
    <2>5. \A i \in Results(s)' : i = Len(stdout[s]) + 1 /\ stdout'[s][i] = ResultEvent(is_error)
      BY <1>t, <2>2, <2>3, <2>4, AppendEvent
    <2>6. answered \subseteq answered'
      BY <2>1
    <2>7. s \in registry /\ ~is_error => info[s].current_task \in answered'
      <3>1. ASSUME s \in registry, ~is_error PROVE info[s].current_task \in answered'
        <4>1. info[s].current_task # NoTask /\ stdin[s] = <<info[s].current_task>>
          BY <2>3, <3>1 DEF Current, Quiet
        <4>2. info[s].current_task \in Tasks /\ Head(stdin[s]) = info[s].current_task
          BY <4>1 DEF TypeInv, SessionsTypeOK, Info
        <4> QED
          BY <2>1, <3>1, <4>2
      <3> QED
        BY <3>1
    <2>8. Single(s)' /\ Unused(s)' /\ Settling(s)'
      BY <1>c, <1>p, <2>4, <2>5, <2>6 DEF Single, Unused, Settling
    <2>9. Current(s)'
      BY <1>c, <2>2, <2>3, <2>4, <2>5, <2>7 DEF Current, Quiet
    <2> QED
      BY <1>c, <2>3, <2>6, <2>8, <2>9 DEF Untouched, Quiet
  <1>3. CASE AgentCrash(s) \/ AgentExit(s) \/ AgentCloseEnd(s)
    <2>1. /\ stdin'[s] = <<>> /\ stdout' = stdout /\ answered' = answered
          /\ \A r \in Sessions \ {s} : stdin'[r] = stdin[r] /\ proc'[r] = proc[r]
      BY <1>3, <1>t DEF AgentCrash, AgentExit, AgentCloseEnd, Die, AgentsTypeOK
    <2>2. Results(s)' = Results(s)
      BY <2>1 DEF Results
    <2> QED
      BY <1>c, <1>p, <2>1, <2>2 DEF Single, Current, Unused, Settling, Quiet, Untouched
  <1>4. CASE AgentClose(s)
    <2>1. /\ stdin' = stdin /\ stdout' = stdout /\ answered' = answered
          /\ \A r \in Sessions \ {s} : proc'[r] = proc[r]
      BY <1>4, <1>t DEF AgentClose, AgentsTypeOK
    <2>2. Results(s)' = Results(s)
      BY <2>1 DEF Results
    <2> QED
      BY <1>c, <1>p, <2>1, <2>2 DEF Single, Current, Unused, Settling, Quiet, Untouched
  <1> QED
    BY <1>1, <1>2, <1>3, <1>4 DEF AgentStep, AgentNext

\* What a reader does: it takes the result, then the task of its session, then settles.
LEMMA ReaderPipe ==
    ASSUME TypeInv, NEW s \in Sessions, SessionPipe(s), ReaderStep(s)
    PROVE  /\ SessionPipe(s)'
           /\ Quiet(s) => Quiet(s)' /\ info'[s].current_task = info[s].current_task
           /\ \A r \in Sessions \ {s} : Untouched(r)
           /\ answered' = answered
  <1>t. /\ AgentsTypeOK /\ InfoTypeOK /\ reader \in [Sessions -> Reader]
        /\ stdout[s] \in Seq(Event) /\ stdin[s] \in Seq(Turn)
    BY DEF TypeInv, AgentsTypeOK, SessionsTypeOK, InfoTypeOK
  <1>f. UNCHANGED <<proc, stdin, answered, registry>> /\ thread' = thread
    BY DEF ReaderStep, ReaderNext, ReadAfterStop, ReadInit, ReadAssistant, ReadResult, ReadLine,
           TakeCurrentTask, SettleTurn, ReadEof, Finalize, RecoverInterrupted, agentVars
  <1>p. reader[s].pc # "none"
    BY DEF ReaderStep, ReaderNext, ReadAfterStop, ReadInit, ReadAssistant, ReadResult, ReadLine,
           TakeCurrentTask, SettleTurn, ReadEof, Finalize, RecoverInterrupted
  <1>c. /\ registry' = registry /\ proc' = proc /\ stdin' = stdin /\ answered' = answered
    BY <1>f
  \* A line is read: what is left in the pipe.
  <1>l. ASSUME ReadLine(s)
        PROVE  /\ reader[s].pc = "read" /\ stdout[s] # <<>>
               /\ \A i \in Results(s)' : /\ i \in Nat \ {0} /\ i + 1 \in Results(s)
                                         /\ stdout'[s][i] = stdout[s][i + 1]
               /\ NextEvent(s) = stdout[s][1]
               /\ NextEvent(s).type = "result" => 1 \in Results(s)
               /\ \A r \in Sessions \ {s} : stdout'[r] = stdout[r]
    <2>1. /\ reader[s].pc = "read" /\ stdout[s] # <<>> /\ stdout'[s] = Tail(stdout[s])
          /\ \A r \in Sessions \ {s} : stdout'[r] = stdout[r]
      BY <1>l, <1>t DEF ReadLine, AgentsTypeOK
    <2> QED
      BY <1>t, <2>1, TakeEvent
  <1>i. \A i, j \in Results(s) : i \in Nat \ {0} /\ j \in Nat \ {0} /\ i = j
    BY <1>t DEF Results, SessionPipe, Single
  <1> USE DEF SessionPipe
  \* The reader of s is neither in a turn nor settling afterwards.
  <1>k. ASSUME SameCurrents, reader'[s].pc \notin {"none", "turn", "settle"},
               \A r \in Sessions \ {s} : reader'[r] = reader[r] /\ stdout'[r] = stdout[r],
               ReadLine(s) \/ (stdout' = stdout /\ reader[s].pc # "turn")
        PROVE  /\ SessionPipe(s)'
               /\ Quiet(s) => Quiet(s)' /\ info'[s].current_task = info[s].current_task
               /\ \A r \in Sessions \ {s} : Untouched(r)
               /\ answered' = answered
    <2>0. \A i \in Results(s)' : \E j \in Results(s) : stdout'[s][i] = stdout[s][j]
      <3>1. CASE ReadLine(s)
        BY <1>l, <3>1
      <3>2. CASE stdout' = stdout
        BY <3>2 DEF Results
      <3> QED
        BY <1>k, <3>1, <3>2
    <2>1. \A i, j \in Results(s)' : i = j
      <3>1. CASE ReadLine(s)
        BY <1>l, <1>i, <3>1
      <3>2. CASE stdout' = stdout
        BY <1>i, <3>2 DEF Results
      <3> QED
        BY <1>k, <3>1, <3>2
    <2>2. Single(s)' /\ Unused(s)' /\ Settling(s)'
      BY <1>c, <1>k, <2>0, <2>1 DEF Single, Unused, Settling
    <2>3. Quiet(s) => Quiet(s)'
      BY <1>c, <1>k, <2>0 DEF Quiet
    <2>4. Current(s)'
      BY <1>c, <1>k, <2>0, <2>3 DEF Current, SameCurrents
    <2> QED
      BY <1>c, <1>k, <2>2, <2>3, <2>4 DEF Untouched, SameCurrents
  <1>u. ASSUME NEW status \in SessionStatus, UpdateStatus(s, status)
        PROVE  SameCurrents
    BY <1>u, <1>t, <1>c, UpdateStatusFacts DEF SameCurrents
  <1>1. CASE ReadAfterStop(s)
    <2>1. /\ reader'[s].pc = "reap" /\ \A r \in Sessions \ {s} : reader'[r] = reader[r]
          /\ SameCurrents /\ ReadLine(s)
      BY <1>1, <1>t DEF ReadAfterStop, Reader, SameCurrents
    <2> QED
      BY <1>k, <1>l, <2>1
  <1>2. CASE ReadInit(s) \/ ReadAssistant(s)
    <2>1. SameCurrents
      BY <1>2, <1>t, <1>u DEF ReadInit, ReadAssistant, SameCurrents, InfoTypeOK, Info, SessionStatus
    <2>2. reader' = reader /\ ReadLine(s)
      BY <1>2 DEF ReadInit, ReadAssistant
    <2> QED
      BY <1>k, <1>l, <2>1, <2>2
  <1>3. CASE ReadResult(s)
    <2>1. SameCurrents
      BY <1>3, <1>u DEF ReadResult, SessionStatus
    <2>2. /\ ReadLine(s) /\ NextEvent(s).type = "result" /\ reader'[s].pc = "turn"
          /\ reader'[s].is_error = NextEvent(s).is_error
          /\ \A r \in Sessions \ {s} : reader'[r] = reader[r]
      BY <1>3, <1>t DEF ReadResult, Reader
    <2>3. 1 \in Results(s) /\ stdin[s] = <<>>
      BY <1>l, <1>t, <2>2 DEF Single
    <2>4. Results(s)' = {}
      BY <1>l, <1>i, <2>2, <2>3
    <2>5. s \in registry /\ ~reader'[s].is_error => info[s].current_task \in answered
      BY <1>l, <2>2, <2>3 DEF Current
    <2>6. Single(s)' /\ Unused(s)' /\ Settling(s)'
      BY <1>c, <1>t, <2>2, <2>3, <2>4 DEF Single, Unused, Settling
    <2>7. ~Quiet(s) /\ (s \in registry => info[s].current_task # NoTask)
      BY <2>3 DEF Quiet, Current
    <2>8. Current(s)'
      BY <1>c, <2>1, <2>2, <2>3, <2>4, <2>5, <2>7 DEF Current, SameCurrents
    <2> QED
      BY <1>c, <1>l, <2>1, <2>2, <2>6, <2>7, <2>8 DEF Untouched, SameCurrents
  <1>4. CASE TakeCurrentTask(s)
    <2> DEFINE t == IF s \in registry THEN info[s].current_task ELSE NoTask
    <2>1. reader[s].pc = "turn" /\ BindTask(s, NoTask) /\ stdout' = stdout
          /\ reader' = [reader EXCEPT ![s].pc = IF t = NoTask THEN "read" ELSE "settle",
                                      ![s].task = t]
      BY <1>4 DEF TakeCurrentTask, agentVars
    <2>2. t # NoTask => s \in registry /\ t = info[s].current_task
      OBVIOUS
    <2> HIDE DEF t
    <2>3. /\ reader'[s].pc = (IF t = NoTask THEN "read" ELSE "settle") /\ reader'[s].task = t
          /\ reader'[s].is_error = reader[s].is_error
          /\ \A r \in Sessions \ {s} : reader'[r] = reader[r]
      BY <2>1, <1>t DEF Reader
    <2>4. /\ \A r \in Sessions \ {s} : info'[r] = info[r]
          /\ s \in registry => info'[s].current_task = NoTask
      BY <1>t, <1>c, <2>1, BindFacts
    <2>5. Results(s)' = Results(s) /\ Results(s) = {} /\ stdin[s] = <<>>
      BY <2>1 DEF Results, Single
    <2>6. Quiet(s)' /\ ~Quiet(s)
      BY <1>c, <2>1, <2>3, <2>5 DEF Quiet
    <2>7. Single(s)' /\ Unused(s)'
      BY <1>c, <2>3, <2>5 DEF Single, Unused
    <2>8. Settling(s)'
      BY <1>c, <2>1, <2>2, <2>3 DEF Settling, Current
    <2>9. Current(s)'
      BY <1>c, <2>3, <2>5, <2>6 DEF Current
    <2> QED
      BY <1>c, <2>1, <2>3, <2>4, <2>6, <2>7, <2>8, <2>9 DEF Untouched
  <1>5. CASE SettleTurn(s) \/ RecoverInterrupted(s)
    <2>1. /\ reader'[s].pc \in {"read", "done"} /\ reader[s].pc \in {"settle", "recover"}
          /\ \A r \in Sessions \ {s} : reader'[r] = reader[r]
          /\ stdout' = stdout /\ SameCurrents
      BY <1>5, <1>t DEF SettleTurn, RecoverInterrupted, NewReader, agentVars, SameCurrents
    <2> QED
      BY <1>k, <2>1
  <1>6. CASE ReadEof(s)
    <2>1. /\ reader'[s].pc = "reap" /\ reader[s].pc = "read"
          /\ \A r \in Sessions \ {s} : reader'[r] = reader[r]
          /\ stdout' = stdout /\ SameCurrents
      BY <1>6, <1>t DEF ReadEof, Reader, agentVars, SameCurrents
    <2> QED
      BY <1>k, <2>1
  <1>7. CASE Finalize(s)
    <2>1. FinalStatus(s) \in SessionStatus
      BY DEF FinalStatus, SessionStatus
    <2>2. SameCurrents
      BY <1>7, <1>u, <2>1 DEF Finalize
    <2>3. /\ reader'[s].pc \in {"recover", "done"} /\ reader[s].pc = "reap"
          /\ \A r \in Sessions \ {s} : reader'[r] = reader[r]
          /\ stdout' = stdout
      BY <1>7, <1>t DEF Finalize, NewReader, agentVars
    <2> QED
      BY <1>k, <2>2, <2>3
  <1> QED
    BY <1>1, <1>2, <1>3, <1>4, <1>5, <1>6, <1>7 DEF ReaderStep, ReaderNext

\* A process that is killed takes its turn with it.
LEMMA KillPipe ==
    ASSUME TypeInv, NEW s, Kill(s)
    PROVE  \A r \in Sessions : /\ stdin'[r] = stdin[r] \/ stdin'[r] = <<>>
                               /\ proc[r] = "none" => proc'[r] = "none" /\ stdin'[r] = stdin[r]
                               /\ r # s => proc'[r] = proc[r] /\ stdin'[r] = stdin[r]
  BY DEF TypeInv, AgentsTypeOK, Kill, Die

\* A session that is not touched but for the kill, or its removal.
LEMMA CutPipe ==
    ASSUME TypeInv, NEW r \in Sessions, SessionPipe(r),
           stdin'[r] = stdin[r] \/ stdin'[r] = <<>>,
           proc[r] = "none" => proc'[r] = "none" /\ stdin'[r] = stdin[r],
           UNCHANGED <<stdout, answered, reader>>,
           r \in registry' => r \in registry /\ info'[r].current_task = info[r].current_task
    PROVE  SessionPipe(r)' /\ (Quiet(r) => Quiet(r)')
  <1>1. Results(r)' = Results(r)
    BY DEF Results
  <1>2. Len(<<>>) = 0
    OBVIOUS
  <1>3. Single(r)'
    BY <1>1, <1>2 DEF SessionPipe, Single
  <1>4. (Quiet(r) => Quiet(r)') /\ Unused(r)' /\ Settling(r)'
    BY <1>1 DEF SessionPipe, Unused, Settling, Quiet
  <1>5. Current(r)'
    BY <1>1, <1>4 DEF SessionPipe, Current
  <1> QED
    BY <1>3, <1>4, <1>5 DEF SessionPipe

\* The commands that remain: the user enqueues and cancels tasks, and kills and removes sessions.
LEMMA UiPipe ==
    ASSUME TypeInv, LinkInv, PipeInv, NoSends, UiNext
    PROVE  PipeInv'
  <1>t. /\ TasksTypeOK /\ InfoTypeOK /\ ThreadsTypeOK /\ Scheduler \in Threads /\ Ui \in Threads
        /\ Scheduler # Ui
    BY DEF TypeInv, SessionsTypeOK, InfoTypeOK, Threads, Scheduler, Ui
  \* No session is touched.
  <1>q. ASSUME UNCHANGED <<agentVars, registry, info, reader>>, thread'[Scheduler] = thread[Scheduler],
               UiSilent', WithStatus("Done")' \subseteq WithStatus("Done")
        PROVE  PipeInv'
    <2>1. UNCHANGED <<stdin, stdout, proc, answered>>
      BY <1>q DEF agentVars
    <2>2. \A s \in Sessions : Untouched(s)
      BY <1>q, <2>1 DEF Untouched
    <2>3. \A s \in Sessions : SessionPipe(s)' /\ (Quiet(s) => Quiet(s)')
      BY <2>1, <2>2, UntouchedPipe DEF PipeInv
    <2>4. SchedulerPipe'
      BY <1>q, <2>3, CalmScheduler DEF Calm, PipeInv
    <2> QED
      BY <1>q, <2>1, <2>3, <2>4 DEF PipeInv, DoneMeansAnswered
  <1>s. UiSilent
    BY DEF PipeInv
  <1>1. ASSUME NEW t \in Tasks, UiEnqueue(t) \/ UiCancel(t) PROVE PipeInv'
    BY <1>1, <1>q, <1>s, <1>t, DoneTasks DEF UiEnqueue, UiCancel, sessionVars, UiSilent
  <1>2. ASSUME NEW s \in Sessions, UiKill(s) PROVE PipeInv'
    <2>1. /\ thread'[Scheduler] = thread[Scheduler]
          /\ thread'[Ui].pc = "kill" /\ thread'[Ui].targets = thread[Ui].targets
      BY <1>2, <1>t DEF UiKill, ThreadsTypeOK, Thread
    <2> QED
      BY <1>2, <1>q, <1>s, <2>1 DEF UiKill, UiSilent, WithStatus
  <1>3. CASE UiKillProcess
    <2>1. /\ thread'[Scheduler] = thread[Scheduler]
          /\ thread'[Ui].pc = "ready" /\ thread'[Ui].targets = thread[Ui].targets
      BY <1>3, <1>t DEF UiKillProcess, Finish, ThreadsTypeOK, Thread
    <2>2. /\ UNCHANGED <<stdout, answered, reader>> /\ registry' = registry /\ info' = info
          /\ tasks' = tasks
      BY <1>3 DEF UiKillProcess, sessionVars
    <2>3. \A r \in Sessions : SessionPipe(r)' /\ (Quiet(r) => Quiet(r)')
      BY <1>3, <2>2, KillPipe, CutPipe DEF UiKillProcess, PipeInv
    <2>4. SchedulerPipe'
      BY <2>1, <2>2, <2>3, CalmScheduler DEF Calm, PipeInv
    <2> QED
      BY <1>s, <2>1, <2>2, <2>3, <2>4 DEF PipeInv, UiSilent, DoneMeansAnswered, WithStatus
  <1>4. ASSUME NEW s \in Sessions, UiRemove(s) PROVE PipeInv'
    <2>1. /\ thread'[Scheduler] = thread[Scheduler]
          /\ thread'[Ui].pc \in {"fail", thread[Ui].pc} /\ thread'[Ui].targets = thread[Ui].targets
      BY <1>4, <1>t DEF UiRemove, ThreadsTypeOK, Thread
    <2>2. /\ UNCHANGED <<stdout, answered, reader>> /\ registry' = registry \ {s} /\ tasks' = tasks
          /\ \A r \in Sessions \ {s} : info'[r] = info[r]
      BY <1>4, <1>t DEF UiRemove, InfoTypeOK
    <2>3. \A r \in Sessions : /\ stdin'[r] = stdin[r] \/ stdin'[r] = <<>>
                              /\ proc[r] = "none" => proc'[r] = "none" /\ stdin'[r] = stdin[r]
      <3>1. CASE UNCHANGED <<proc, stdin>>
        BY <3>1
      <3>2. CASE Kill(s)
        BY <3>2, KillPipe
      <3> QED
        BY <1>4, <3>1, <3>2 DEF UiRemove
    <2>4. \A r \in Sessions : SessionPipe(r)' /\ (Quiet(r) => Quiet(r)')
      BY <2>2, <2>3, CutPipe DEF PipeInv
    <2>5. SchedulerPipe'
      BY <2>1, <2>2, <2>4, CalmScheduler, <1>t DEF Calm, PipeInv, InfoTypeOK
    <2> QED
      BY <1>s, <2>1, <2>2, <2>4, <2>5 DEF PipeInv, UiSilent, DoneMeansAnswered, WithStatus
  <1>5. CASE FailHeld(Ui)
    <2>1. /\ thread'[Scheduler] = thread[Scheduler]
          /\ thread'[Ui].pc = "ready" /\ thread'[Ui].targets = thread[Ui].targets
      BY <1>5, <1>t DEF FailHeld, Finish, ThreadsTypeOK, Thread
    <2>2. thread[Ui].task \in Tasks
      BY <1>5 DEF FailHeld, At, TypeInv, HeldByThreads
    <2> QED
      BY <1>5, <1>q, <1>s, <1>t, <2>1, <2>2, DoneTasks DEF FailHeld, UiSilent, sessionVars
  <1>6. \A s \in Sessions : ~UiNextTarget(s) /\ ~UiSend(s) /\ \A c \in Contexts : ~UiCreate(s, c)
    BY <1>s DEF UiNextTarget, UiSend, UiCreate, Gives, UiSilent, NoSends
  <1>7. ~UiBroadcast /\ (SendNext(Ui) => FailHeld(Ui))
    BY <1>s DEF UiBroadcast, Gives, UiSilent, NoSends, SendNext, SendLookup, SendWrite, SendBroken,
                SendMark, At
  <1>8. ASSUME NEW policy \in Policies, UiSetConfig(policy) PROVE PipeInv'
    BY <1>8, <1>q, <1>s DEF UiSetConfig, sessionVars, UiSilent, WithStatus
  <1> QED
    BY <1>1, <1>2, <1>3, <1>4, <1>5, <1>6, <1>7, <1>8 DEF UiNext, UiContinue

\* The scheduler starts a turn only where none is under way.
LEMMA SchedulerPipeStep ==
    ASSUME TypeInv, LinkInv, PipeInv, SchedulerNext
    PROVE  PipeInv'
  <1>t. /\ TasksTypeOK /\ InfoTypeOK /\ ThreadsTypeOK /\ AgentsTypeOK
        /\ Scheduler \in Threads /\ Ui \in Threads /\ Scheduler # Ui
        /\ reader \in [Sessions -> Reader] /\ NoTask \notin Tasks
    BY NoTaskAssumption DEF TypeInv, SessionsTypeOK, InfoTypeOK, Threads, Scheduler, Ui
  <1>h. /\ thread[Scheduler].pc \in {"start", "bind", "lookup", "write", "mark"} =>
                thread[Scheduler].sid \in Sessions
        /\ thread[Scheduler].pc \in Holdings => Held \in Tasks
    BY DEF LinkInv, FreshWorker, HasWorker, Sendings, TypeInv, HeldByThreads, Held, Holdings, TakenPcs
  <1>s. UiSilent /\ DoneMeansAnswered /\ SchedulerPipe /\ \A r \in Sessions : SessionPipe(r)
    BY DEF PipeInv
  \* No session is touched: the place of the scheduler remains to be looked at.
  <1>q. ASSUME UNCHANGED <<agentVars, registry, reader>>, SameCurrents, thread'[Ui] = thread[Ui],
               SchedulerPipe', WithStatus("Done")' \subseteq WithStatus("Done")
        PROVE  PipeInv'
    <2>1. UNCHANGED <<stdin, stdout, proc, answered>>
      BY <1>q DEF agentVars
    <2>2. \A s \in Sessions : Untouched(s)
      BY <1>q, <2>1 DEF Untouched, SameCurrents
    <2>3. \A s \in Sessions : SessionPipe(s)'
      BY <1>s, <2>1, <2>2, UntouchedPipe
    <2> QED
      BY <1>q, <1>s, <2>1, <2>3 DEF PipeInv, UiSilent, DoneMeansAnswered
  <1>v. UNCHANGED sessionVars => UNCHANGED <<registry, reader>> /\ SameCurrents
    BY DEF sessionVars, SameCurrents
  <1>d. UNCHANGED tasks => WithStatus("Done")' \subseteq WithStatus("Done")
    BY DEF WithStatus
  <1>r. UNCHANGED agentVars /\ UNCHANGED reader => \A r \in Sessions : Quiet(r)' <=> Quiet(r)
    BY DEF agentVars, Quiet, Results
  <1>1. CASE Tick \/ CountActive \/ TakeNothing \/ FindNone \/ SpawnFails
    <2>1. /\ thread'[Ui] = thread[Ui]
          /\ thread'[Scheduler].pc \in {"asleep", "count", "take", "spawn", "fail"}
      BY <1>1, <1>t, GotoFacts, TickFacts
         DEF Tick, CountActive, TakeNothing, FindNone, SpawnFails, TypeInv, UserOK
    <2>2. SchedulerPipe'
      BY <2>1 DEF SchedulerPipe
    <2> QED
      BY <1>1, <1>q, <1>v, <1>d, <2>1, <2>2 DEF Tick, CountActive, TakeNothing, FindNone, SpawnFails
  <1>2. ASSUME NEW t \in Tasks, TakeTask(t) PROVE PipeInv'
    <2>1. thread'[Ui] = thread[Ui] /\ thread'[Scheduler].pc \in {"find", "spawn"}
      BY <1>2, <1>t DEF TakeTask, AfterTake, ThreadsTypeOK, Thread
    <2>2. SchedulerPipe'
      BY <2>1 DEF SchedulerPipe
    <2> QED
      BY <1>2, <1>q, <1>t, <1>v, <2>1, <2>2, DoneTasks DEF TakeTask
  <1>3. ASSUME NEW s \in Sessions, FindIdle(s) PROVE PipeInv'
    <2>1. /\ thread'[Ui] = thread[Ui] /\ thread'[Scheduler].pc = "start"
          /\ thread'[Scheduler].sid = s
      BY <1>3, <1>t DEF FindIdle, ThreadsTypeOK, Thread
    <2>2. Quiet(s)
      BY <1>3, <1>s DEF FindIdle, IsIdleFor, SessionPipe, Current
    <2>3. SchedulerPipe'
      BY <1>3, <1>r, <2>1, <2>2 DEF FindIdle, sessionVars, SchedulerPipe
    <2> QED
      BY <1>3, <1>q, <1>v, <1>d, <2>1, <2>3 DEF FindIdle
  <1>4. ASSUME NEW s \in Sessions, SpawnWorker(s) PROVE PipeInv'
    <2>1. /\ thread'[Ui] = thread[Ui] /\ thread'[Scheduler].pc = "start"
          /\ thread'[Scheduler].sid = s
      BY <1>4, <1>t DEF SpawnWorker, ThreadsTypeOK, Thread
    <2>2. TaskContext[Held] \in Contexts
      BY <1>4, TaskContextAssumption DEF SpawnWorker, At, TypeInv, HeldByThreads, Held
    <2>3. /\ reader[s].pc = "none" /\ reader'[s].pc = "read" /\ info'[s].current_task = NoTask
          /\ \A r \in Sessions \ {s} : /\ info'[r] = info[r] /\ reader'[r] = reader[r]
                                       /\ r \in registry' <=> r \in registry
      BY <1>4, <2>2, SpawnFacts DEF SpawnWorker
    <2>4. /\ \A r \in Sessions \ {s} : proc'[r] = proc[r]
          /\ stdin' = stdin /\ stdout' = stdout /\ answered' = answered /\ tasks' = tasks
      BY <1>4, <1>t DEF SpawnWorker, SpawnHeadless, StartProcess, AgentsTypeOK
    <2>5. \A r \in Sessions \ {s} : SessionPipe(r)'
      BY <1>s, <2>3, <2>4, UntouchedPipe DEF Untouched
    <2>6. stdin[s] = <<>> /\ stdout[s] = <<>>
      BY <1>s, <2>3 DEF SessionPipe, Unused
    <2>7. Results(s)' = {} /\ Len(<<>>) = 0
      BY <2>4, <2>6 DEF Results
    <2>8. SessionPipe(s)' /\ Quiet(s)'
      BY <2>3, <2>4, <2>6, <2>7 DEF SessionPipe, Single, Current, Unused, Settling, Quiet
    <2>9. SchedulerPipe'
      BY <2>1, <2>8 DEF SchedulerPipe
    <2> QED
      BY <1>s, <2>1, <2>4, <2>5, <2>8, <2>9 DEF PipeInv, UiSilent, DoneMeansAnswered, WithStatus
  <1>5. CASE StartHeld
    <2>1. /\ thread'[Ui] = thread[Ui] /\ thread[Scheduler].pc = "start"
          /\ thread'[Scheduler].pc = "bind" /\ thread'[Scheduler].sid = thread[Scheduler].sid
      BY <1>5, <1>t, GotoFacts DEF StartHeld, At
    <2>2. SchedulerPipe'
      BY <1>5, <1>h, <1>r, <1>s, <2>1 DEF StartHeld, sessionVars, SchedulerPipe
    <2>3. Held \in Tasks
      BY <1>h, <2>1 DEF Holdings, TakenPcs
    <2>4. WithStatus("Done")' \subseteq WithStatus("Done")
      BY <1>5, <1>h, <1>t, <2>1, <2>3, DoneTasks DEF StartHeld
    <2> QED
      BY <1>5, <1>q, <1>v, <2>1, <2>2, <2>4 DEF StartHeld
  <1>6. CASE BindHeld
    <2>1. /\ thread'[Ui] = thread[Ui] /\ thread[Scheduler].pc = "bind"
          /\ thread'[Scheduler].pc = "lookup" /\ thread'[Scheduler].sid = thread[Scheduler].sid
          /\ thread'[Scheduler].task = Held
      BY <1>6, <1>t, GotoFacts DEF BindHeld, At, Held
    <2>2. PICK s \in Sessions : s = thread[Scheduler].sid
      BY <1>h, <2>1
    <2>3. Held \in Tasks
      BY <1>h, <2>1 DEF Holdings
    <2>4. /\ UNCHANGED <<tasks, registry, reader>> /\ UNCHANGED agentVars
          /\ UNCHANGED <<stdin, stdout, proc, answered>>
          /\ \A r \in Sessions \ {s} : info'[r] = info[r]
          /\ s \in registry => info'[s].current_task = Held
      BY <1>6, <1>t, <2>2, <2>3, BindFacts DEF BindHeld, agentVars
    <2>5. \A r \in Sessions \ {s} : SessionPipe(r)'
      BY <1>s, <2>4, UntouchedPipe DEF Untouched
    <2>6. Quiet(s) /\ Quiet(s)' /\ Results(s)' = Results(s)
      BY <1>r, <1>s, <2>1, <2>2, <2>4 DEF SchedulerPipe, Results
    <2>7. SessionPipe(s)'
      BY <1>s, <2>4, <2>6 DEF SessionPipe, Single, Current, Unused, Settling, Quiet
    <2>8. SchedulerPipe'
      BY <2>1, <2>2, <2>4, <2>6 DEF SchedulerPipe, Held
    <2> QED
      BY <1>s, <2>1, <2>4, <2>5, <2>7, <2>8 DEF PipeInv, UiSilent, DoneMeansAnswered, WithStatus
  <1>7. CASE SendLookup(Scheduler)
    <2>1. /\ thread'[Ui] = thread[Ui] /\ thread[Scheduler].pc = "lookup"
          /\ thread'[Scheduler].pc \in {"write", "fail"}
          /\ thread'[Scheduler].sid = thread[Scheduler].sid /\ thread'[Scheduler].task = Held
      BY <1>7, <1>t, GotoFacts DEF SendLookup, SendError, At, Held
    <2>2. SchedulerPipe'
      BY <1>7, <1>h, <1>r, <1>s, <2>1 DEF SendLookup, sessionVars, SchedulerPipe, Held
    <2> QED
      BY <1>7, <1>q, <1>v, <1>d, <2>1, <2>2 DEF SendLookup
  <1>8. CASE SendWrite(Scheduler)
    <2>1. /\ thread'[Ui] = thread[Ui] /\ thread[Scheduler].pc = "write"
          /\ thread'[Scheduler].pc = "mark"
      BY <1>8, <1>t, GotoFacts DEF SendWrite, At
    <2>2. PICK s \in Sessions : s = thread[Scheduler].sid
      BY <1>h, <2>1
    <2>3. Held \in Tasks /\ Quiet(s) /\ (s \in registry => info[s].current_task = Held)
      BY <1>h, <1>s, <2>1, <2>2 DEF Holdings, Sendings, SchedulerPipe
    <2>4. reader[s].pc # "none"
      BY <2>1, <2>2 DEF LinkInv, FreshWorker, HasWorker, Sendings
    <2>5. /\ stdin' = [stdin EXCEPT ![s] = Append(@, Held)]
          /\ UNCHANGED <<tasks, proc, stdout, answered, registry, info, reader>>
      BY <1>8, <2>2 DEF SendWrite, WriteTurn, Held, sessionVars
    <2>6. /\ stdin'[s] = <<Held>> /\ Len(<<Held>>) = 1 /\ <<Held>> # <<>>
          /\ \A r \in Sessions \ {s} : stdin'[r] = stdin[r]
      BY <1>t, <2>3, <2>5 DEF Quiet, AgentsTypeOK
    <2>7. \A r \in Sessions \ {s} : SessionPipe(r)'
      BY <1>s, <2>5, <2>6, UntouchedPipe DEF Untouched
    <2>8. Results(s)' = {}
      BY <2>3, <2>5 DEF Results, Quiet
    <2>9. SessionPipe(s)'
      BY <1>s, <1>t, <2>3, <2>4, <2>5, <2>6, <2>8
         DEF SessionPipe, Single, Current, Unused, Settling, Quiet
    <2>10. SchedulerPipe'
      BY <2>1 DEF SchedulerPipe
    <2> QED
      BY <1>s, <2>1, <2>5, <2>7, <2>9, <2>10 DEF PipeInv, UiSilent, DoneMeansAnswered, WithStatus
  <1>9. CASE SendBroken(Scheduler) \/ SendMark(Scheduler) \/ FailHeld(Scheduler)
    <2>1. thread'[Ui] = thread[Ui] /\ thread'[Scheduler].pc \in {"fail", "count"}
      BY <1>9, <1>t, GotoFacts, FinishFacts DEF SendBroken, SendError, SendMark, FailHeld, At
    <2>2. SchedulerPipe'
      BY <2>1 DEF SchedulerPipe
    <2>3. SameCurrents /\ UNCHANGED <<registry, reader>> /\ UNCHANGED agentVars
      BY <1>9, <1>t, <1>v, UpdateStatusFacts
         DEF SendBroken, SendMark, FailHeld, SameCurrents, SessionStatus
    <2>4. WithStatus("Done")' \subseteq WithStatus("Done")
      <3>1. FailHeld(Scheduler) => Held \in Tasks /\ FailTask(Held)
        BY <1>h DEF FailHeld, At, Holdings, Held
      <3> QED
        BY <1>9, <1>d, <1>t, <3>1, DoneTasks DEF SendBroken, SendMark
    <2> QED
      BY <1>q, <2>1, <2>2, <2>3, <2>4
  <1> QED
    BY <1>1, <1>2, <1>3, <1>4, <1>5, <1>6, <1>7, <1>8, <1>9 DEF SchedulerNext, SendNext

LEMMA PipeInit == Start => PipeInv
  <1> SUFFICES ASSUME Start PROVE PipeInv
    OBVIOUS
  <1>1. \A s \in Sessions : /\ reader[s].pc = "none" /\ proc[s] = "none"
                            /\ stdin[s] = <<>> /\ stdout[s] = <<>> /\ s \notin registry
    BY DEF Start, SessionsInit, AgentsInit, NewReader
  <1>2. \A s \in Sessions : Results(s) = {} /\ Len(<<>>) = 0
    BY <1>1 DEF Results
  <1>3. \A s \in Sessions : SessionPipe(s)
    BY <1>1, <1>2 DEF SessionPipe, Single, Current, Unused, Settling
  <1>4. thread[Scheduler].pc = "asleep" /\ thread[Ui].pc = "ready" /\ thread[Ui].targets = {}
    BY DEF Start, NewThread, Threads, Scheduler, Ui
  <1>5. WithStatus("Done") = {}
    BY DEF Start, TasksInit, NewTask, WithStatus
  <1> QED
    BY <1>3, <1>4, <1>5 DEF PipeInv, SchedulerPipe, UiSilent, DoneMeansAnswered

LEMMA PipeStep == TypeInv /\ LinkInv /\ PipeInv /\ NoSends /\ [Next]_vars => PipeInv'
  <1> SUFFICES ASSUME TypeInv, LinkInv, PipeInv, NoSends, [Next]_vars PROVE PipeInv'
    OBVIOUS
  <1>s. UiSilent /\ DoneMeansAnswered /\ SchedulerPipe /\ \A r \in Sessions : SessionPipe(r)
    BY DEF PipeInv
  <1>t. TasksTypeOK /\ \A s \in Sessions : reader[s].is_error \in BOOLEAN
    BY DEF TypeInv, SessionsTypeOK, Reader
  <1>1. CASE UNCHANGED vars
    <2>1. /\ tasks' = tasks /\ proc' = proc /\ stdin' = stdin /\ stdout' = stdout
          /\ answered' = answered /\ registry' = registry /\ info' = info /\ reader' = reader
          /\ thread' = thread
      BY <1>1 DEF vars
    <2>2. \A r \in Sessions : SessionPipe(r)' /\ (Quiet(r) => Quiet(r)')
      BY <1>s, <2>1, UntouchedPipe DEF Untouched
    <2>3. SchedulerPipe'
      BY <1>s, <2>1, <2>2, CalmScheduler DEF Calm
    <2> QED
      BY <1>s, <2>1, <2>2, <2>3 DEF PipeInv, UiSilent, DoneMeansAnswered, WithStatus
  <1>2. ASSUME NEW s \in Sessions, AgentStep(s) PROVE PipeInv'
    <2>1. /\ SessionPipe(s)' /\ (Quiet(s) => Quiet(s)')
          /\ \A r \in Sessions \ {s} : Untouched(r)
          /\ answered \subseteq answered'
      BY <1>2, <1>s, AgentPipe
    <2>2. tasks' = tasks /\ registry' = registry /\ info' = info /\ thread' = thread
      BY <1>2 DEF AgentStep, sessionVars
    <2>3. \A r \in Sessions : SessionPipe(r)' /\ (Quiet(r) => Quiet(r)')
      BY <1>s, <2>1, UntouchedPipe
    <2>4. SchedulerPipe'
      BY <1>s, <2>2, <2>3, CalmScheduler DEF Calm
    <2> QED
      BY <1>s, <2>1, <2>2, <2>3, <2>4 DEF PipeInv, UiSilent, DoneMeansAnswered, WithStatus
  <1>3. ASSUME NEW s \in Sessions, ReaderStep(s) PROVE PipeInv'
    <2>1. /\ SessionPipe(s)'
          /\ Quiet(s) => Quiet(s)' /\ info'[s].current_task = info[s].current_task
          /\ \A r \in Sessions \ {s} : Untouched(r)
          /\ answered' = answered
      BY <1>3, <1>s, ReaderPipe
    <2>2. thread' = thread
      BY <1>3 DEF ReaderStep
    <2>3. ReaderLink(s)
      BY <1>3, ReaderLinks
    <2>4. registry' = registry
      BY <2>3 DEF ReaderLink, ReaderMoves, ReaderTakes, ReaderSettles, ReaderEnds, ReaderRecovers
    <2>5. \A r \in Sessions : SessionPipe(r)' /\ (Quiet(r) => Quiet(r)')
      BY <1>s, <2>1, UntouchedPipe
    <2>6. SchedulerPipe'
      BY <1>s, <2>1, <2>2, <2>4, <2>5, CalmScheduler DEF Calm, Untouched
    <2>7. DoneMeansAnswered'
      <3>1. CASE tasks' = tasks
        BY <1>s, <2>1, <3>1 DEF DoneMeansAnswered, WithStatus
      <3>2. CASE ReaderRecovers(s)
        BY <1>s, <1>t, <2>1, <3>2, DoneTasks DEF ReaderRecovers, DoneMeansAnswered
      <3>3. CASE ReaderSettles(s)
        <4>1. reader[s].task \in Tasks /\ reader[s].pc = "settle"
              /\ SettleTask(reader[s].task, reader[s].is_error)
          BY <3>3 DEF ReaderSettles
        <4>2. CASE reader[s].is_error
          <5>1. SettleTask(reader[s].task, TRUE)
            BY <1>t, <4>1, <4>2
          <5> QED
            BY <1>s, <1>t, <2>1, <4>1, <5>1, DoneTasks DEF DoneMeansAnswered
        <4>3. CASE ~reader[s].is_error
          <5>1. reader[s].task \in answered
            BY <1>s, <4>1, <4>3 DEF SessionPipe, Settling
          <5>2. Others(reader[s].task)
            BY <1>t, <4>1, SettleFacts
          <5> QED
            BY <1>s, <2>1, <5>1, <5>2 DEF DoneMeansAnswered, WithStatus, Others
        <4> QED
          BY <4>2, <4>3
      <3> QED
        BY <2>3, <3>1, <3>2, <3>3 DEF ReaderLink, ReaderMoves, ReaderTakes, ReaderEnds
    <2> QED
      BY <1>s, <2>2, <2>5, <2>6, <2>7 DEF PipeInv, UiSilent
  <1> QED
    BY <1>1, <1>2, <1>3, UiPipe, SchedulerPipeStep DEF Next

\* Where the user writes to no worker, the result that makes a task Done answers that task: no late
\* result of a pooled worker is taken for the answer to its next task.
THEOREM DoneIsAnswered ==
    ASSUME UserCommands \cap {"create", "send", "broadcast"} = {}
    PROVE  Spec => []DoneMeansAnswered
  <1>1. NoSends
    BY DEF NoSends
  <1>2. PipeInv => DoneMeansAnswered
    BY DEF PipeInv
  <1>3. TypeInv /\ LinkInv /\ PipeInv /\ [Next]_vars => PipeInv'
    BY <1>1, PipeStep
  <1> QED
    BY InitStarts, TypeInit, TypeStep, OwnerInit, OwnerStep, LinkInit, LinkStep, PipeInit, <1>2, <1>3, PTL
       DEF Spec

\* Where the user writes to no worker, the prompt of a task never waits behind another turn, whatever
\* the agents do: the scheduler finds the pipe it writes to empty.  (A prompt that is longer than the
\* pipe still waits for the agent to read it.)
THEOREM PromptsGoFirst ==
    ASSUME UserCommands \cap {"create", "send", "broadcast"} = {}
    PROVE  Spec => []PromptIsNext
  <1>1. NoSends
    BY DEF NoSends
  <1>2. PipeInv => PromptIsNext
    BY DEF PipeInv, SchedulerPipe, Quiet, PromptIsNext, At
  <1>3. TypeInv /\ LinkInv /\ PipeInv /\ [Next]_vars => PipeInv'
    BY <1>1, PipeStep
  <1> QED
    BY InitStarts, TypeInit, TypeStep, OwnerInit, OwnerStep, LinkInit, LinkStep, PipeInit, <1>2, <1>3, PTL
       DEF Spec

-----------------------------------------------------------------------------
(* The cap on active sessions.                                             *)

Seeking == {"take", "find", "spawn"}
Working == {"start", "bind"} \cup Sendings

\* The active sessions, and the one the scheduler is about to mark as such.
Slots == ActiveSessions \cup ({thread[Scheduler].sid} \cap registry)

\* A session that is not active has come to its end.
Awake ==
    \A s \in registry : reader[s].pc \notin {"recover", "done"} => info[s].status \in ActiveStatus

CapInv ==
    /\ IsFiniteSet(registry)
    /\ thread[Scheduler].pc \in Seeking => Cardinality(ActiveSessions) < TickCap
    /\ thread[Scheduler].pc \in Working => Cardinality(Slots) =< TickCap
    /\ Awake

\* No session becomes active.
Frees == registry' \subseteq registry /\ ActiveSessions' \subseteq ActiveSessions /\ Awake'

LEMMA ActiveFacts ==
    ASSUME IsFiniteSet(registry)
    PROVE  /\ IsFiniteSet(ActiveSessions) /\ IsFiniteSet(Slots)
           /\ Cardinality(ActiveSessions) \in Nat /\ Cardinality(Slots) \in Nat
  <1>1. ActiveSessions \subseteq registry /\ Slots \subseteq registry
    BY DEF ActiveSessions, Slots
  <1> QED
    BY <1>1, FS_Subset, FS_CardinalityType

\* Where no session becomes active, the scheduler may stay, stop, or go on with what it has begun.
LEMMA FreesCap ==
    ASSUME CapInv, Frees, TickCap \in Nat,
           \/ thread'[Scheduler].pc \notin Seeking \cup Working
           \/ /\ thread[Scheduler].pc \in Seeking /\ thread'[Scheduler].pc \in Seeking
              /\ TickCap' = TickCap
           \/ /\ thread[Scheduler].pc \in Working /\ thread'[Scheduler].pc \in Working
              /\ thread'[Scheduler].sid = thread[Scheduler].sid /\ TickCap' = TickCap
    PROVE  CapInv'
  <1>1. IsFiniteSet(registry')
    BY FS_Subset DEF CapInv, Frees
  <1>2. IsFiniteSet(ActiveSessions) /\ IsFiniteSet(Slots)
    BY ActiveFacts DEF CapInv
  <1>3. /\ Cardinality(ActiveSessions) \in Nat /\ Cardinality(ActiveSessions') \in Nat
        /\ Cardinality(ActiveSessions') =< Cardinality(ActiveSessions)
    BY <1>2, FS_Subset, FS_CardinalityType DEF Frees
  <1>4. thread'[Scheduler].sid = thread[Scheduler].sid =>
            /\ Cardinality(Slots) \in Nat /\ Cardinality(Slots') \in Nat
            /\ Cardinality(Slots') =< Cardinality(Slots)
    <2>1. thread'[Scheduler].sid = thread[Scheduler].sid => Slots' \subseteq Slots
      BY DEF Frees, Slots
    <2> QED
      BY <1>2, <2>1, FS_Subset, FS_CardinalityType
  <1>5. thread'[Scheduler].pc \in Seeking => Cardinality(ActiveSessions') < TickCap'
    BY <1>3 DEF CapInv, Seeking, Working, Sendings
  <1>6. thread'[Scheduler].pc \in Working => Cardinality(Slots') =< TickCap'
    BY <1>4 DEF CapInv, Seeking, Working, Sendings
  <1> QED
    BY <1>1, <1>5, <1>6 DEF CapInv, Frees

\* The readers: events of a session that is active already, and its end.
LEMMA ReaderFrees ==
    ASSUME TypeInv, Awake, NEW s \in Sessions, ReaderStep(s)
    PROVE  Frees
  <1>t. /\ InfoTypeOK /\ reader \in [Sessions -> Reader] /\ registry \subseteq Sessions
    BY DEF TypeInv, SessionsTypeOK, InfoTypeOK
  <1>r. registry' = registry
    BY DEF ReaderStep, ReaderNext, ReadAfterStop, ReadInit, ReadAssistant, ReadResult, ReadLine,
           TakeCurrentTask, SettleTurn, ReadEof, Finalize, RecoverInterrupted, agentVars
  <1>o. \A r \in Sessions \ {s} : info'[r] = info[r] /\ reader'[r] = reader[r]
    BY ReaderLinks DEF ReaderLink, ReaderMoves, ReaderTakes, ReaderSettles, ReaderEnds,
                       ReaderRecovers, OthersKept
  <1>k. ASSUME s \in registry =>
                 /\ info'[s].status \in ActiveStatus => info[s].status \in ActiveStatus
                 /\ reader'[s].pc \notin {"recover", "done"} => info'[s].status \in ActiveStatus
        PROVE  Frees
    <2>1. ActiveSessions' \subseteq ActiveSessions
      BY <1>k, <1>o, <1>r, <1>t DEF ActiveSessions
    <2>2. Awake'
      BY <1>k, <1>o, <1>r, <1>t DEF Awake
    <2> QED
      BY <1>r, <2>1, <2>2 DEF Frees
  <1>1. CASE ReadAfterStop(s) \/ ReadInit(s) \/ ReadAssistant(s) \/ ReadResult(s)
    <2>1. reader[s].pc = "read"
      BY <1>1 DEF ReadAfterStop, ReadInit, ReadAssistant, ReadResult, ReadLine
    <2>2. s \in registry => info[s].status \in ActiveStatus /\ info'[s].status \in ActiveStatus
      BY <1>1, <1>t, <2>1 DEF ReadAfterStop, ReadInit, ReadAssistant, ReadResult, UpdateStatus, Awake,
                              InfoTypeOK, Info, ActiveStatus
    <2> QED
      BY <1>k, <2>2
  <1>2. CASE TakeCurrentTask(s) \/ SettleTurn(s) \/ ReadEof(s) \/ RecoverInterrupted(s)
    <2>1. s \in registry => info'[s].status = info[s].status
      BY <1>2, <1>t DEF TakeCurrentTask, SettleTurn, ReadEof, RecoverInterrupted, BindTask, InfoTypeOK,
                        Info
    <2>2. reader'[s].pc \notin {"recover", "done"} => reader[s].pc \notin {"recover", "done"}
      BY <1>2, <1>t DEF TakeCurrentTask, SettleTurn, ReadEof, RecoverInterrupted, NewReader
    <2> QED
      BY <1>k, <2>1, <2>2 DEF Awake
  <1>3. CASE Finalize(s)
    <2>1. reader'[s].pc \in {"recover", "done"}
      BY <1>3, <1>t DEF Finalize, NewReader
    <2>2. s \in registry => info'[s].status \notin ActiveStatus
      BY <1>3, <1>t DEF Finalize, UpdateStatus, InfoTypeOK, Info, FinalStatus, ActiveStatus
    <2> QED
      BY <1>k, <2>1, <2>2
  <1> QED
    BY <1>1, <1>2, <1>3 DEF ReaderStep, ReaderNext

\* The interface thread, which opens no session and writes to none.
LEMMA UiFrees ==
    ASSUME TypeInv, UiSilent, NoSends, Awake, UiNext
    PROVE  Frees /\ thread'[Scheduler] = thread[Scheduler]
  <1>t. /\ InfoTypeOK /\ ThreadsTypeOK /\ Scheduler \in Threads /\ Ui \in Threads /\ Scheduler # Ui
    BY DEF TypeInv, SessionsTypeOK, InfoTypeOK, Threads, Scheduler, Ui
  <1>q. ASSUME UNCHANGED <<registry, info, reader>> PROVE Frees
    BY <1>q DEF Frees, ActiveSessions, Awake
  <1>0. thread'[Scheduler] = thread[Scheduler]
    BY UiLinks DEF UiLink, UiMoves, UiLaunches, UiTables, UiFails, Removed
  <1>1. ASSUME NEW t \in Tasks, UiEnqueue(t) \/ UiCancel(t) PROVE Frees
    BY <1>1, <1>q DEF UiEnqueue, UiCancel, sessionVars
  <1>2. ASSUME NEW s \in Sessions, UiKill(s) PROVE Frees
    BY <1>2, <1>q DEF UiKill
  <1>3. CASE UiKillProcess \/ FailHeld(Ui)
    BY <1>0, <1>3, <1>q DEF UiKillProcess, FailHeld, sessionVars
  <1>4. ASSUME NEW s \in Sessions, UiRemove(s) PROVE Frees
    <2>1. /\ registry' = registry \ {s} /\ reader' = reader
          /\ \A r \in Sessions \ {s} : info'[r] = info[r]
      BY <1>4, <1>t DEF UiRemove, InfoTypeOK
    <2>2. registry \subseteq Sessions
      BY DEF TypeInv, SessionsTypeOK
    <2> QED
      BY <2>1, <2>2 DEF Frees, ActiveSessions, Awake
  <1>6. \A s \in Sessions : ~UiNextTarget(s) /\ ~UiSend(s) /\ \A c \in Contexts : ~UiCreate(s, c)
    BY DEF UiNextTarget, UiSend, UiCreate, Gives, UiSilent, NoSends
  <1>7. ~UiBroadcast /\ (SendNext(Ui) => FailHeld(Ui))
    BY DEF UiBroadcast, Gives, UiSilent, NoSends, SendNext, SendLookup, SendWrite, SendBroken,
           SendMark, At
  <1>8. ASSUME NEW policy \in Policies, UiSetConfig(policy) PROVE Frees
    BY <1>8, <1>q DEF UiSetConfig, sessionVars
  <1> QED
    BY <1>0, <1>1, <1>2, <1>3, <1>4, <1>6, <1>7, <1>8 DEF UiNext, UiContinue

\* No more sessions become active than the configuration of the tick allows.
Admits == Frees \/ Cardinality(ActiveSessions)' =< TickCap

LEMMA CapIsNumber == TypeInv => TickCap \in Nat
  BY PoliciesAssumption DEF TypeInv, ThreadsTypeOK, Thread, Threads, TickCap, Policy

\* The scheduler: it launches a worker, or marks one as busy, only where it has found room.
LEMMA SchedulerCap ==
    ASSUME TypeInv, LinkInv, CapInv, SchedulerNext
    PROVE  CapInv' /\ Admits
  <1>t. /\ InfoTypeOK /\ ThreadsTypeOK /\ Scheduler \in Threads /\ Ui \in Threads /\ Scheduler # Ui
        /\ registry \subseteq Sessions /\ reader \in [Sessions -> Reader]
    BY DEF TypeInv, SessionsTypeOK, InfoTypeOK, Threads, Scheduler, Ui
  <1>f. /\ IsFiniteSet(registry) /\ IsFiniteSet(ActiveSessions) /\ Awake /\ TickCap \in Nat
        /\ Cardinality(ActiveSessions) \in Nat
    BY ActiveFacts, CapIsNumber DEF CapInv
  <1>g. ASSUME NEW pc, Goto(Scheduler, pc),
               pc \in {"asleep", "count", "take", "find", "spawn", "start", "bind",
                       "lookup", "write", "mark", "fail", "ready", "kill"}
        PROVE  /\ thread'[Scheduler].pc = pc /\ thread'[Scheduler].sid = thread[Scheduler].sid
               /\ TickCap' = TickCap
    BY <1>g, <1>t, GotoFacts DEF TickCap
  <1>p. /\ Seeking = {"take", "find", "spawn"}
        /\ Working = {"start", "bind", "lookup", "write", "mark"}
    BY DEF Seeking, Working, Sendings
  <1>q. ASSUME UNCHANGED <<registry, reader>>,
               \A r \in Sessions : info'[r].status = info[r].status
        PROVE  Frees /\ ActiveSessions' = ActiveSessions
    <2>1. ActiveSessions' = ActiveSessions
      BY <1>q, <1>t DEF ActiveSessions
    <2> QED
      BY <1>q, <1>t, <1>f, <2>1 DEF Frees, Awake
  <1>v. UNCHANGED sessionVars =>
          UNCHANGED <<registry, reader>> /\ \A r \in Sessions : info'[r].status = info[r].status
    BY DEF sessionVars
  <1>1. CASE Tick \/ TakeNothing \/ FindNone \/ SpawnFails
    <2>1. \/ thread'[Scheduler].pc \notin Seeking \cup Working
          \/ /\ thread[Scheduler].pc \in Seeking /\ thread'[Scheduler].pc \in Seeking
             /\ TickCap' = TickCap
      BY <1>1, <1>t, <1>p, <1>g, TickFacts
         DEF Tick, TakeNothing, FindNone, SpawnFails, At, TypeInv, UserOK
    <2>2. Frees
      BY <1>1, <1>q, <1>v DEF Tick, TakeNothing, FindNone, SpawnFails
    <2> QED
      BY <1>f, <2>1, <2>2, FreesCap DEF Admits
  <1>2. CASE CountActive
    <2>1. /\ thread'[Scheduler].pc \in {"asleep", "take"}
          /\ thread'[Scheduler].pc = "take" => ~CapReached
          /\ TickCap' = TickCap
      BY <1>2, <1>g DEF CountActive
    <2>2. Frees /\ ActiveSessions' = ActiveSessions /\ registry' = registry
      BY <1>2, <1>q, <1>v DEF CountActive
    <2>3. thread'[Scheduler].pc = "take" => Cardinality(ActiveSessions) < TickCap
      BY <1>f, <2>1 DEF CapReached
    <2> QED
      BY <1>f, <1>p, <2>1, <2>2, <2>3 DEF CapInv, Admits, Frees
  <1>3. ASSUME NEW t \in Tasks, TakeTask(t) PROVE CapInv' /\ Admits
    <2>1. /\ thread[Scheduler].pc \in Seeking /\ thread'[Scheduler].pc \in Seeking
          /\ TickCap' = TickCap
      BY <1>3, <1>t, <1>p DEF TakeTask, AfterTake, TickCap, ThreadsTypeOK, Thread, At
    <2>2. Frees
      BY <1>3, <1>q, <1>v DEF TakeTask
    <2> QED
      BY <1>f, <2>1, <2>2, FreesCap DEF Admits
  <1>4. ASSUME NEW s \in Sessions, FindIdle(s) PROVE CapInv' /\ Admits
    <2>1. /\ thread[Scheduler].pc \in Seeking /\ thread'[Scheduler].pc = "start"
          /\ thread'[Scheduler].sid = s /\ TickCap' = TickCap
      BY <1>4, <1>t, <1>p DEF FindIdle, TickCap, ThreadsTypeOK, Thread, At
    <2>2. Frees /\ ActiveSessions' = ActiveSessions /\ registry' = registry
      BY <1>4, <1>q, <1>v DEF FindIdle
    <2>3. s \in ActiveSessions
      BY <1>4 DEF FindIdle, IsIdleFor, ActiveSessions, ActiveStatus
    <2>4. Slots' = ActiveSessions
      BY <2>1, <2>2, <2>3 DEF Slots
    <2> QED
      BY <1>f, <1>p, <2>1, <2>2, <2>4 DEF CapInv, Admits, Frees
  <1>5. ASSUME NEW s \in Sessions, SpawnWorker(s) PROVE CapInv' /\ Admits
    <2>1. /\ thread[Scheduler].pc \in Seeking /\ thread'[Scheduler].pc = "start"
          /\ thread'[Scheduler].sid = s /\ TickCap' = TickCap
      BY <1>5, <1>t, <1>p DEF SpawnWorker, TickCap, ThreadsTypeOK, Thread, At
    <2>2. /\ registry' = registry \cup {s} /\ reader[s].pc = "none"
          /\ info'[s].status = "Starting"
          /\ \A r \in Sessions \ {s} : info'[r] = info[r] /\ reader'[r] = reader[r]
      BY <1>5, <1>t DEF SpawnWorker, SpawnHeadless, InfoTypeOK
    <2>3. s \notin registry
      BY <2>2 DEF LinkInv, Launches
    <2>4. ActiveSessions' = ActiveSessions \cup {s} /\ s \notin ActiveSessions
      BY <1>t, <2>2, <2>3 DEF ActiveSessions, ActiveStatus
    <2>5. IsFiniteSet(registry') /\ Cardinality(ActiveSessions') = Cardinality(ActiveSessions) + 1
      BY <1>f, <2>2, <2>4, FS_AddElement
    <2>6. Slots' = ActiveSessions'
      BY <2>1, <2>4 DEF Slots
    <2>7. Cardinality(ActiveSessions') =< TickCap
      BY <1>f, <2>1, <2>5 DEF CapInv
    <2>8. Awake'
      BY <1>f, <1>t, <2>2 DEF Awake, ActiveStatus
    <2> QED
      BY <1>p, <2>1, <2>5, <2>6, <2>7, <2>8 DEF CapInv, Admits
  <1>6. CASE StartHeld \/ BindHeld
    <2>1. /\ thread[Scheduler].pc \in Working /\ thread'[Scheduler].pc \in Working
          /\ thread'[Scheduler].sid = thread[Scheduler].sid /\ TickCap' = TickCap
      BY <1>6, <1>p, <1>g DEF StartHeld, BindHeld, At
    <2>2. UNCHANGED <<registry, reader>> /\ \A r \in Sessions : info'[r].status = info[r].status
      BY <1>6, <1>t, <1>v DEF StartHeld, BindHeld, BindTask, InfoTypeOK, Info
    <2> QED
      BY <1>f, <1>q, <2>1, <2>2, FreesCap DEF Admits
  <1>7. CASE SendLookup(Scheduler) \/ SendWrite(Scheduler) \/ SendBroken(Scheduler)
    <2>1. \/ thread'[Scheduler].pc \notin Seeking \cup Working
          \/ /\ thread[Scheduler].pc \in Working /\ thread'[Scheduler].pc \in Working
             /\ thread'[Scheduler].sid = thread[Scheduler].sid /\ TickCap' = TickCap
      BY <1>7, <1>p, <1>g DEF SendLookup, SendWrite, SendBroken, SendError, At
    <2>2. Frees
      BY <1>7, <1>q, <1>v DEF SendLookup, SendWrite, SendBroken
    <2> QED
      BY <1>f, <2>1, <2>2, FreesCap DEF Admits
  <1>8. CASE FailHeld(Scheduler)
    <2>1. thread'[Scheduler].pc \notin Seeking \cup Working
      BY <1>8, <1>t, <1>p, FinishFacts DEF FailHeld
    <2>2. Frees
      BY <1>8, <1>q, <1>v DEF FailHeld
    <2> QED
      BY <1>f, <2>1, <2>2, FreesCap DEF Admits
  <1>9. CASE SendMark(Scheduler)
    <2>1. /\ thread[Scheduler].pc \in Working /\ thread'[Scheduler].pc \notin Seeking \cup Working
      BY <1>9, <1>t, <1>p, FinishFacts DEF SendMark, At
    <2>2. /\ registry' = registry /\ reader' = reader
          /\ \A r \in Sessions : r # thread[Scheduler].sid => info'[r] = info[r]
          /\ \A r \in registry : r = thread[Scheduler].sid => info'[r].status = "Busy"
      BY <1>9, <1>t DEF SendMark, UpdateStatus, InfoTypeOK, Info
    <2>3. ActiveSessions' \subseteq Slots
      BY <1>t, <2>2 DEF ActiveSessions, Slots
    <2>4. Cardinality(ActiveSessions') =< TickCap
      <3>1. IsFiniteSet(Slots) /\ Cardinality(Slots) \in Nat /\ Cardinality(Slots) =< TickCap
        BY <1>f, <2>1, ActiveFacts DEF CapInv
      <3>2. /\ Cardinality(ActiveSessions') =< Cardinality(Slots)
            /\ Cardinality(ActiveSessions') \in Nat
        BY <2>3, <3>1, FS_Subset, FS_CardinalityType
      <3> QED
        BY <1>f, <3>1, <3>2
    <2>5. Awake'
      BY <1>f, <1>t, <2>2 DEF Awake, ActiveStatus
    <2> QED
      BY <1>f, <2>1, <2>2, <2>4, <2>5 DEF CapInv, Admits
  <1> QED
    BY <1>1, <1>2, <1>3, <1>4, <1>5, <1>6, <1>7, <1>8, <1>9 DEF SchedulerNext, SendNext

LEMMA CapInit == Start => CapInv
  <1> SUFFICES ASSUME Start PROVE CapInv
    OBVIOUS
  <1>1. registry = {} /\ thread[Scheduler].pc = "asleep"
    BY DEF Start, SessionsInit, NewThread, Threads
  <1>2. ActiveSessions = {}
    BY <1>1 DEF ActiveSessions
  <1> QED
    BY <1>1, <1>2, FS_EmptySet DEF CapInv, Awake, Seeking, Working, Sendings

LEMMA CapStep ==
    TypeInv /\ LinkInv /\ PipeInv /\ CapInv /\ NoSends /\ [Next]_vars => CapInv' /\ Admits
  <1> SUFFICES ASSUME TypeInv, LinkInv, PipeInv, CapInv, NoSends, [Next]_vars
               PROVE  CapInv' /\ Admits
    OBVIOUS
  <1>s. UiSilent /\ Awake /\ TickCap \in Nat
    BY CapIsNumber DEF PipeInv, CapInv
  <1>k. ASSUME Frees, thread'[Scheduler] = thread[Scheduler] PROVE CapInv' /\ Admits
    BY <1>k, <1>s, FreesCap DEF TickCap, Admits
  <1>q. ASSUME UNCHANGED sessionVars PROVE Frees
    BY <1>q, <1>s DEF Frees, ActiveSessions, Awake, sessionVars
  <1>1. CASE UNCHANGED vars
    BY <1>1, <1>k, <1>q DEF vars, sessionVars
  <1>2. ASSUME NEW s \in Sessions, AgentStep(s) PROVE CapInv' /\ Admits
    BY <1>2, <1>k, <1>q DEF AgentStep
  <1>3. ASSUME NEW s \in Sessions, ReaderStep(s) PROVE CapInv' /\ Admits
    <2>1. thread' = thread
      BY <1>3 DEF ReaderStep
    <2> QED
      BY <1>3, <1>k, <1>s, <2>1, ReaderFrees
  <1>4. CASE UiNext
    BY <1>4, <1>k, <1>s, UiFrees
  <1> QED
    BY <1>1, <1>2, <1>3, <1>4, SchedulerCap DEF Next

\* A step that makes more sessions active makes no more of them active than the cap.
LEMMA AdmitsWithinCap ==
    CapInv /\ Admits =>
        (Cardinality(ActiveSessions)' > Cardinality(ActiveSessions)
            => Cardinality(ActiveSessions)' =< TickCap)
  <1> SUFFICES ASSUME CapInv, Admits
               PROVE  Cardinality(ActiveSessions)' > Cardinality(ActiveSessions)
                         => Cardinality(ActiveSessions)' =< TickCap
    OBVIOUS
  <1>1. CASE Frees
    <2>1. /\ Cardinality(ActiveSessions) \in Nat /\ Cardinality(ActiveSessions') \in Nat
          /\ Cardinality(ActiveSessions') =< Cardinality(ActiveSessions)
      BY <1>1, ActiveFacts, FS_Subset, FS_CardinalityType DEF CapInv, Frees
    <2> QED
      BY <2>1
  <1> QED
    BY <1>1 DEF Admits

\* Where the user opens and writes to no session, no step makes one more session active than
\* max_concurrent allows in the configuration the tick has read, however the user changes it meanwhile:
\* also while workers crash, are removed, and are marked busy after they ended.
THEOREM CapIsRespected ==
    ASSUME UserCommands \cap {"create", "send", "broadcast"} = {}
    PROVE  Spec => CapRespected
  <1>1. NoSends
    BY DEF NoSends
  <1>2. /\ TypeInv /\ LinkInv /\ PipeInv /\ [Next]_vars => PipeInv'
        /\ TypeInv /\ LinkInv /\ PipeInv /\ CapInv /\ [Next]_vars => CapInv' /\ Admits
    BY <1>1, PipeStep, CapStep
  <1>3. TypeInv /\ LinkInv /\ PipeInv /\ CapInv /\ [Next]_vars =>
           (Cardinality(ActiveSessions)' > Cardinality(ActiveSessions)
               => Cardinality(ActiveSessions)' =< TickCap)
    BY <1>2, AdmitsWithinCap
  <1> QED
    BY InitStarts, TypeInit, TypeStep, OwnerInit, OwnerStep, LinkInit, LinkStep, PipeInit, CapInit, <1>2, <1>3,
       PTL DEF Spec, CapRespected

-----------------------------------------------------------------------------
(* A worker that is reported as ended, or removed, has exited: nothing     *)
(* runs behind the back of the recovery.                                   *)

NoLinger == "linger" \notin AgentFaults

Gone(s) ==
    /\ proc[s] # "closing"
    /\ Exited(s) => stdin[s] = <<>>
    /\ reader[s].pc \in {"recover", "done"} => Exited(s)
    /\ s \in registry => proc[s] # "none" /\ (info[s].status \in TerminalStatus => Exited(s))
    /\ s \notin registry => reader[s].pc = "none" \/ Exited(s)

GoneInv == \A s \in Sessions : Gone(s)

\* What every step but a launch does to a session.
Fades(r) ==
    /\ Exited(r) => Exited(r)'
    /\ Exited(r)' => stdin'[r] = <<>>
    /\ proc'[r] # "closing"
    /\ proc'[r] = "none" => proc[r] = "none"
    /\ reader'[r].pc \in {"recover", "done"} => reader[r].pc \in {"recover", "done"} \/ Exited(r)
    /\ reader'[r].pc # "none" => reader[r].pc # "none"
    /\ r \in registry' =>
          /\ r \in registry
          /\ info'[r].status \in TerminalStatus => info[r].status \in TerminalStatus \/ Exited(r)
    /\ r \notin registry' => r \notin registry \/ Exited(r)'

LEMMA FadesGone == ASSUME NEW r, Gone(r), Fades(r) PROVE Gone(r)'
  BY DEF Gone, Fades

\* Nothing happens to the processes and the readers, and no session is entered or ends.
LEMMA KeepsGone ==
    ASSUME GoneInv, UNCHANGED <<proc, stdin, reader>>, registry' = registry,
           \A r \in Sessions : info'[r].status = info[r].status \/ info'[r].status = "Busy"
    PROVE  GoneInv'
  <1>1. "Busy" \notin TerminalStatus
    BY DEF TerminalStatus
  <1> QED
    BY <1>1 DEF GoneInv, Gone, Exited

LEMMA AgentGone ==
    ASSUME TypeInv, GoneInv, NoLinger, NEW s \in Sessions, AgentStep(s)
    PROVE  GoneInv'
  <1>t. AgentsTypeOK
    BY DEF TypeInv
  <1>f. registry' = registry /\ info' = info /\ reader' = reader
    BY DEF AgentStep, sessionVars
  <1>1. \A r \in Sessions : proc[r] # "closing" /\ (Exited(r) => stdin[r] = <<>>)
    BY DEF GoneInv, Gone
  <1>2. \A r \in Sessions : /\ Exited(r) => Exited(r)'
                            /\ Exited(r)' => stdin'[r] = <<>>
                            /\ proc'[r] # "closing"
                            /\ proc'[r] = "none" => proc[r] = "none"
    BY <1>1, <1>t DEF AgentStep, AgentNext, AgentInit, AgentSpeak, AgentReply, AgentCrash, AgentExit,
                      AgentClose, AgentCloseEnd, Die, Exited, AgentsTypeOK, NoLinger
  <1>3. \A r \in Sessions : Fades(r)
    BY <1>f, <1>2 DEF Fades
  <1> QED
    BY <1>3, FadesGone DEF GoneInv

LEMMA ReaderGone ==
    ASSUME TypeInv, GoneInv, NEW s \in Sessions, ReaderStep(s)
    PROVE  GoneInv'
  <1>t. InfoTypeOK /\ reader \in [Sessions -> Reader]
    BY DEF TypeInv, SessionsTypeOK, InfoTypeOK
  <1>f. proc' = proc /\ stdin' = stdin /\ registry' = registry
    BY DEF ReaderStep, ReaderNext, ReadAfterStop, ReadInit, ReadAssistant, ReadResult, ReadLine,
           TakeCurrentTask, SettleTurn, ReadEof, Finalize, RecoverInterrupted, agentVars
  <1>l. ReaderLink(s)
    BY ReaderLinks
  <1>o. \A r \in Sessions \ {s} : info'[r] = info[r] /\ reader'[r] = reader[r]
    BY <1>l DEF ReaderLink, ReaderMoves, ReaderTakes, ReaderSettles, ReaderEnds, ReaderRecovers,
                OthersKept
  <1>n. reader[s].pc # "none" /\ reader'[s].pc # "none"
    BY <1>l DEF ReaderLink, ReaderMoves, ReaderTakes, ReaderSettles, ReaderEnds, ReaderRecovers
  <1>1. reader'[s].pc \in {"recover", "done"} => reader[s].pc \in {"recover", "done"} \/ Exited(s)
    <2>1. reader'[s].pc \in {"recover", "done"} => reader[s].pc \in {"reap", "recover"}
      BY <1>l DEF ReaderLink, ReaderMoves, ReaderTakes, ReaderSettles, ReaderEnds, ReaderRecovers
    <2>2. reader[s].pc = "reap" => Finalize(s)
      BY DEF ReaderStep, ReaderNext, ReadAfterStop, ReadInit, ReadAssistant, ReadResult, ReadLine,
             TakeCurrentTask, SettleTurn, ReadEof, RecoverInterrupted
    <2> QED
      BY <2>1, <2>2 DEF Finalize, GoneInv, Gone
  <1>2. s \in registry => \/ info'[s].status \notin TerminalStatus
                          \/ info'[s].status = info[s].status
                          \/ Exited(s)
    BY <1>t DEF ReaderStep, ReaderNext, ReadAfterStop, ReadInit, ReadAssistant, ReadResult, ReadLine,
                TakeCurrentTask, SettleTurn, ReadEof, Finalize, RecoverInterrupted, UpdateStatus,
                BindTask, InfoTypeOK, Info, TerminalStatus, GoneInv, Gone
  <1>3. Fades(s)
    BY <1>f, <1>n, <1>1, <1>2 DEF Fades, Exited, GoneInv, Gone
  <1>4. \A r \in Sessions \ {s} : Fades(r)
    BY <1>f, <1>o DEF Fades, Exited, GoneInv, Gone
  <1> QED
    BY <1>3, <1>4, FadesGone DEF GoneInv

\* A session that is killed has exited.
LEMMA KillFades ==
    ASSUME TypeInv, GoneInv, NEW s \in Sessions, Kill(s)
    PROVE  /\ \A r \in Sessions : /\ Exited(r) => Exited(r)'
                                  /\ Exited(r)' => stdin'[r] = <<>>
                                  /\ proc'[r] # "closing"
                                  /\ proc'[r] = "none" => proc[r] = "none"
           /\ proc[s] # "none" => Exited(s)'
  <1>t. AgentsTypeOK
    BY DEF TypeInv
  <1>1. \A r \in Sessions : proc[r] # "closing" /\ (Exited(r) => stdin[r] = <<>>)
    BY DEF GoneInv, Gone
  <1> QED
    BY <1>t, <1>1 DEF Kill, Die, Exited, AgentsTypeOK, ProcState

LEMMA UiGone ==
    ASSUME TypeInv, GoneInv, UiSilent, NoSends, UiNext
    PROVE  GoneInv'
  <1>t. InfoTypeOK
    BY DEF TypeInv, SessionsTypeOK, InfoTypeOK
  <1>q. ASSUME UNCHANGED <<agentVars, registry, info, reader>> PROVE GoneInv'
    BY <1>q, KeepsGone DEF agentVars
  <1>1. ASSUME NEW t \in Tasks, UiEnqueue(t) \/ UiCancel(t) PROVE GoneInv'
    BY <1>1, <1>q DEF UiEnqueue, UiCancel, sessionVars
  <1>2. ASSUME NEW s \in Sessions, UiKill(s) PROVE GoneInv'
    BY <1>2, <1>q DEF UiKill
  <1>3. CASE FailHeld(Ui)
    BY <1>3, <1>q DEF FailHeld, sessionVars
  <1>4. CASE UiKillProcess
    <2>1. registry' = registry /\ info' = info /\ reader' = reader
      BY <1>4 DEF UiKillProcess, sessionVars
    <2>2. thread[Ui].sid \in Sessions \/ UNCHANGED <<proc, stdin>>
      BY <1>4, NoSessionAssumption
         DEF UiKillProcess, Kill, Die, TypeInv, AgentsTypeOK, ThreadsTypeOK, Thread, Threads
    <2>3. CASE UNCHANGED <<proc, stdin>>
      BY <2>1, <2>3, KeepsGone
    <2>4. CASE thread[Ui].sid \in Sessions
      <3>1. \A r \in Sessions : Fades(r)
        BY <1>4, <2>1, <2>4, KillFades DEF UiKillProcess, Fades
      <3> QED
        BY <3>1, FadesGone DEF GoneInv
    <2> QED
      BY <2>2, <2>3, <2>4
  <1>5. ASSUME NEW s \in Sessions, UiRemove(s) PROVE GoneInv'
    <2>1. /\ registry' = registry \ {s} /\ reader' = reader /\ s \in registry
          /\ \A r \in Sessions \ {s} : info'[r] = info[r]
      BY <1>5, <1>t DEF UiRemove, InfoTypeOK
    <2>2. /\ \A r \in Sessions : /\ Exited(r) => Exited(r)'
                                 /\ Exited(r)' => stdin'[r] = <<>>
                                 /\ proc'[r] # "closing"
                                 /\ proc'[r] = "none" => proc[r] = "none"
          /\ Exited(s)'
      <3>1. CASE info[s].status \in TerminalStatus
        BY <1>5, <2>1, <3>1 DEF UiRemove, Exited, GoneInv, Gone
      <3>2. CASE info[s].status \notin TerminalStatus
        BY <1>5, <2>1, <3>2, KillFades DEF UiRemove, GoneInv, Gone
      <3> QED
        BY <3>1, <3>2
    <2>3. \A r \in Sessions : Fades(r)
      BY <2>1, <2>2 DEF Fades
    <2> QED
      BY <2>3, FadesGone DEF GoneInv
  <1>6. \A s \in Sessions : ~UiNextTarget(s) /\ ~UiSend(s) /\ \A c \in Contexts : ~UiCreate(s, c)
    BY DEF UiNextTarget, UiSend, UiCreate, Gives, UiSilent, NoSends
  <1>7. ~UiBroadcast /\ (SendNext(Ui) => FailHeld(Ui))
    BY DEF UiBroadcast, Gives, UiSilent, NoSends, SendNext, SendLookup, SendWrite, SendBroken,
           SendMark, At
  <1>8. ASSUME NEW policy \in Policies, UiSetConfig(policy) PROVE GoneInv'
    BY <1>8, <1>q DEF UiSetConfig, sessionVars
  <1> QED
    BY <1>1, <1>2, <1>3, <1>4, <1>5, <1>6, <1>7, <1>8 DEF UiNext, UiContinue

LEMMA SchedulerGone ==
    ASSUME TypeInv, LinkInv, PipeInv, GoneInv, SchedulerNext
    PROVE  GoneInv'
  <1>t. /\ InfoTypeOK /\ AgentsTypeOK /\ reader \in [Sessions -> Reader]
    BY DEF TypeInv, SessionsTypeOK, InfoTypeOK
  <1>q. ASSUME UNCHANGED agentVars, UNCHANGED sessionVars PROVE GoneInv'
    BY <1>q, KeepsGone DEF agentVars, sessionVars
  <1>1. CASE \/ Tick \/ CountActive \/ TakeNothing \/ FindNone \/ SpawnFails \/ StartHeld
             \/ SendLookup(Scheduler) \/ SendBroken(Scheduler) \/ FailHeld(Scheduler)
    BY <1>1, <1>q DEF Tick, CountActive, TakeNothing, FindNone, SpawnFails, StartHeld, SendLookup,
                      SendBroken, FailHeld
  <1>2. ASSUME NEW t \in Tasks, TakeTask(t) PROVE GoneInv'
    BY <1>2, <1>q DEF TakeTask
  <1>3. ASSUME NEW s \in Sessions, FindIdle(s) PROVE GoneInv'
    BY <1>3, <1>q DEF FindIdle
  <1>4. CASE BindHeld \/ SendMark(Scheduler)
    <2>1. UNCHANGED <<proc, stdin, reader>> /\ registry' = registry
      BY <1>4 DEF BindHeld, SendMark, agentVars
    <2>2. \A r \in Sessions : info'[r].status = info[r].status \/ info'[r].status = "Busy"
      BY <1>4, <1>t DEF BindHeld, SendMark, BindTask, UpdateStatus, InfoTypeOK, Info
    <2> QED
      BY <2>1, <2>2, KeepsGone
  <1>5. CASE SendWrite(Scheduler)
    <2>1. /\ ~Exited(thread[Scheduler].sid) /\ proc' = proc
          /\ registry' = registry /\ info' = info /\ reader' = reader
          /\ \A r \in Sessions : r # thread[Scheduler].sid => stdin'[r] = stdin[r]
      BY <1>5, <1>t DEF SendWrite, WriteTurn, sessionVars, AgentsTypeOK
    <2> QED
      BY <2>1 DEF GoneInv, Gone, Exited
  <1>6. ASSUME NEW s \in Sessions, SpawnWorker(s) PROVE GoneInv'
    <2>1. /\ registry' = registry \cup {s} /\ reader[s].pc = "none" /\ reader'[s].pc = "read"
          /\ info'[s].status = "Starting" /\ proc'[s] = "booting" /\ stdin' = stdin
          /\ \A r \in Sessions \ {s} :
                info'[r] = info[r] /\ reader'[r] = reader[r] /\ proc'[r] = proc[r]
      BY <1>6, <1>t DEF SpawnWorker, SpawnHeadless, StartProcess, NewReader, InfoTypeOK, AgentsTypeOK
    <2>2. Gone(s)'
      BY <2>1 DEF Gone, Exited, TerminalStatus
    <2>3. \A r \in Sessions \ {s} : Gone(r)'
      BY <2>1 DEF GoneInv, Gone, Exited
    <2> QED
      BY <2>2, <2>3 DEF GoneInv
  <1> QED
    BY <1>1, <1>2, <1>3, <1>4, <1>5, <1>6 DEF SchedulerNext, SendNext

LEMMA GoneInit == Start => GoneInv
  BY DEF Start, AgentsInit, SessionsInit, NewReader, GoneInv, Gone, Exited

LEMMA GoneStep ==
    TypeInv /\ LinkInv /\ PipeInv /\ GoneInv /\ NoSends /\ NoLinger /\ [Next]_vars => GoneInv'
  <1> SUFFICES ASSUME TypeInv, LinkInv, PipeInv, GoneInv, NoSends, NoLinger, [Next]_vars
               PROVE  GoneInv'
    OBVIOUS
  <1>1. CASE UNCHANGED vars
    BY <1>1, KeepsGone DEF vars
  <1>2. UiSilent
    BY DEF PipeInv
  <1> QED
    BY <1>1, <1>2, AgentGone, ReaderGone, UiGone, SchedulerGone DEF Next

\* A turn in the stdin of a process is that of the task its session may still settle.
TurnsAreClaimed == \A s \in Sessions, t \in Tasks : TurnsOf(s, t) # {} => Claims(s, t)

LEMMA ClaimedTurns == TypeInv /\ PipeInv /\ GoneInv => TurnsAreClaimed
  <1> SUFFICES ASSUME TypeInv, PipeInv, GoneInv, NEW s \in Sessions, NEW t \in Tasks,
                      TurnsOf(s, t) # {}
               PROVE  Claims(s, t)
    BY DEF TurnsAreClaimed
  <1>1. stdin[s] \in Seq(Turn)
    BY DEF TypeInv, AgentsTypeOK
  <1>2. PICK i \in DOMAIN stdin[s] : stdin[s][i] = t
    BY DEF TurnsOf
  <1>3. stdin[s] # <<>>
    BY <1>1, <1>2
  <1>4. ~Exited(s) /\ reader[s].pc # "none"
    BY <1>3 DEF GoneInv, Gone, PipeInv, SessionPipe, Unused
  <1>5. s \in registry /\ reader[s].pc \notin {"recover", "done"}
    BY <1>4 DEF GoneInv, Gone
  <1>6. stdin[s] = <<info[s].current_task>>
    BY <1>3, <1>5 DEF PipeInv, SessionPipe, Current
  <1>7. info[s].current_task = t
    BY <1>2, <1>6
  <1> QED
    BY <1>5, <1>7 DEF Claims

\* Where the user writes to no worker and an agent whose stdout has ended has exited, no two
\* processes work on a task at once: not while it is recovered, requeued and started again.
THEOREM NoTaskRunsTwice ==
    ASSUME UserCommands \cap {"create", "send", "broadcast"} = {}, "linger" \notin AgentFaults
    PROVE  Spec => []NoDuplicateExecution
  <1>1. NoSends /\ NoLinger
    BY DEF NoSends, NoLinger
  <1>2. OwnerInv /\ TurnsAreClaimed => NoDuplicateExecution
    BY OwnerFacts DEF TurnsAreClaimed, NoDuplicateExecution
  <1>3. /\ TypeInv /\ LinkInv /\ PipeInv /\ [Next]_vars => PipeInv'
        /\ TypeInv /\ LinkInv /\ PipeInv /\ GoneInv /\ [Next]_vars => GoneInv'
    BY <1>1, PipeStep, GoneStep
  <1> QED
    BY InitStarts, TypeInit, TypeStep, OwnerInit, OwnerStep, LinkInit, LinkStep, PipeInit, GoneInit,
       ClaimedTurns, <1>2, <1>3, PTL DEF Spec

\* Under the same conditions the prompt of a canceled task is never handed to an agent.
THEOREM CanceledIsNotSent ==
    ASSUME UserCommands \cap {"create", "send", "broadcast"} = {}, "linger" \notin AgentFaults
    PROVE  Spec => CanceledNeverSent
  <1>1. NoSends /\ NoLinger
    BY DEF NoSends, NoLinger
  <1>2. TypeInv /\ OwnerInv /\ OwnerInv' /\ TurnsAreClaimed' /\ [Next]_vars =>
          [\A t \in WithStatus("Canceled"), s \in Sessions : TurnsOf(s, t)' \subseteq TurnsOf(s, t)]_vars
    <2> SUFFICES ASSUME TypeInv, OwnerInv, OwnerInv', TurnsAreClaimed', [Next]_vars,
                        NEW t \in Tasks, tasks[t].status = "Canceled", NEW s \in Sessions
                 PROVE  TurnsOf(s, t)' = {}
      BY DEF WithStatus
    <2>1. ~Claims(s, t)
      BY OwnerFacts
    <2>2. ~Claims(s, t)'
      <3>1. CASE NoNewClaims
        BY <2>1, <3>1 DEF NoNewClaims
      <3>2. CASE tasks' = tasks
        BY <3>2 DEF OwnerInv, SingleClaim
      <3> QED
        BY <3>1, <3>2, StepKinds DEF EnvStep, QuietStep, TakeStep, StartStep, BindStep, FailStep
    <2> QED
      BY <2>2 DEF TurnsAreClaimed
  <1>3. /\ TypeInv /\ LinkInv /\ PipeInv /\ [Next]_vars => PipeInv'
        /\ TypeInv /\ LinkInv /\ PipeInv /\ GoneInv /\ [Next]_vars => GoneInv'
    BY <1>1, PipeStep, GoneStep
  <1> QED
    BY InitStarts, TypeInit, TypeStep, OwnerInit, OwnerStep, LinkInit, LinkStep, PipeInit, GoneInit,
       ClaimedTurns, <1>2, <1>3, PTL DEF Spec, CanceledNeverSent

-----------------------------------------------------------------------------
(* Where workers only end by a crash, or by being removed, every end of a  *)
(* listed worker is a crash, and its task is recovered.                    *)

OnlyCrashes == "kill" \notin UserCommands /\ AgentFaults \cap {"exit", "linger"} = {}

Life(s) ==
    /\ proc[s] \notin {"closing", "exit0"}
    /\ reader[s].pc \in {"recover", "done"} => Exited(s)
    /\ s \in registry => s \notin stop /\ ~reader[s].requested_stop
    /\ s \in stop => reader[s].pc # "none"

LifeInv == \A s \in Sessions : Life(s)

\* What every step but a launch does to a session.
Lasts(r) ==
    /\ proc'[r] \notin {"closing", "exit0"}
    /\ Exited(r) => Exited(r)'
    /\ reader'[r].pc \in {"recover", "done"} => reader[r].pc \in {"recover", "done"} \/ Exited(r)
    /\ reader'[r].pc = "none" => reader[r].pc = "none"
    /\ r \in registry' =>
          /\ r \in registry
          /\ r \in stop' => r \in stop
          /\ reader'[r].requested_stop => reader[r].requested_stop \/ r \in stop
    /\ r \in stop' => r \in stop \/ reader[r].pc # "none"

LEMMA LastsLife == ASSUME NEW r, Life(r), Lasts(r) PROVE Life(r)'
  BY DEF Life, Lasts

\* A launch.
LEMMA LaunchLife ==
    ASSUME TypeInv, LifeInv, NEW s \in Sessions, NEW c \in Contexts, SpawnHeadless(s, c), stop' = stop
    PROVE  LifeInv'
  <1>1. /\ registry' = registry \cup {s} /\ reader[s].pc = "none" /\ reader'[s] = NewReader("read")
        /\ proc'[s] = "booting"
        /\ \A r \in Sessions \ {s} : reader'[r] = reader[r] /\ proc'[r] = proc[r]
    BY DEF SpawnHeadless, StartProcess, TypeInv, AgentsTypeOK, SessionsTypeOK
  <1>2. Life(s)'
    BY <1>1 DEF LifeInv, Life, NewReader
  <1>3. \A r \in Sessions \ {s} : Life(r)'
    BY <1>1 DEF LifeInv, Life, Exited
  <1> QED
    BY <1>2, <1>3 DEF LifeInv

LEMMA AgentLife ==
    ASSUME TypeInv, LifeInv, OnlyCrashes, NEW s \in Sessions, AgentStep(s)
    PROVE  LifeInv'
  <1>t. AgentsTypeOK
    BY DEF TypeInv
  <1>f. registry' = registry /\ stop' = stop /\ reader' = reader
    BY DEF AgentStep, sessionVars
  <1>1. \A r \in Sessions : proc[r] \notin {"closing", "exit0"}
    BY DEF LifeInv, Life
  <1>2. \A r \in Sessions : proc'[r] \notin {"closing", "exit0"} /\ (Exited(r) => Exited(r)')
    BY <1>1, <1>t DEF AgentStep, AgentNext, AgentInit, AgentSpeak, AgentReply, AgentCrash, AgentExit,
                      AgentClose, AgentCloseEnd, Die, Exited, AgentsTypeOK, OnlyCrashes
  <1>3. \A r \in Sessions : Lasts(r)
    BY <1>f, <1>2 DEF Lasts
  <1> QED
    BY <1>3, LastsLife DEF LifeInv

LEMMA ReaderLife ==
    ASSUME TypeInv, LifeInv, NEW s \in Sessions, ReaderStep(s)
    PROVE  LifeInv'
  <1>t. reader \in [Sessions -> Reader]
    BY DEF TypeInv, SessionsTypeOK
  <1>f. proc' = proc /\ registry' = registry /\ stop' = stop
    BY DEF ReaderStep, ReaderNext, ReadAfterStop, ReadInit, ReadAssistant, ReadResult, ReadLine,
           TakeCurrentTask, SettleTurn, ReadEof, Finalize, RecoverInterrupted, agentVars
  <1>l. ReaderLink(s)
    BY ReaderLinks
  <1>o. \A r \in Sessions \ {s} : reader'[r] = reader[r]
    BY <1>l DEF ReaderLink, ReaderMoves, ReaderTakes, ReaderSettles, ReaderEnds, ReaderRecovers,
                OthersKept
  <1>n. reader'[s].pc # "none"
    BY <1>l DEF ReaderLink, ReaderMoves, ReaderTakes, ReaderSettles, ReaderEnds, ReaderRecovers
  <1>1. reader'[s].pc \in {"recover", "done"} => reader[s].pc \in {"recover", "done"} \/ Exited(s)
    <2>1. reader'[s].pc \in {"recover", "done"} => reader[s].pc \in {"reap", "recover"}
      BY <1>l DEF ReaderLink, ReaderMoves, ReaderTakes, ReaderSettles, ReaderEnds, ReaderRecovers
    <2>2. reader[s].pc = "reap" => Finalize(s)
      BY DEF ReaderStep, ReaderNext, ReadAfterStop, ReadInit, ReadAssistant, ReadResult, ReadLine,
             TakeCurrentTask, SettleTurn, ReadEof, RecoverInterrupted
    <2> QED
      BY <2>1, <2>2 DEF Finalize, LifeInv, Life
  <1>2. reader'[s].requested_stop => reader[s].requested_stop \/ s \in stop
    BY <1>t DEF ReaderStep, ReaderNext, ReadAfterStop, ReadInit, ReadAssistant, ReadResult,
                TakeCurrentTask, SettleTurn, ReadEof, Finalize, RecoverInterrupted, NewReader, Reader
  <1>3. Lasts(s)
    BY <1>f, <1>n, <1>1, <1>2 DEF Lasts, Exited, LifeInv, Life
  <1>4. \A r \in Sessions \ {s} : Lasts(r)
    BY <1>f, <1>o DEF Lasts, Exited, LifeInv, Life
  <1> QED
    BY <1>3, <1>4, LastsLife DEF LifeInv

LEMMA KillLasts ==
    ASSUME TypeInv, LifeInv, NEW s, Kill(s)
    PROVE  \A r \in Sessions : proc'[r] \notin {"closing", "exit0"} /\ (Exited(r) => Exited(r)')
  <1>t. AgentsTypeOK
    BY DEF TypeInv
  <1>1. \A r \in Sessions : proc[r] \notin {"closing", "exit0"}
    BY DEF LifeInv, Life
  <1> QED
    BY <1>t, <1>1 DEF Kill, Die, Exited, AgentsTypeOK

\* Nothing happens to the processes, the readers and the stop flags.
LEMMA KeepsLife ==
    ASSUME LifeInv, UNCHANGED <<proc, reader>>, registry' = registry, stop' = stop
    PROVE  LifeInv'
  BY DEF LifeInv, Life, Exited

LEMMA UiLife ==
    ASSUME TypeInv, LinkInv, LifeInv, OnlyCrashes, UiNext
    PROVE  LifeInv'
  <1>q. ASSUME UNCHANGED proc, UNCHANGED sessionVars PROVE LifeInv'
    BY <1>q, KeepsLife DEF sessionVars
  <1>1. ASSUME NEW t \in Tasks, UiEnqueue(t) \/ UiCancel(t) PROVE LifeInv'
    BY <1>1, <1>q DEF UiEnqueue, UiCancel, agentVars
  <1>2. ASSUME NEW s \in Sessions, NEW c \in Contexts, UiCreate(s, c) PROVE LifeInv'
    BY <1>2, LaunchLife DEF UiCreate
  <1>3. ASSUME NEW s \in Sessions, UiSend(s) \/ UiNextTarget(s) PROVE LifeInv'
    BY <1>3, <1>q DEF UiSend, UiNextTarget, agentVars
  <1>4. CASE UiBroadcast \/ SendNext(Ui)
    <2>1. CASE SendMark(Ui)
      BY <2>1, KeepsLife DEF SendMark, agentVars
    <2> QED
      BY <1>4, <1>q, <2>1 DEF UiBroadcast, SendNext, SendLookup, SendWrite, SendBroken, FailHeld,
                              agentVars
  <1>5. \A s \in Sessions : ~UiKill(s)
    BY DEF UiKill, Gives, OnlyCrashes
  <1>6. CASE UiKillProcess
    <2>1. \A r \in Sessions : Lasts(r)
      BY <1>6, KillLasts DEF UiKillProcess, sessionVars, Lasts
    <2> QED
      BY <2>1, LastsLife DEF LifeInv
  <1>7. ASSUME NEW s \in Sessions, UiRemove(s) PROVE LifeInv'
    <2>1. /\ registry' = registry \ {s} /\ reader' = reader /\ s \in registry
          /\ stop' = stop \/ stop' = stop \cup {s}
          /\ UNCHANGED proc \/ Kill(s)
      BY <1>7 DEF UiRemove
    <2>2. reader[s].pc # "none"
      BY <2>1 DEF LinkInv, Launches
    <2>3. \A r \in Sessions : proc'[r] \notin {"closing", "exit0"} /\ (Exited(r) => Exited(r)')
      <3>1. CASE UNCHANGED proc
        BY <3>1 DEF LifeInv, Life, Exited
      <3> QED
        BY <2>1, <3>1, KillLasts
    <2>4. \A r \in Sessions : Lasts(r)
      BY <2>1, <2>2, <2>3 DEF Lasts
    <2> QED
      BY <2>4, LastsLife DEF LifeInv
  <1>8. ASSUME NEW policy \in Policies, UiSetConfig(policy) PROVE LifeInv'
    BY <1>8, <1>q DEF UiSetConfig, agentVars
  <1> QED
    BY <1>1, <1>2, <1>3, <1>4, <1>5, <1>6, <1>7, <1>8 DEF UiNext, UiContinue

LEMMA SchedulerLife ==
    ASSUME TypeInv, LifeInv, SchedulerNext
    PROVE  LifeInv'
  <1>q. ASSUME UNCHANGED proc, UNCHANGED sessionVars PROVE LifeInv'
    BY <1>q, KeepsLife DEF sessionVars
  <1>1. CASE \/ Tick \/ CountActive \/ TakeNothing \/ FindNone \/ SpawnFails \/ StartHeld
             \/ SendLookup(Scheduler) \/ SendWrite(Scheduler) \/ SendBroken(Scheduler)
             \/ FailHeld(Scheduler)
    BY <1>1, <1>q DEF Tick, CountActive, TakeNothing, FindNone, SpawnFails, StartHeld, SendLookup,
                      SendWrite, SendBroken, FailHeld, agentVars
  <1>2. ASSUME NEW t \in Tasks, TakeTask(t) PROVE LifeInv'
    BY <1>2, <1>q DEF TakeTask, agentVars
  <1>3. ASSUME NEW s \in Sessions, FindIdle(s) PROVE LifeInv'
    BY <1>3, <1>q DEF FindIdle, agentVars
  <1>4. CASE BindHeld \/ SendMark(Scheduler)
    BY <1>4, KeepsLife DEF BindHeld, SendMark, agentVars
  <1>5. ASSUME NEW s \in Sessions, SpawnWorker(s) PROVE LifeInv'
    <2>1. TaskContext[Held] \in Contexts
      BY <1>5, TaskContextAssumption DEF SpawnWorker, At, TypeInv, HeldByThreads, Held
    <2> QED
      BY <1>5, <2>1, LaunchLife DEF SpawnWorker
  <1> QED
    BY <1>1, <1>2, <1>3, <1>4, <1>5 DEF SchedulerNext, SendNext

LEMMA LifeInit == Start => LifeInv
  BY DEF Start, AgentsInit, SessionsInit, NewReader, LifeInv, Life, Exited

LEMMA LifeStep == TypeInv /\ LinkInv /\ LifeInv /\ OnlyCrashes /\ [Next]_vars => LifeInv'
  <1> SUFFICES ASSUME TypeInv, LinkInv, LifeInv, OnlyCrashes, [Next]_vars PROVE LifeInv'
    OBVIOUS
  <1>1. CASE UNCHANGED vars
    BY <1>1, KeepsLife DEF vars
  <1> QED
    BY <1>1, AgentLife, ReaderLife, UiLife, SchedulerLife DEF Next

\* The worker of t had crashed before it was given t, and the scheduler is about to find out.
Doomed(t) ==
    /\ Held = t
    /\ thread[Scheduler].pc \in {"lookup", "write"}
    /\ reader[thread[Scheduler].sid].pc = "done"

Watched(t) ==
    \/ \E s \in Sessions : Claims(s, t)
    \/ thread[Ui].pc = "fail" /\ thread[Ui].task = t
    \/ InScheduler(t)
    \/ Doomed(t)

WatchInv == \A t \in WithStatus("Running") : Watched(t)

LEMMA WatchReader ==
    ASSUME TypeInv, LinkInv, LifeInv, NEW s \in Sessions, ReaderLink(s),
           NEW t \in Tasks, Watched(t), tasks[t].status = "Running", tasks'[t].status = "Running"
    PROVE  Watched(t)'
  <1>t. TasksTypeOK /\ registry \subseteq Sessions /\ NoTask \notin Tasks
    BY NoTaskAssumption DEF TypeInv, SessionsTypeOK
  <1>h. thread' = thread /\ registry' = registry
    BY DEF ReaderLink, ReaderMoves, ReaderTakes, ReaderSettles, ReaderEnds, ReaderRecovers
  <1>o. OthersKept(s) /\ reader[s].pc # "done"
    BY DEF ReaderLink, ReaderMoves, ReaderTakes, ReaderSettles, ReaderEnds, ReaderRecovers
  <1>1. ASSUME NEW r \in Sessions, Claims(r, t), r # s PROVE Claims(r, t)'
    BY <1>1, <1>h, <1>o DEF Claims, OthersKept
  <1>2. ASSUME Claims(s, t) PROVE Claims(s, t)'
    <2>1. CASE ReaderMoves(s)
      BY <1>2, <1>h, <2>1 DEF ReaderMoves, SameCurrents, Claims
    <2>2. CASE ReaderTakes(s)
      BY <1>2, <1>t, <1>h, <2>2 DEF ReaderTakes, SameCurrents, Claims
    <2>3. CASE ReaderSettles(s)
      <3>1. reader[s].task # t
        <4>1. reader[s].is_error \in BOOLEAN
          BY DEF TypeInv, SessionsTypeOK, Reader
        <4> QED
          BY <1>t, <2>3, <4>1, RunningTasks DEF ReaderSettles
      <3> QED
        BY <1>2, <1>h, <2>3, <3>1 DEF ReaderSettles, Claims
    <2>4. CASE ReaderEnds(s)
      <3>1. reader[s].pc = "reap" /\ s \in registry /\ info[s].current_task = t
        BY <1>2, <2>4 DEF ReaderEnds, Claims
      <3>2. FinalStatus(s) = "Crashed"
        BY <3>1 DEF FinalStatus, LifeInv, Life
      <3> QED
        BY <1>t, <2>4, <3>1, <3>2 DEF ReaderEnds, Claims
    <2>5. CASE ReaderRecovers(s)
      <3>1. reader[s].task # t
        BY <1>t, <2>5, RunningTasks DEF ReaderRecovers
      <3> QED
        BY <1>2, <1>h, <2>5, <3>1, <1>t DEF ReaderRecovers, Claims, LinkInv, RecoverNamed
    <2> QED
      BY <2>1, <2>2, <2>3, <2>4, <2>5 DEF ReaderLink
  <1>3. Doomed(t) => Doomed(t)'
    <2>1. thread[Scheduler].pc \in {"lookup", "write"} => thread[Scheduler].sid \in Sessions
      BY DEF LinkInv, FreshWorker, HasWorker, Sendings
    <2> QED
      BY <1>h, <1>o, <2>1 DEF Doomed, OthersKept, Held
  <1>4. InScheduler(t) => InScheduler(t)'
    BY <1>h DEF InScheduler, Held
  <1> QED
    BY <1>1, <1>2, <1>3, <1>4, <1>h DEF Watched

LEMMA WatchUi ==
    ASSUME TypeInv, LinkInv, UiLink,
           NEW t \in Tasks, Watched(t), tasks[t].status = "Running", tasks'[t].status = "Running"
    PROVE  Watched(t)'
  <1>t. TasksTypeOK /\ registry \subseteq Sessions /\ NoTask \notin Tasks
    BY NoTaskAssumption DEF TypeInv, SessionsTypeOK
  <1>h. thread'[Scheduler] = thread[Scheduler]
    BY DEF UiLink, UiMoves, UiLaunches, UiTables, UiFails, Removed
  <1>w. thread[Scheduler].pc \in {"lookup", "write"} =>
            thread[Scheduler].sid \in Sessions /\ reader[thread[Scheduler].sid].pc # "none"
    BY DEF LinkInv, FreshWorker, HasWorker, Sendings
  <1>1. CASE UiMoves \/ UiTables \/ UiFails
    <2>1. LinksKept
      BY <1>1 DEF UiMoves, UiTables, UiFails
    <2>2. thread[Ui].pc = "fail" /\ thread[Ui].task = t => thread' = thread
      BY <1>t, <1>1, RunningTasks DEF UiMoves, UiTables, UiFails
    <2>3. \A r \in Sessions : Claims(r, t) => Claims(r, t)'
      BY <2>1 DEF LinksKept, SameCurrents, Claims
    <2>4. (InScheduler(t) => InScheduler(t)') /\ (Doomed(t) => Doomed(t)')
      BY <1>h, <2>1 DEF LinksKept, InScheduler, Doomed, Held
    <2> QED
      BY <2>2, <2>3, <2>4 DEF Watched
  <1>2. CASE UiLaunches
    <2>1. PICK s \in Sessions : Launched(s)
      BY <1>2 DEF UiLaunches
    <2>2. thread[Ui].pc # "fail"
      BY <1>2 DEF UiLaunches
    <2>3. \A r \in Sessions : Claims(r, t) => Claims(r, t)'
      BY <1>t, <2>1 DEF Launched, OthersKept, LinkInv, Launches, Claims
    <2>4. InScheduler(t) => InScheduler(t)'
      BY <1>h, <2>1 DEF Launched, LinkInv, FreshWorker, HasWorker, Sendings, InScheduler, Held
    <2>5. Doomed(t) => Doomed(t)'
      BY <1>h, <1>w, <2>1 DEF Launched, OthersKept, Doomed, Held
    <2> QED
      BY <2>2, <2>3, <2>4, <2>5 DEF Watched
  <1>3. ASSUME NEW s \in Sessions, Removed(s) PROVE Watched(t)'
    <2>1. /\ registry' = registry \ {s} /\ reader' = reader /\ OthersKept(s)
          /\ thread[Ui].pc = "ready"
      BY <1>3 DEF Removed
    <2>2. info[s].current_task = t => thread'[Ui].pc = "fail" /\ thread'[Ui].task = t
      BY <1>3, <1>t DEF Removed
    <2>3. \A r \in Sessions : info[s].current_task # t => (Claims(r, t) => Claims(r, t)')
      BY <2>1 DEF OthersKept, Claims
    <2>4. (InScheduler(t) => InScheduler(t)') /\ (Doomed(t) => Doomed(t)')
      BY <1>h, <2>1 DEF InScheduler, Doomed, Held
    <2> QED
      BY <2>1, <2>2, <2>3, <2>4 DEF Watched
  <1> QED
    BY <1>1, <1>2, <1>3 DEF UiLink

LEMMA WatchScheduler ==
    ASSUME TypeInv, OwnerInv, LinkInv, LifeInv, SchedulerLink,
           NEW t \in Tasks, Watched(t), tasks[t].status = "Running", tasks'[t].status = "Running"
    PROVE  Watched(t)'
  <1>t. TasksTypeOK /\ registry \subseteq Sessions /\ NoTask \notin Tasks
    BY NoTaskAssumption DEF TypeInv, SessionsTypeOK
  <1>u. thread'[Ui] = thread[Ui]
    BY DEF SchedulerLink
  <1>h. ~(Held = t /\ thread[Scheduler].pc \in TakenPcs)
    BY DEF OwnerInv, HeldStatus
  <1>c. ASSUME LinksKept, thread[Scheduler].pc \notin {"bind", "lookup", "write", "fail"}
        PROVE  Watched(t)'
    <2>1. \A r \in Sessions : Claims(r, t) => Claims(r, t)'
      BY <1>c DEF LinksKept, SameCurrents, Claims
    <2>2. ~InScheduler(t) /\ ~Doomed(t)
      BY <1>c DEF InScheduler, Doomed
    <2> QED
      BY <1>u, <2>1, <2>2 DEF Watched
  <1>1. CASE \/ SchedulerIdles \/ SchedulerMisses \/ SchedulerStarts \/ SchedulerMarks
             \/ \E w \in Tasks : SchedulerTakes(w)
    BY <1>1, <1>c
       DEF SchedulerIdles, SchedulerMisses, SchedulerStarts, SchedulerMarks, SchedulerTakes,
           SchedulerGoes
  <1>2. ASSUME NEW s \in Sessions, SchedulerChooses(s) PROVE Watched(t)'
    <2>1. thread[Scheduler].pc \in {"find", "spawn"}
      BY <1>2 DEF SchedulerChooses
    <2>2. CASE LinksKept
      BY <1>c, <2>1, <2>2
    <2>3. CASE Launched(s)
      <3>1. \A r \in Sessions : Claims(r, t) => Claims(r, t)'
        BY <1>t, <2>3 DEF Launched, OthersKept, LinkInv, Launches, Claims
      <3> QED
        BY <1>u, <2>1, <3>1 DEF Watched, InScheduler, Doomed
    <2> QED
      BY <1>2, <2>2, <2>3 DEF SchedulerChooses
  <1>3. CASE SchedulerBinds
    <2>1. /\ thread[Scheduler].pc = "bind" /\ thread'[Scheduler].pc = "lookup"
          /\ thread'[Scheduler].task = Held /\ thread'[Scheduler].sid = thread[Scheduler].sid
          /\ UNCHANGED <<tasks, registry, reader>>
          /\ \A r \in Sessions : info'[r].current_task = IF r = thread[Scheduler].sid /\ r \in registry
                                                         THEN Held ELSE info[r].current_task
      BY <1>3 DEF SchedulerBinds, SchedulerGoes
    <2>2. \A r \in registry : r = thread[Scheduler].sid =>
            info[r].current_task = NoTask /\ reader[r].pc # "recover"
      BY <1>t, <2>1 DEF LinkInv, FreshWorker, RecoverNamed, TypeInv, HeldByReaders
    <2>3. \A r \in Sessions : Claims(r, t) => Claims(r, t)'
      BY <1>t, <2>1, <2>2 DEF Claims
    <2>4. CASE InScheduler(t) /\ thread[Scheduler].sid \notin registry
      BY <2>1, <2>4 DEF InScheduler, Held, Watched
    <2>5. CASE InScheduler(t) /\ thread[Scheduler].sid \in registry
      <3>1. PICK s \in Sessions : s = thread[Scheduler].sid
        BY <1>t, <2>5
      <3>2. Claims(s, t)' \/ Doomed(t)'
        BY <1>t, <2>1, <2>2, <2>5, <3>1 DEF InScheduler, Claims, Doomed, Held
      <3> QED
        BY <3>2 DEF Watched
    <2>6. ~Doomed(t)
      BY <2>1 DEF Doomed
    <2> QED
      BY <1>u, <2>3, <2>4, <2>5, <2>6 DEF Watched
  <1>4. CASE SchedulerSends
    <2>1. LinksKept /\ thread'[Scheduler].task = Held /\ thread'[Scheduler].sid = thread[Scheduler].sid
      BY <1>4 DEF SchedulerSends, SchedulerGoes
    <2>2. \A r \in Sessions : Claims(r, t) => Claims(r, t)'
      BY <2>1 DEF LinksKept, SameCurrents, Claims
    <2>3. Doomed(t) => Doomed(t)' \/ InScheduler(t)'
      <3>1. Doomed(t) => Exited(thread[Scheduler].sid)
        BY DEF Doomed, LinkInv, FreshWorker, HasWorker, Sendings, LifeInv, Life
      <3> QED
        BY <1>4, <2>1, <3>1
           DEF SchedulerSends, SchedulerGoes, LinksKept, Doomed, InScheduler, Held
    <2>4. InScheduler(t) => InScheduler(t)'
      BY <1>4, <2>1 DEF SchedulerSends, SchedulerGoes, LinksKept, InScheduler, Held
    <2> QED
      BY <1>u, <2>2, <2>3, <2>4 DEF Watched
  <1>5. CASE SchedulerFails
    <2>1. LinksKept /\ thread[Scheduler].pc = "fail" /\ Held # t
      BY <1>5, <1>t, RunningTasks DEF SchedulerFails
    <2>2. \A r \in Sessions : Claims(r, t) => Claims(r, t)'
      BY <2>1 DEF LinksKept, SameCurrents, Claims
    <2> QED
      BY <1>u, <2>1, <2>2 DEF Watched, InScheduler, Doomed
  <1> QED
    BY <1>1, <1>2, <1>3, <1>4, <1>5 DEF SchedulerLink

LEMMA WatchStep ==
    TypeInv /\ OwnerInv /\ LinkInv /\ LifeInv /\ WatchInv /\ [Next]_vars => WatchInv'
  <1> SUFFICES ASSUME TypeInv, OwnerInv, LinkInv, LifeInv, WatchInv, [Next]_vars,
                      NEW t \in Tasks, tasks'[t].status = "Running"
               PROVE  Watched(t)'
    BY DEF WatchInv, WithStatus
  <1>t. TasksTypeOK
    BY DEF TypeInv
  <1>1. CASE tasks[t].status = "Running"
    <2>1. Watched(t)
      BY <1>1 DEF WatchInv, WithStatus
    <2>2. CASE NoLink
      BY <2>1, <2>2
         DEF NoLink, LinksKept, SameCurrents, Watched, Claims, InScheduler, Doomed, Held
    <2> QED
      BY <1>1, <2>1, <2>2, Links, WatchReader, WatchUi, WatchScheduler
  <1>2. CASE tasks[t].status # "Running"
    <2>1. StartStep
      <3>1. \A s \in Sessions : reader[s].is_error \in BOOLEAN
        BY DEF TypeInv, SessionsTypeOK, Reader
      <3> QED
        BY <1>2, <1>t, <3>1, StepKinds, RunningTasks
           DEF EnvStep, EnvEffect, QuietStep, TakeStep, BindStep, FailStep
    <2>2. t = Held /\ thread'[Scheduler].task = t /\ thread'[Scheduler].pc = "bind"
      BY <1>2, <1>t, <2>1, StartFacts DEF StartStep, Others
    <2> QED
      BY <2>2 DEF Watched, InScheduler, Held
  <1> QED
    BY <1>1, <1>2

\* Where workers end only by a crash or by being removed, no running task is forgotten: whatever the
\* order of crashes, removals and messages, somebody will settle, recover or fail it.
THEOREM NoTaskIsForgotten ==
    ASSUME "kill" \notin UserCommands, AgentFaults \cap {"exit", "linger"} = {}
    PROVE  Spec => []NoOrphanRunning
  <1>1. OnlyCrashes
    BY DEF OnlyCrashes
  <1>2. Start => WatchInv
    BY InitFacts DEF WatchInv, WithStatus
  <1>3. WatchInv => NoOrphanRunning
    <2>1. Scheduler \in Threads /\ Ui \in Threads
      BY DEF Threads
    <2> QED
      BY <2>1 DEF WatchInv, Watched, InScheduler, Doomed, Held, NoOrphanRunning, InCare
  <1>4. TypeInv /\ LinkInv /\ LifeInv /\ [Next]_vars => LifeInv'
    BY <1>1, LifeStep
  <1> QED
    BY InitStarts, TypeInit, TypeStep, OwnerInit, OwnerStep, LinkInit, LinkStep, LifeInit, WatchStep,
       <1>2, <1>3, <1>4, PTL DEF Spec

-----------------------------------------------------------------------------
(* A result stands.                                                        *)

NoRemoves == "remove" \notin UserCommands

\* Until the turn of the task it holds is written, the scheduler can rely on no one settling it.
HeldClaims ==
    thread[Scheduler].pc \in {"lookup", "write", "fail"} =>
        \A s \in Sessions : Claims(s, Held) =>
            Quiet(s) /\ (reader[s].pc = "settle" => reader[s].task # Held)

\* No one holds a task that is done, but for the scheduler that has yet to mark its worker.
Settled ==
    \A t \in WithStatus("Done") :
        /\ \A s \in Sessions : ~Claims(s, t)
        /\ Held = t => thread[Scheduler].pc \notin {"lookup", "write", "fail"}

DoneInv == thread[Ui].pc # "fail" /\ HeldClaims /\ Settled

\* A session stays quiet until the scheduler writes to it.
LEMMA QuietStays ==
    ASSUME TypeInv, PipeInv, NoSends, [Next]_vars, NEW r \in Sessions, Quiet(r),
           thread'[Scheduler].pc # "mark"
    PROVE  Quiet(r)'
  <1>s. \A s \in Sessions : SessionPipe(s)
    BY DEF PipeInv
  <1>t. ThreadsTypeOK /\ AgentsTypeOK /\ reader \in [Sessions -> Reader] /\ Scheduler \in Threads
    BY DEF TypeInv, SessionsTypeOK, Threads
  <1>q. ASSUME UNCHANGED <<stdin, stdout, reader>> PROVE Quiet(r)'
    BY <1>q DEF Quiet, Results
  <1>k. ASSUME stdin'[r] = stdin[r] \/ stdin'[r] = <<>>, UNCHANGED <<stdout, reader>>
        PROVE  Quiet(r)'
    BY <1>k DEF Quiet, Results
  <1>1. CASE UNCHANGED vars
    BY <1>1, <1>q DEF vars
  <1>2. ASSUME NEW s \in Sessions, AgentStep(s) PROVE Quiet(r)'
    BY <1>2, <1>s, AgentPipe, UntouchedPipe
  <1>3. ASSUME NEW s \in Sessions, ReaderStep(s) PROVE Quiet(r)'
    BY <1>3, <1>s, ReaderPipe, UntouchedPipe
  <1>4. CASE UiNext
    <2>1. CASE UiKillProcess
      BY <1>k, <2>1, KillPipe DEF UiKillProcess, sessionVars
    <2>2. ASSUME NEW s \in Sessions, UiRemove(s) PROVE Quiet(r)'
      BY <1>k, <2>2, KillPipe DEF UiRemove
    <2>3. CASE SendNext(Ui)
      <3>1. FailHeld(Ui)
        BY <2>3 DEF PipeInv, UiSilent, SendNext, SendLookup, SendWrite, SendBroken, SendMark, At
      <3> QED
        BY <1>q, <3>1 DEF FailHeld, agentVars, sessionVars
    <2>4. \A s \in Sessions, c \in Contexts : ~UiCreate(s, c)
      BY DEF UiCreate, Gives, NoSends
    <2> QED
      BY <1>4, <1>q, <2>1, <2>2, <2>3, <2>4
         DEF UiNext, UiContinue, UiEnqueue, UiCancel, UiSend, UiBroadcast, UiNextTarget, UiKill,
             UiSetConfig, agentVars, sessionVars
  <1>5. CASE SchedulerNext
    <2>1. ASSUME NEW s \in Sessions, SpawnWorker(s) PROVE Quiet(r)'
      <3>1. /\ stdin' = stdin /\ stdout' = stdout
            /\ reader' = [reader EXCEPT ![s] = NewReader("read")]
        BY <2>1 DEF SpawnWorker, SpawnHeadless
      <3>2. reader'[r].pc # "turn"
        BY <1>t, <3>1 DEF Quiet, NewReader
      <3> QED
        BY <3>1, <3>2 DEF Quiet, Results
    <2>2. ~SendWrite(Scheduler)
      BY <1>t, GotoFacts DEF SendWrite
    <2> QED
      BY <1>5, <1>q, <2>1, <2>2
         DEF SchedulerNext, Tick, CountActive, TakeNothing, FindNone, SpawnFails, TakeTask, FindIdle,
             StartHeld, BindHeld, SendNext, SendLookup, SendBroken, SendMark, FailHeld, agentVars,
             sessionVars
  <1> QED
    BY <1>1, <1>2, <1>3, <1>4, <1>5 DEF Next

\* A reader comes to settle a task from the end of a turn only.
LEMMA SettleFromTurn ==
    ASSUME TypeInv, [Next]_vars, NEW s \in Sessions, reader'[s].pc = "settle"
    PROVE  reader[s].pc = "turn" \/ reader'[s] = reader[s]
  BY Links
     DEF NoLink, LinksKept, UiLink, UiMoves, UiLaunches, UiTables, UiFails, Removed, SchedulerLink,
         SchedulerIdles, SchedulerTakes, SchedulerChooses, SchedulerStarts, SchedulerBinds,
         SchedulerSends, SchedulerMarks, SchedulerMisses, SchedulerFails, Launched, OthersKept,
         ReaderLink, ReaderMoves, ReaderTakes, ReaderSettles, ReaderEnds, ReaderRecovers

\* What the scheduler does, as far as the task it holds is concerned.
LEMMA SchedulerPlaces ==
    ASSUME TypeInv, [Next]_vars, thread'[Scheduler].pc \in {"lookup", "write", "fail"}
    PROVE  /\ thread'[Scheduler].task = Held
           /\ \/ thread'[Scheduler] = thread[Scheduler]
              \/ thread[Scheduler].pc = "bind" /\ SchedulerBinds
              \/ thread[Scheduler].pc \in {"lookup", "write"} /\ LinksKept
              \/ thread[Scheduler].pc = "spawn" /\ LinksKept
  BY Links
     DEF NoLink, UiLink, UiMoves, UiLaunches, UiTables, UiFails, Removed, SchedulerLink,
         SchedulerIdles, SchedulerTakes, SchedulerChooses, SchedulerStarts, SchedulerBinds,
         SchedulerSends, SchedulerMarks, SchedulerMisses, SchedulerFails, SchedulerGoes, Held,
         ReaderLink, ReaderMoves, ReaderTakes, ReaderSettles, ReaderEnds, ReaderRecovers

LEMMA HeldClaimsStep ==
    ASSUME TypeInv, OwnerInv, LinkInv, PipeInv, HeldClaims, NoSends, [Next]_vars
    PROVE  HeldClaims'
  <1> SUFFICES ASSUME thread'[Scheduler].pc \in {"lookup", "write", "fail"},
                      NEW s \in Sessions, Claims(s, thread[Scheduler].task)'
               PROVE  Quiet(s)' /\ (reader'[s].pc = "settle" => reader'[s].task # Held)
    <2>1. thread'[Scheduler].pc \in {"lookup", "write", "fail"} => thread'[Scheduler].task = Held
      BY SchedulerPlaces
    <2> QED
      BY <2>1 DEF HeldClaims, Held
  <1>1. thread'[Scheduler].task = Held
    BY SchedulerPlaces
  <1>h. Held \in Tasks
    <2>1. thread[Scheduler].pc \in {"bind", "lookup", "write", "fail", "spawn"}
      BY SchedulerPlaces
    <2> QED
      BY <2>1 DEF TypeInv, HeldByThreads, Held
  <1>2. SUFFICES Quiet(s) /\ (reader[s].pc = "settle" => reader[s].task # Held)
    <2>1. Quiet(s) => Quiet(s)' /\ reader[s].pc # "turn"
      BY QuietStays DEF Quiet
    <2> QED
      BY <2>1, SettleFromTurn
  <1>3. CASE thread'[Scheduler] = thread[Scheduler]
    <2>1. NoNewClaims
      BY <1>3, StepKinds DEF EnvStep, QuietStep, TakeStep, StartStep, BindStep, FailStep
    <2>2. Claims(s, Held)
      BY <1>1, <1>h, <2>1 DEF NoNewClaims, Claims
    <2> QED
      BY <1>3, <2>2 DEF HeldClaims, Held
  <1>4. CASE thread[Scheduler].pc = "bind" /\ SchedulerBinds
    <2>1. ~Claims(s, Held)
      BY <1>4, <1>h, OwnerFacts
    <2>2. /\ reader' = reader /\ registry' = registry
          /\ info'[s].current_task = IF s = thread[Scheduler].sid /\ s \in registry
                                     THEN Held ELSE info[s].current_task
      BY <1>4 DEF SchedulerBinds
    <2>3. s = thread[Scheduler].sid
      BY <1>1, <2>1, <2>2 DEF Claims
    <2> QED
      BY <1>4, <2>1, <2>3 DEF PipeInv, SchedulerPipe, Claims
  <1>5. CASE thread[Scheduler].pc \in {"lookup", "write", "spawn"} /\ LinksKept
    <2>1. Claims(s, Held)
      BY <1>1, <1>5 DEF LinksKept, SameCurrents, Claims
    <2>2. thread[Scheduler].pc # "spawn"
      BY <1>h, <2>1, OwnerFacts DEF TakenPcs
    <2> QED
      BY <1>5, <2>1, <2>2 DEF HeldClaims
  <1> QED
    BY <1>3, <1>4, <1>5, SchedulerPlaces

LEMMA NoUiFailure ==
    ASSUME TypeInv, UiSilent, NoSends, NoRemoves, thread[Ui].pc # "fail", [Next]_vars
    PROVE  thread'[Ui].pc # "fail"
  <1>t. ThreadsTypeOK /\ Ui \in Threads /\ Scheduler # Ui
    BY DEF TypeInv, Threads, Scheduler, Ui
  <1>1. CASE UNCHANGED vars
    BY <1>1 DEF vars
  <1>2. ASSUME NEW s \in Sessions, AgentStep(s) \/ ReaderStep(s) PROVE thread'[Ui].pc # "fail"
    BY <1>2 DEF AgentStep, ReaderStep
  <1>3. CASE SchedulerNext
    BY <1>3, SchedulerLinks DEF SchedulerLink
  <1>4. CASE UiNext
    <2>2. ~SendNext(Ui)
      BY DEF UiSilent, SendNext, SendLookup, SendWrite, SendBroken, SendMark, FailHeld, At
    <2>3. \A s \in Sessions : /\ ~UiRemove(s) /\ ~UiSend(s) /\ ~UiNextTarget(s)
                              /\ \A c \in Contexts : ~UiCreate(s, c)
      BY DEF UiRemove, UiSend, UiCreate, UiNextTarget, UiSilent, Gives, NoRemoves, NoSends
    <2>4. ASSUME NEW s \in Sessions, UiKill(s) PROVE thread'[Ui].pc # "fail"
      BY <1>t, <2>4 DEF UiKill, ThreadsTypeOK, Thread
    <2>5. UiKillProcess => thread'[Ui].pc # "fail"
      BY <1>t, FinishFacts DEF UiKillProcess
    <2>6. ~UiBroadcast
      BY DEF UiBroadcast, Gives, NoSends
    <2> QED
      BY <1>4, <2>2, <2>3, <2>4, <2>5, <2>6
         DEF UiNext, UiContinue, UiEnqueue, UiCancel, UiSetConfig
  <1> QED
    BY <1>1, <1>2, <1>3, <1>4 DEF Next

\* No step changes a task that is done and that no one holds.
LEMMA DoneStays ==
    ASSUME TypeInv, OwnerInv, DoneInv, [Next]_vars, NEW t \in Tasks, tasks[t].status = "Done"
    PROVE  tasks'[t].status = "Done"
  <1>t. TasksTypeOK
    BY DEF TypeInv
  <1>n. /\ \A s \in Sessions : ~Claims(s, t)
        /\ Held = t => thread[Scheduler].pc \notin TakenPcs \cup {"bind", "lookup", "write", "fail"}
    BY DEF DoneInv, Settled, WithStatus, OwnerInv, HeldStatus
  <1>1. ASSUME NEW s \in Sessions, ReaderLink(s) PROVE tasks'[t].status = "Done"
    <2>1. reader[s].pc \in {"settle", "recover"} => reader[s].task # t /\ reader[s].is_error \in BOOLEAN
      BY <1>n DEF Claims, TypeInv, SessionsTypeOK, Reader
    <2> QED
      BY <1>1, <1>t, <2>1, SettleFacts, RecoverFacts
         DEF ReaderLink, ReaderMoves, ReaderTakes, ReaderSettles, ReaderEnds, ReaderRecovers, Others
  <1>2. CASE UiLink
    <2>1. \A u \in Tasks : EnqueueTask(u) \/ CancelTask(u) => tasks'[t].status = "Done"
      BY <1>t, EnqueueFacts, CancelFacts DEF Others
    <2> QED
      BY <1>2, <2>1 DEF UiLink, UiMoves, UiLaunches, UiTables, UiFails, Removed, Launched, DoneInv
  <1>3. CASE SchedulerLink
    <2>1. \A u \in Tasks : TakeNextTask(u) => tasks'[t].status = "Done"
      BY <1>t, TakeFacts DEF Others
    <2>2. SchedulerStarts \/ SchedulerFails => tasks'[t].status = "Done"
      BY <1>n, <1>t, StartFacts, FailFacts
         DEF SchedulerStarts, SchedulerFails, SchedulerGoes, TakenPcs, Others
    <2> QED
      BY <1>3, <2>1, <2>2
         DEF SchedulerLink, SchedulerIdles, SchedulerTakes, SchedulerChooses, SchedulerBinds,
             SchedulerSends, SchedulerMarks, SchedulerMisses, Launched
  <1> QED
    BY <1>1, <1>2, <1>3, Links DEF NoLink

\* A task becomes done when its owner settles it, and has no owner from then on.
LEMMA SettledStep ==
    ASSUME TypeInv, OwnerInv, LinkInv, DoneInv, [Next]_vars,
           NEW t \in Tasks, tasks[t].status # "Done", tasks'[t].status = "Done"
    PROVE  /\ \A s \in Sessions : ~Claims(s, t)'
           /\ thread' = thread
           /\ Held = t => thread[Scheduler].pc \notin {"lookup", "write", "fail"}
  <1>t. TasksTypeOK /\ \A s \in Sessions : reader[s].is_error \in BOOLEAN
    BY DEF TypeInv, SessionsTypeOK, Reader
  <1>1. \A u \in Tasks :
          \/ EnqueueTask(u) \/ CancelTask(u) \/ TakeNextTask(u) \/ FailTask(u) \/ RecoverTask(u)
          \/ \E s \in Sessions \cup {NoSession} : StartTask(u, s)
          => tasks'[t].status # "Done"
    BY <1>t, EnqueueFacts, CancelFacts, TakeFacts, FailFacts, RecoverFacts, StartFacts DEF Others
  <1>2. PICK s \in Sessions : ReaderSettles(s)
    <2>1. ~UiLink
      BY <1>1 DEF UiLink, UiMoves, UiLaunches, UiTables, UiFails, Removed, Launched
    <2>2. ~SchedulerLink
      BY <1>1 DEF SchedulerLink, SchedulerIdles, SchedulerTakes, SchedulerChooses, SchedulerStarts,
                  SchedulerBinds, SchedulerSends, SchedulerMarks, SchedulerMisses, SchedulerFails,
                  Launched
    <2>3. \A s \in Sessions : ReaderLink(s) => ReaderSettles(s)
      BY <1>1 DEF ReaderLink, ReaderMoves, ReaderTakes, ReaderEnds, ReaderRecovers
    <2> QED
      BY <2>1, <2>2, <2>3, Links DEF NoLink
  <1>3. reader[s].pc = "settle" /\ reader[s].task = t
    BY <1>t, <1>2, SettleFacts DEF ReaderSettles, Others
  <1>4. Claims(s, t)
    BY <1>3 DEF Claims
  <1>5. ~Claims(s, t)'
    BY <1>2, <1>3 DEF ReaderSettles, Claims, LinkInv, SettleOnce
  <1>6. \A r \in Sessions \ {s} : ~Claims(r, t)'
    BY <1>2, <1>4, OwnerFacts DEF ReaderSettles, OthersKept, Claims
  <1>7. Held = t => thread[Scheduler].pc \notin {"lookup", "write", "fail"}
    BY <1>3, <1>4 DEF DoneInv, HeldClaims
  <1> QED
    BY <1>2, <1>5, <1>6, <1>7 DEF ReaderSettles

LEMMA DoneStep ==
    TypeInv /\ OwnerInv /\ LinkInv /\ PipeInv /\ DoneInv /\ NoSends /\ NoRemoves /\ [Next]_vars
    => DoneInv'
  <1> SUFFICES ASSUME TypeInv, OwnerInv, LinkInv, PipeInv, DoneInv, NoSends, NoRemoves, [Next]_vars
               PROVE  DoneInv'
    OBVIOUS
  <1>1. thread'[Ui].pc # "fail" /\ HeldClaims'
    BY NoUiFailure, HeldClaimsStep DEF DoneInv, PipeInv
  <1>2. ASSUME NEW t \in Tasks, tasks'[t].status = "Done"
        PROVE  /\ \A s \in Sessions : ~Claims(s, t)'
               /\ thread'[Scheduler].task = t => thread'[Scheduler].pc \notin {"lookup", "write", "fail"}
    <2>1. CASE tasks[t].status # "Done"
      BY <1>2, <2>1, SettledStep DEF Held
    <2>2. CASE tasks[t].status = "Done"
      <3>1. /\ \A s \in Sessions : ~Claims(s, t)
            /\ Held = t => thread[Scheduler].pc \notin TakenPcs \cup {"bind", "lookup", "write", "fail"}
        BY <2>2 DEF DoneInv, Settled, WithStatus, OwnerInv, HeldStatus
      <3>2. \A s \in Sessions : ~Claims(s, t)'
        BY <3>1, StepKinds
           DEF EnvStep, QuietStep, TakeStep, StartStep, BindStep, FailStep, NoNewClaims
      <3>3. thread'[Scheduler].task = t => thread'[Scheduler].pc \notin {"lookup", "write", "fail"}
        BY <3>1, SchedulerPlaces DEF TakenPcs, Held
      <3> QED
        BY <3>2, <3>3
    <2> QED
      BY <2>1, <2>2
  <1>3. Settled'
    BY <1>2 DEF Settled, WithStatus, Held
  <1> QED
    BY <1>1, <1>3 DEF DoneInv

\* Where the user writes to no worker and removes none, a task that is done stays done, whatever
\* ends, crashes or is killed after it.
THEOREM ResultStands ==
    ASSUME UserCommands \cap {"create", "send", "broadcast"} = {}, "remove" \notin UserCommands
    PROVE  Spec => DoneIsFinal
  <1>1. NoSends /\ NoRemoves
    BY DEF NoSends, NoRemoves
  <1>2. Start => DoneInv
    <2>1. Start => thread[Ui].pc = "ready" /\ thread[Scheduler].pc = "asleep"
      BY DEF Start, NewThread, Threads, Scheduler, Ui
    <2>2. Start => WithStatus("Done") = {}
      BY DEF Start, TasksInit, NewTask, WithStatus
    <2> QED
      BY <2>1, <2>2 DEF DoneInv, HeldClaims, Settled
  <1>3. /\ TypeInv /\ LinkInv /\ PipeInv /\ [Next]_vars => PipeInv'
        /\ TypeInv /\ OwnerInv /\ LinkInv /\ PipeInv /\ DoneInv /\ [Next]_vars => DoneInv'
    BY <1>1, PipeStep, DoneStep
  <1>4. TypeInv /\ OwnerInv /\ DoneInv /\ [Next]_vars =>
          [\A t \in WithStatus("Done") : tasks'[t].status = "Done"]_vars
    BY DoneStays DEF WithStatus
  <1> QED
    BY InitStarts, TypeInit, TypeStep, OwnerInit, OwnerStep, LinkInit, LinkStep, PipeInit, <1>2, <1>3, <1>4, PTL
       DEF Spec, DoneIsFinal
=============================================================================
