--------------------------- MODULE SessionRegistry ---------------------------
(***************************************************************************)
(* The registry of headless sessions (Core.sessions of core.rs, a map from *)
(* session id to Session behind one mutex) and the reader thread of each   *)
(* session, which turns the events of its agent into status changes,       *)
(* settles the task of the session when a turn ends, and when the stream   *)
(* ends reaps the process and recovers the task.  One action is one        *)
(* critical section, so the steps of a reader interleave with those of the *)
(* other threads wherever the code has released a mutex.                   *)
(***************************************************************************)
EXTENDS AgentProcess, FiniteSets

CONSTANTS
    NoContext,      \* the context of no session
    Contexts,       \* the (cwd, model) pairs a worker may be launched in
    CwdAlias        \* the context an agent reports for the one it runs in

ASSUME NoContextAssumption == NoContext \notin Contexts
ASSUME AliasAssumption == CwdAlias \in [Contexts -> Contexts]

VARIABLES
    registry,       \* the ids that are keys of Core.sessions
    info,           \* SessionInfo: status, current_task, context
    stop,           \* the ids whose stop flag is set
    reader          \* the reader thread of each session

sessionVars == <<registry, info, stop, reader>>

SessionStatus == {"Starting", "Idle", "Busy", "Completed", "Crashed", "Stopped"}
ActiveStatus == {"Starting", "Idle", "Busy"}
TerminalStatus == {"Completed", "Crashed", "Stopped"}

Info == [status : SessionStatus, current_task : Tasks \cup {NoTask}, context : Contexts \cup {NoContext}]

\* The entry of an id that is not in the map.
NoInfo == [status |-> "Stopped", current_task |-> NoTask, context |-> NoContext]

\* pc: between two lines; in a turn that ended, before and after the task is taken out of
\* the session; reaping the process; about to recover a task; finished.
Reader == [pc             : {"none", "read", "turn", "settle", "reap", "recover", "done"},
           task           : Tasks \cup {NoTask},
           is_error       : BOOLEAN,
           requested_stop : BOOLEAN]

NewReader(pc) == [pc |-> pc, task |-> NoTask, is_error |-> FALSE, requested_stop |-> FALSE]

SessionsInit ==
    /\ registry = {}
    /\ info = [s \in Sessions |-> NoInfo]
    /\ stop = {}
    /\ reader = [s \in Sessions |-> NewReader("none")]

SessionsTypeOK ==
    /\ registry \subseteq Sessions
    /\ info \in [Sessions -> Info]
    /\ stop \subseteq Sessions
    /\ reader \in [Sessions -> Reader]

ActiveSessions == {s \in registry : info[s].status \in ActiveStatus}

\* update_info: without effect when the session is no longer in the map.
UpdateStatus(s, status) ==
    info' = IF s \in registry THEN [info EXCEPT ![s].status = status] ELSE info

-----------------------------------------------------------------------------
(* spawn_headless: the process, its entry in the map, its reader thread.   *)
SpawnHeadless(s, context) ==
    /\ reader[s].pc = "none"
    /\ StartProcess(s)
    /\ registry' = registry \cup {s}
    /\ info' = [info EXCEPT ![s] = [status |-> "Starting", current_task |-> NoTask,
                                    context |-> context]]
    /\ reader' = [reader EXCEPT ![s] = NewReader("read")]

MatchesContext(s, context) ==   \* a slip: any idle worker, whatever it works on
    info[s].status \in ActiveStatus /\ info[s].context = context

(* The test of find_idle_session.                                          *)
IsIdleFor(s, context) ==
    /\ info[s].status = "Idle"
    /\ info[s].current_task = NoTask
    /\ info[s].context = context

BindTask(s, t) ==
    info' = IF s \in registry THEN [info EXCEPT ![s].current_task = t] ELSE info

-----------------------------------------------------------------------------
(* The reader thread: run_headless_stdout, on_headless_event,              *)
(* on_turn_complete, finalize, recover_task.                               *)

NextEvent(s) == Head(stdout[s])

ReadLine(s) ==
    /\ reader[s].pc = "read"
    /\ stdout[s] # <<>>
    /\ stdout' = [stdout EXCEPT ![s] = Tail(@)]
    /\ UNCHANGED <<proc, stdin, answered, registry, stop>>

\* A line read once the stop flag is set ends the loop; the line is not looked at.
ReadAfterStop(s) ==
    /\ s \in stop
    /\ ReadLine(s)
    /\ reader' = [reader EXCEPT ![s].pc = "reap", ![s].requested_stop = TRUE]
    /\ UNCHANGED info

ReadInit(s) ==
    /\ s \notin stop
    /\ ReadLine(s)
    /\ NextEvent(s).type = "init"
    /\ info' = IF s \in registry
               THEN [info EXCEPT ![s].context = CwdAlias[@],
                                 ![s].status = IF @ = "Starting" THEN "Idle" ELSE @]
               ELSE info
    /\ UNCHANGED reader

ReadAssistant(s) ==
    /\ s \notin stop
    /\ ReadLine(s)
    /\ NextEvent(s).type = "assistant"
    /\ UpdateStatus(s, "Busy")
    /\ UNCHANGED reader

ReadResult(s) ==
    /\ s \notin stop
    /\ ReadLine(s)
    /\ NextEvent(s).type = "result"
    /\ UpdateStatus(s, "Idle")
    /\ reader' = [reader EXCEPT ![s].pc = "turn", ![s].is_error = NextEvent(s).is_error]

KeepCurrentTask(s) ==     \* a slip: the task is read but stays in the session
    /\ reader[s].pc = "turn"
    /\ LET t == IF s \in registry THEN info[s].current_task ELSE NoTask IN
         reader' = [reader EXCEPT ![s].pc = IF t = NoTask THEN "read" ELSE "settle",
                                  ![s].task = t]
    /\ UNCHANGED <<agentVars, registry, info, stop>>

\* on_turn_complete takes the task out of the session: no one else can settle it.
TakeCurrentTask(s) ==
    /\ reader[s].pc = "turn"
    /\ LET t == IF s \in registry THEN info[s].current_task ELSE NoTask IN
         reader' = [reader EXCEPT ![s].pc = IF t = NoTask THEN "read" ELSE "settle",
                                  ![s].task = t]
    /\ BindTask(s, NoTask)
    /\ UNCHANGED <<agentVars, registry, stop>>

SettleTurn(s) ==
    /\ reader[s].pc = "settle"
    /\ SettleTask(reader[s].task, reader[s].is_error)
    /\ reader' = [reader EXCEPT ![s] = NewReader("read")]
    /\ UNCHANGED <<agentVars, registry, info, stop>>

\* The stop flag is read here, before the process is reaped.
ReadEof(s) ==
    /\ reader[s].pc = "read"
    /\ AtEof(s)
    /\ reader' = [reader EXCEPT ![s].pc = "reap", ![s].requested_stop = s \in stop]
    /\ UNCHANGED <<agentVars, registry, info, stop>>

FinalStatus(s) ==
    CASE reader[s].requested_stop -> "Stopped"
      [] ~reader[s].requested_stop /\ proc[s] = "exit0" -> "Completed"
      [] OTHER -> "Crashed"

FinalizeAndForget(s) ==     \* a slip: the task of a crashed session is not recovered
    /\ reader[s].pc = "reap"
    /\ Exited(s) \/ proc[s] = "closing"
    /\ UpdateStatus(s, FinalStatus(s))
    /\ reader' = [reader EXCEPT ![s] = NewReader("done")]
    /\ UNCHANGED <<agentVars, registry, stop>>

\* finalize up to the release of the sessions mutex: try_wait has seen the exit, or has given
\* up on a process that stays alive with its stdout closed.  The task is copied, not taken.
Finalize(s) ==
    /\ reader[s].pc = "reap"
    /\ Exited(s) \/ proc[s] = "closing"
    /\ UpdateStatus(s, FinalStatus(s))
    /\ LET t == info[s].current_task
           recovers == s \in registry /\ FinalStatus(s) = "Crashed" /\ t # NoTask IN
         reader' = [reader EXCEPT ![s] = IF recovers THEN [NewReader("recover") EXCEPT !.task = t]
                                                     ELSE NewReader("done")]
    /\ UNCHANGED <<agentVars, registry, stop>>

RecoverInterrupted(s) ==
    /\ reader[s].pc = "recover"
    /\ RecoverTask(reader[s].task)
    /\ reader' = [reader EXCEPT ![s] = NewReader("done")]
    /\ UNCHANGED <<agentVars, registry, info, stop>>

\* The steps of the reader of s.  Those that leave the task table alone come first.
ReaderNext(s) ==
    \/ /\ \/ ReadAfterStop(s) \/ ReadInit(s) \/ ReadAssistant(s) \/ ReadResult(s)
          \/ TakeCurrentTask(s) \/ ReadEof(s) \/ Finalize(s)
       /\ UNCHANGED tasks
    \/ SettleTurn(s)
    \/ RecoverInterrupted(s)
=============================================================================
