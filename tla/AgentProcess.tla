---------------------------- MODULE AgentProcess -----------------------------
(***************************************************************************)
(* The agent processes the orchestrator talks to.  They are not part of    *)
(* the repository: what is said of them here is what core.rs relies on.    *)
(* An agent reads user turns from its stdin, one JSON line each, and       *)
(* writes events to its stdout: an "init", then for every turn any number  *)
(* of "assistant" events and one "result".  It may die at any moment, and  *)
(* what it had written can still be read after that.  A turn is            *)
(* represented by the task it carries the prompt of, NoTask for a message  *)
(* that a user typed.                                                      *)
(***************************************************************************)
EXTENDS TaskQueue, Sequences

CONSTANTS
    AgentFaults,    \* what an agent of this instance may do wrong
    StdinCap,       \* how many turns the stdin pipe of an agent holds
    LongTurns,      \* the turns whose line is longer than the whole pipe
    StdoutCap       \* how many events its stdout pipe holds

Turn == Tasks \cup {NoTask}

ASSUME LongAssumption == LongTurns \subseteq Turn
ASSUME FaultsAssumption == AgentFaults \subseteq {"crash", "error", "exit", "linger"}
ASSUME CapsAssumption == StdinCap \in Nat \ {0} /\ StdoutCap \in Nat \ {0}

VARIABLES
    proc,           \* the life of each process
    stdin,          \* turns written and not yet answered
    stdout,         \* events written and not yet read
    answered        \* history: the tasks an agent has answered without error

agentVars == <<proc, stdin, stdout, answered>>

ProcState == {"none", "booting", "running", "closing", "exit0", "exitN"}
Event == [type : {"init", "assistant", "result"}, is_error : BOOLEAN]

InitEvent == [type |-> "init", is_error |-> FALSE]
AssistantEvent == [type |-> "assistant", is_error |-> FALSE]
ResultEvent(is_error) == [type |-> "result", is_error |-> is_error]

AgentsInit ==
    /\ proc = [s \in Sessions |-> "none"]
    /\ stdin = [s \in Sessions |-> <<>>]
    /\ stdout = [s \in Sessions |-> <<>>]
    /\ answered = {}

AgentsTypeOK ==
    /\ proc \in [Sessions -> ProcState]
    /\ stdin \in [Sessions -> Seq(Turn)]
    /\ stdout \in [Sessions -> Seq(Event)]
    /\ answered \subseteq Tasks

Exited(s) == proc[s] \in {"exit0", "exitN"}

\* Its stdout has reached its end for the reader: closed by the agent, or by its exit.
AtEof(s) == stdout[s] = <<>> /\ (Exited(s) \/ proc[s] = "closing")

-----------------------------------------------------------------------------
Emit(s, event) ==
    /\ Len(stdout[s]) < StdoutCap
    /\ stdout' = [stdout EXCEPT ![s] = Append(@, event)]

AgentInit(s) ==
    /\ proc[s] = "booting"
    /\ Emit(s, InitEvent)
    /\ proc' = [proc EXCEPT ![s] = "running"]
    /\ UNCHANGED <<stdin, answered>>

\* Progress within a turn.  Consecutive assistant events are one: each sets the same status.
AgentSpeak(s) ==
    /\ proc[s] = "running"
    /\ stdin[s] # <<>>
    /\ stdout[s] = <<>>
    /\ Emit(s, AssistantEvent)
    /\ UNCHANGED <<proc, stdin, answered>>

AgentReply(s) ==
    /\ proc[s] = "running"
    /\ stdin[s] # <<>>
    /\ \E is_error \in IF "error" \in AgentFaults THEN BOOLEAN ELSE {FALSE} :
         /\ Emit(s, ResultEvent(is_error))
         /\ answered' = IF is_error THEN answered
                                    ELSE answered \cup ({Head(stdin[s])} \cap Tasks)
    /\ stdin' = [stdin EXCEPT ![s] = Tail(@)]
    /\ UNCHANGED proc

\* What was in the stdin of a process is lost with it.
Die(s, code) ==
    /\ proc' = [proc EXCEPT ![s] = code]
    /\ stdin' = [stdin EXCEPT ![s] = <<>>]

AgentCrash(s) ==
    /\ "crash" \in AgentFaults
    /\ proc[s] \in {"booting", "running"}
    /\ Die(s, "exitN")
    /\ UNCHANGED <<stdout, answered>>

\* An exit with code 0: between turns or in the middle of one.
AgentExit(s) ==
    /\ "exit" \in AgentFaults
    /\ proc[s] = "running"
    /\ Die(s, "exit0")
    /\ UNCHANGED <<stdout, answered>>

\* The agent closes its stdout, or hands it to no one, and stays alive for a while.
AgentClose(s) ==
    /\ "linger" \in AgentFaults
    /\ proc[s] = "running"
    /\ proc' = [proc EXCEPT ![s] = "closing"]
    /\ UNCHANGED <<stdin, stdout, answered>>

AgentCloseEnd(s) ==
    /\ proc[s] = "closing"
    /\ Die(s, "exitN")
    /\ UNCHANGED <<stdout, answered>>

AgentNext(s) ==
    \/ AgentInit(s) \/ AgentSpeak(s) \/ AgentReply(s)
    \/ AgentCrash(s) \/ AgentExit(s) \/ AgentClose(s) \/ AgentCloseEnd(s)

-----------------------------------------------------------------------------
(* What the orchestrator does to a process.                                *)

StartProcess(s) == proc' = [proc EXCEPT ![s] = "booting"]

\* ChildHandle::kill: without effect on a process that has exited.
Kill(s) ==
    IF proc[s] \in {"booting", "running", "closing"}
    THEN Die(s, "exitN")
    ELSE UNCHANGED <<proc, stdin>>

\* write_all blocks while the pipe is full.  A line longer than the pipe is through only when the
\* agent has read of it: an agent that is starting, or is on an earlier turn, does not.
WriteTurn(s, turn) ==
    /\ ~Exited(s)
    /\ Len(stdin[s]) < StdinCap
    /\ turn \in LongTurns => proc[s] = "running" /\ stdin[s] = <<>>
    /\ stdin' = [stdin EXCEPT ![s] = Append(@, turn)]
=============================================================================
