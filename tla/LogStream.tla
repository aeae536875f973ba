------------------------------ MODULE LogStream ------------------------------
(***************************************************************************)
(* The structured log: lines are numbered by the database and sent to the  *)
(* window by the threads that write them; a log view (terminals.ts) shows  *)
(* the recent history and then what comes in, and voice mode (voice.ts)    *)
(* speaks what the targeted session says.                                  *)
(***************************************************************************)
EXTENDS Naturals, SequencesExt

CONSTANTS
    Workers,        \* headless sessions
    NoWorker,       \* no session is targeted
    HistoryLimit,   \* how many lines a view asks for: 300 in the code
    BodyCap,        \* how many lines a view keeps: 800 in the code
    LineMax,        \* bound: how many lines are written
    LogBudget       \* bound: how often the user opens, closes, targets or toggles

ASSUME NoWorkerAssumption == NoWorker \notin Workers
ASSUME ViewAssumption == HistoryLimit \in Nat \ {0} /\ BodyCap \in Nat \ {0}
ASSUME LogBoundsAssumption == LineMax \in Nat /\ LogBudget \in Nat

VARIABLES
    logs,           \* the table logs: the line with id i is logs[i]
    sending,        \* the line each thread has inserted and not sent yet, 0 for none
    inbox,          \* the lines on their way to the window
    views,          \* the log view of each session
    voice,          \* whether voice mode is on, its target, and lastUtteredId
    spoken,         \* history: the lines that were spoken
    since,          \* history: how many lines there were when voice mode was last changed
    clicks          \* what is left of LogBudget

logVars == <<logs, sending, inbox, views, voice, spoken, since, clicks>>

\* Each worker has a reader of its stdout and one of its stderr (which stands for the scheduler
\* too); the main thread logs what the user sends.  Only stdout has assistant lines.
Main == <<NoWorker, "main">>
Writers == (Workers \X {"stdout", "stderr"}) \cup {Main}

Line == [session : Workers, kind : {"assistant", "other"}]

Kinds(w) == IF w # Main /\ w[2] = "stdout" THEN {"assistant", "other"} ELSE {"other"}
Source(w) == IF w = Main THEN Workers ELSE {w[1]}

Id == 1 .. LineMax
View == [open : BOOLEAN, history : {"none", "asked", "answered"}, answer : Seq(Id), body : Seq(Id)]
NoView == [open |-> FALSE, history |-> "none", answer |-> <<>>, body |-> <<>>]

-----------------------------------------------------------------------------
(* The window.                                                             *)

LastOf(seq, n) == SubSeq(seq, IF Len(seq) > n THEN Len(seq) - n + 1 ELSE 1, Len(seq))

AppendedAll(view, ids) ==   \* a slip: the view grows without bound
    [view EXCEPT !.body = @ \o ids]

\* appendLog, for each of these lines.
Appended(view, ids) == [view EXCEPT !.body = LastOf(@ \o ids, BodyCap)]

ShowAfterHistory(id) ==     \* a slip: lines that come in while the history is awaited are dropped
    LET s == logs[id].session IN
    views' = IF views[s].open /\ views[s].history = "none"
             THEN [views EXCEPT ![s] = Appended(@, <<id>>)] ELSE views

\* Panes.onLog
ShowLine(id) ==
    LET s == logs[id].session IN
    views' = IF views[s].open THEN [views EXCEPT ![s] = Appended(@, <<id>>)] ELSE views

SpeakAny(id) ==             \* a slip: the id is noted before the session is looked at
    LET new == voice.on /\ logs[id].kind = "assistant" /\ id > voice.last IN
    /\ voice' = IF new THEN [voice EXCEPT !.last = id] ELSE voice
    /\ spoken' = IF new /\ voice.target \in {NoWorker, logs[id].session}
                 THEN spoken \cup {id} ELSE spoken

\* Voice.onLog: every line up to the last one that was spoken is passed over.
SpeakLine(id) ==
    LET new == /\ voice.on
               /\ logs[id].kind = "assistant"
               /\ id > voice.last
               /\ voice.target \in {NoWorker, logs[id].session} IN
    /\ voice' = IF new THEN [voice EXCEPT !.last = id] ELSE voice
    /\ spoken' = IF new THEN spoken \cup {id} ELSE spoken

OnLog(id) == ShowLine(id) /\ SpeakLine(id)

Clicks == clicks > 0 /\ clicks' = clicks - 1

\* createLogView: the view is there at once, its history is asked for.
OpenView(s) ==
    /\ Clicks
    /\ ~views[s].open
    /\ views' = [views EXCEPT ![s] = [NoView EXCEPT !.open = TRUE, !.history = "asked"]]
    /\ UNCHANGED <<logs, sending, inbox, voice, spoken, since>>

\* Panes.remove: an answer that is still to come is for a body that nobody sees.
CloseView(s) ==
    /\ Clicks
    /\ views[s].open
    /\ views' = [views EXCEPT ![s] = NoView]
    /\ UNCHANGED <<logs, sending, inbox, voice, spoken, since>>

\* recent_logs: the last HistoryLimit lines of a session, returned oldest first.
LinesFrom(s, i) == {j \in i .. Len(logs) : logs[j].session = s}
RecentLines(s) == {i \in LinesFrom(s, 1) : Cardinality(LinesFrom(s, i)) =< HistoryLimit}
OldestFirst(ids) ==
    [k \in 1 .. Cardinality(ids) |-> CHOOSE i \in ids : Cardinality({j \in ids : j =< i}) = k]

\* get_logs, on the main thread.
AnswerHistory(s) ==
    /\ sending[Main] = 0
    /\ views[s].history = "asked"
    /\ views' = [views EXCEPT ![s].history = "answered",
                              ![s].answer = OldestFirst(RecentLines(s))]
    /\ UNCHANGED <<logs, sending, inbox, voice, spoken, since, clicks>>

\* The answer reaches the view, which has gone on showing what came in.
Backfill(s) ==
    /\ views[s].history = "answered"
    /\ views' = [views EXCEPT ![s] = [Appended(@, @.answer) EXCEPT !.history = "none",
                                                                   !.answer = <<>>]]
    /\ UNCHANGED <<logs, sending, inbox, voice, spoken, since, clicks>>

\* The target follows the selection or the mouse; lastUtteredId is kept.
TargetVoice(s) ==
    /\ Clicks
    /\ s # voice.target
    /\ voice' = [voice EXCEPT !.target = s]
    /\ since' = Len(logs)
    /\ UNCHANGED <<logs, sending, inbox, views, spoken>>

ToggleVoice ==
    /\ Clicks
    /\ voice' = [voice EXCEPT !.on = ~@]
    /\ since' = Len(logs)
    /\ UNCHANGED <<logs, sending, inbox, views, spoken>>

-----------------------------------------------------------------------------
(* Core::log: the line gets its id under the mutex of the database, and is *)
(* sent after that.                                                        *)

InsertLine(w) ==
    /\ sending[w] = 0
    /\ Len(logs) < LineMax
    /\ \E s \in Source(w), k \in Kinds(w) : logs' = Append(logs, [session |-> s, kind |-> k])
    /\ sending' = [sending EXCEPT ![w] = Len(logs) + 1]
    /\ UNCHANGED <<inbox, views, voice, spoken, since, clicks>>

SendLine(w) ==
    /\ w # Main
    /\ sending[w] # 0
    /\ inbox' = Append(inbox, sending[w])
    /\ sending' = [sending EXCEPT ![w] = 0]
    /\ UNCHANGED <<logs, views, voice, spoken, since, clicks>>

\* What the main thread sends is in the window at once.
SendFromMain ==
    /\ sending[Main] # 0
    /\ OnLog(sending[Main])
    /\ sending' = [sending EXCEPT ![Main] = 0]
    /\ UNCHANGED <<logs, inbox, since, clicks>>

\* The event loop of the main thread hands the next line to the window.
DeliverLine ==
    /\ sending[Main] = 0
    /\ inbox # <<>>
    /\ inbox' = Tail(inbox)
    /\ OnLog(Head(inbox))
    /\ UNCHANGED <<logs, sending, since, clicks>>

LogInit ==
    /\ logs = <<>>
    /\ sending = [w \in Writers |-> 0]
    /\ inbox = <<>>
    /\ views = [s \in Workers |-> NoView]
    /\ voice = [on |-> FALSE, target |-> NoWorker, last |-> 0]
    /\ spoken = {}
    /\ since = 0
    /\ clicks = LogBudget

LogNext ==
    \/ \E w \in Writers : InsertLine(w) \/ SendLine(w)
    \/ \E s \in Workers : OpenView(s) \/ CloseView(s) \/ AnswerHistory(s) \/ Backfill(s)
    \/ \E s \in Workers \cup {NoWorker} : TargetVoice(s)
    \/ SendFromMain \/ DeliverLine \/ ToggleVoice

LogSpec == LogInit /\ [][LogNext]_logVars

-----------------------------------------------------------------------------
(* Properties.                                                             *)

\* Every variable stays in its type, and a view never holds more lines than BodyCap.
LogTypeOK ==
    /\ logs \in Seq(Line) /\ Len(logs) =< LineMax
    /\ sending \in [Writers -> 0 .. LineMax]
    /\ inbox \in Seq(Id)
    /\ views \in [Workers -> View]
    /\ \A s \in Workers : Len(views[s].body) =< BodyCap
    /\ voice \in [on : BOOLEAN, target : Workers \cup {NoWorker}, last : 0 .. LineMax]
    /\ spoken \subseteq Id
    /\ since \in 0 .. LineMax
    /\ clicks \in Nat

AtRest(s) ==
    /\ \A w \in Writers : sending[w] = 0
    /\ inbox = <<>>
    /\ views[s].open /\ views[s].history = "none"

\* Between the history that was asked for and the lines that came in no line is lost, whenever
\* the view was opened and whoever was writing: when nothing is on its way, a view that has not
\* reached its cap shows at least the lines it would get if it were opened now.
NothingLost ==
    \A s \in Workers : AtRest(s) /\ Len(views[s].body) < BodyCap =>
        RecentLines(s) \subseteq ToSet(views[s].body)

\* "Assistant log lines for the active session are spoken aloud" (voice.ts:4): of the lines that
\* were written since the user last chose a session, voice mode passes over none of that session,
\* although it keeps one last id for all sessions.
TargetHeard ==
    [][Len(inbox') < Len(inbox) =>
          LET id == Head(inbox) IN
          /\ voice.on
          /\ logs[id].kind = "assistant"
          /\ logs[id].session = voice.target
          /\ id > since
          => id \in spoken']_logVars
=============================================================================
