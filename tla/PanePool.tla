------------------------------ MODULE PanePool -------------------------------
(***************************************************************************)
(* Lazy rendering: the interactive sessions, the few of them that are      *)
(* attached (attach_lru and the attached flags of core.rs), their reader   *)
(* threads with the ring buffers, the resource monitor, and the window,    *)
(* which opens and closes a pane as the updates of a session tell it.      *)
(* Commands run on the main thread, one at a time; what that thread emits  *)
(* reaches the window at once, what another thread emits waits in a queue  *)
(* until the main thread is between two commands.                          *)
(***************************************************************************)
EXTENDS Ring, FiniteSets

CONSTANTS
    Terms,          \* the session ids, each once
    AttachLimit,    \* the most panes that can be asked for: 16 in the code
    MaxAttached,    \* the values of max_attached the configuration may have
    Commands,       \* the commands the user of this instance gives
    UserBudget,     \* bound: how many of them
    Writers,        \* bound: the terminals that write
    ByteMax,        \* bound: how many bytes each of them writes
    ChunkMax,       \* how many of them one read may return
    TermsExit,      \* whether a terminal may end by itself
    MonitorRuns,    \* whether the monitor is part of this instance
    QueueMax        \* bound: the monitor waits while so many messages are queued

AllCommands == {"attach", "detach", "remove", "rename", "kill", "config", "reload"}

ASSUME AttachLimitAssumption == AttachLimit \in Nat \ {0}
ASSUME MaxAttachedAssumption == MaxAttached \subseteq Nat /\ MaxAttached # {}
ASSUME PoolCommandsAssumption == Commands \subseteq AllCommands /\ UserBudget \in Nat
ASSUME WritersAssumption == Writers \subseteq Terms
ASSUME PoolBoundsAssumption == ByteMax \in Nat /\ ChunkMax \in Nat \ {0} /\ QueueMax \in Nat \ {0}
ASSUME PoolFlagsAssumption == TermsExit \in BOOLEAN /\ MonitorRuns \in BOOLEAN

VARIABLES
    registry,       \* the keys of Core.sessions
    ended,          \* the sessions whose status is terminal
    attached,       \* the sessions whose attached flag is set
    stop,           \* the sessions whose stop flag is set
    lru,            \* attach_lru: the ids in the order they were attached, the oldest first
    max_attached,   \* of the configuration
    todo,           \* what is left of the command the main thread is in
    ring,           \* the ring buffer of each session; its bytes are numbered
    produced,       \* how many bytes each terminal has written
    reader,         \* the reader thread of each session
    monitor,        \* the copies of sessions the monitor has taken and not sent yet
    queue,          \* messages on their way to the window
    rows,           \* the sessions the window lists
    panes,          \* the panes of the window
    wired,          \* whether the window listens to messages
    drawn,          \* history: the sessions whose pane is open and was, since an attach of it ended
    budget          \* what is left of UserBudget

coreVars == <<registry, ended, attached, stop, lru, max_attached, todo>>
readerVars == <<ring, produced, reader>>
windowVars == <<rows, panes, wired>>
stateVars == <<coreVars, readerVars, monitor, queue, windowVars, budget>>
poolVars == <<stateVars, drawn>>

-----------------------------------------------------------------------------
(* The window: wireEvents and syncPane of main.ts, Panes of terminals.ts.  *)

Byte == 1 .. ByteMax
Pane == [open : BOOLEAN, shown : SUBSET Byte]
Closed == [open |-> FALSE, shown |-> {}]
Blank == [open |-> TRUE, shown |-> {}]

Elems(seq) == {seq[i] : i \in DOMAIN seq}

SyncedOpen(pane, is_attached) ==     \* a slip: a pane is never closed by an update
    IF is_attached /\ ~pane.open THEN Blank ELSE pane

\* syncPane: open a pane that is missing, close one that is no longer attached.
Synced(pane, is_attached) ==
    CASE is_attached /\ ~pane.open -> Blank
      [] ~is_attached /\ pane.open -> Closed
      [] OTHER -> pane

\* onTermData: bytes for a pane that is not open are dropped.
Written(pane, bytes) ==
    IF pane.open THEN [pane EXCEPT !.shown = @ \cup bytes] ELSE pane

ShowUpdate(s, is_attached) ==
    /\ rows' = rows \cup {s}
    /\ panes' = [panes EXCEPT ![s] = Synced(@, is_attached)]
    /\ UNCHANGED wired

ShowData(s, bytes) ==
    /\ panes' = [panes EXCEPT ![s] = Written(@, bytes)]
    /\ UNCHANGED <<rows, wired>>

ShowRemoved(s) ==
    /\ rows' = rows \ {s}
    /\ panes' = [panes EXCEPT ![s] = Closed]
    /\ UNCHANGED wired

Update(s, is_attached) == [type |-> "update", s |-> s, attached |-> is_attached, bytes |-> <<>>]
Data(s, bytes) == [type |-> "data", s |-> s, attached |-> FALSE, bytes |-> bytes]
Send(message) == queue' = Append(queue, message)

-----------------------------------------------------------------------------
(* The main thread.                                                        *)

Ready == todo = <<>>

Gives(command) ==
    /\ Ready /\ wired
    /\ command \in Commands
    /\ budget > 0
    /\ budget' = budget - 1

\* A user names a session that exists or that is still remembered by the window.
Seen(s) == reader[s].pc # "none"

Op(name, s) == [op |-> name, s |-> s]

\* spawn_pty_session: the session starts Idle, detached, and its reader starts reading.
Create(s) ==
    /\ Ready /\ wired
    /\ ~Seen(s)
    /\ registry' = registry \cup {s}
    /\ reader' = [reader EXCEPT ![s].pc = "read"]
    /\ ShowUpdate(s, FALSE)
    /\ UNCHANGED <<ended, attached, stop, lru, max_attached, todo, ring, produced, monitor, queue,
                   budget>>

\* retain: what is left of a list without s.
Without(seq, s) ==
    LET kept[n \in 0 .. Len(seq)] ==
            IF n = 0 THEN <<>>
            ELSE IF seq[n] = s THEN kept[n - 1] ELSE Append(kept[n - 1], seq[n])
    IN  kept[Len(seq)]

\* max_attached.clamp(1, 16)
AttachCap ==
    CASE max_attached < 1 -> 1
      [] max_attached > AttachLimit -> AttachLimit
      [] OTHER -> max_attached

\* The oldest of a list that go, to leave the cap.
Evicted(list) == SubSeq(list, 1, Minus(Len(list), AttachCap))

ReplayFirst(s) ==       \* a slip: the replay is sent before the pane is there
    LET list == Append(Without(lru, s), s) IN
    /\ Gives("attach")
    /\ Seen(s)
    /\ lru' = DropFirst(list, Minus(Len(list), AttachCap))
    /\ todo' = [i \in DOMAIN Evicted(list) |-> Op("off", list[i])]
               \o <<Op("replay", s), Op("on", s)>>
    /\ UNCHANGED <<registry, ended, attached, stop, max_attached, readerVars, monitor, queue,
                   windowVars>>

EvictOne(s) ==          \* a slip: one makes room for one
    LET list == Append(Without(lru, s), s)
        n == IF Len(list) > AttachCap THEN 1 ELSE 0 IN
    /\ Gives("attach")
    /\ Seen(s)
    /\ lru' = DropFirst(list, n)
    /\ todo' = [i \in 1 .. n |-> Op("off", list[i])] \o <<Op("on", s), Op("replay", s)>>
    /\ UNCHANGED <<registry, ended, attached, stop, max_attached, readerVars, monitor, queue,
                   windowVars>>

\* attach, under the mutex of attach_lru; the flags are set after that, one by one.
Attach(s) ==
    LET list == Append(Without(lru, s), s) IN
    /\ Gives("attach")
    /\ Seen(s)
    /\ lru' = DropFirst(list, Minus(Len(list), AttachCap))
    /\ todo' = [i \in DOMAIN Evicted(list) |-> Op("off", list[i])]
               \o <<Op("on", s), Op("replay", s)>>
    /\ UNCHANGED <<registry, ended, attached, stop, max_attached, readerVars, monitor, queue,
                   windowVars>>

DetachKeepsSlot(s) ==   \* a slip: the list is forgotten
    /\ Gives("detach")
    /\ Seen(s)
    /\ todo' = <<Op("off", s)>>
    /\ UNCHANGED <<registry, ended, attached, stop, lru, max_attached, readerVars, monitor, queue,
                   windowVars>>

Detach(s) ==
    /\ Gives("detach")
    /\ Seen(s)
    /\ lru' = Without(lru, s)
    /\ todo' = <<Op("off", s)>>
    /\ UNCHANGED <<registry, ended, attached, stop, max_attached, readerVars, monitor, queue,
                   windowVars>>

Doing(name) == todo # <<>> /\ Head(todo).op = name

\* set_attached: without effect on a session that is not in the registry.
SetAttached ==
    LET s == Head(todo).s IN
    /\ Doing("on") \/ Doing("off")
    /\ IF s \in registry
       THEN /\ attached' = IF Doing("on") THEN attached \cup {s} ELSE attached \ {s}
            /\ ShowUpdate(s, Doing("on"))
       ELSE UNCHANGED <<attached, windowVars>>
    /\ todo' = Tail(todo)
    /\ UNCHANGED <<registry, ended, stop, lru, max_attached, readerVars, monitor, queue, budget>>

Replay ==
    LET s == Head(todo).s IN
    /\ Doing("replay")
    /\ IF s \in registry /\ ring[s] # <<>>
       THEN ShowData(s, Elems(ring[s]))
       ELSE UNCHANGED windowVars
    /\ todo' = Tail(todo)
    /\ UNCHANGED <<registry, ended, attached, stop, lru, max_attached, readerVars, monitor, queue,
                   budget>>

\* remove: the stop flag and the kill are for a session that has not ended; the attached flag
\* stays as it is.
Remove(s) ==
    /\ Gives("remove")
    /\ s \in registry
    /\ registry' = registry \ {s}
    /\ stop' = IF s \in ended THEN stop ELSE stop \cup {s}
    /\ lru' = Without(lru, s)
    /\ ShowRemoved(s)
    /\ UNCHANGED <<ended, attached, max_attached, todo, readerVars, monitor, queue>>

Rename(s) ==
    /\ Gives("rename")
    /\ s \in registry
    /\ ShowUpdate(s, s \in attached)
    /\ UNCHANGED <<coreVars, readerVars, monitor, queue>>

KillTerm(s) ==
    /\ Gives("kill")
    /\ s \in registry
    /\ stop' = stop \cup {s}
    /\ UNCHANGED <<registry, ended, attached, lru, max_attached, todo, readerVars, monitor, queue,
                   windowVars>>

\* set_config: nothing is detached when the cap becomes less.
SetConfig(n) ==
    /\ Gives("config")
    /\ max_attached' = n
    /\ UNCHANGED <<registry, ended, attached, stop, lru, todo, readerVars, monitor, queue,
                   windowVars>>

Continue == SetAttached \/ Replay

\* The page is loaded again: init of main.ts asks for the sessions and opens a blank pane for each
\* that is attached.  It listens, to the user too, only after that.
Reload ==
    /\ Gives("reload")
    /\ wired' = FALSE
    /\ rows' = registry
    /\ panes' = [s \in Terms |-> IF s \in registry \cap attached THEN Blank ELSE Closed]
    /\ UNCHANGED <<coreVars, readerVars, monitor, queue>>

WireEvents ==
    /\ ~wired
    /\ wired' = TRUE
    /\ UNCHANGED <<coreVars, readerVars, monitor, queue, rows, panes, budget>>

MainNext ==
    \/ \E s \in Terms : \/ Create(s) \/ Attach(s) \/ Detach(s)
                        \/ Remove(s) \/ Rename(s) \/ KillTerm(s)
    \/ \E n \in MaxAttached : SetConfig(n)
    \/ Continue \/ Reload \/ WireEvents

-----------------------------------------------------------------------------
(* run_pty_reader.                                                         *)

Reader == [pc   : {"none", "read", "check", "emit", "end", "last", "done"},
           chunk : Seq(Byte),
           copy  : BOOLEAN]

NewReader == [pc |-> "none", chunk |-> <<>>, copy |-> FALSE]

\* A chunk goes into the ring whether or not the session is attached.
ReadChunk(s) ==
    /\ reader[s].pc = "read" /\ s \in Writers
    /\ \E n \in 1 .. ChunkMax :
         LET chunk == [i \in 1 .. n |-> produced[s] + i] IN
         /\ produced[s] + n =< ByteMax
         /\ produced' = [produced EXCEPT ![s] = @ + n]
         /\ ring' = [ring EXCEPT ![s] = Push(@, chunk)]
         /\ reader' = [reader EXCEPT ![s].pc = "check", ![s].chunk = chunk]
    /\ UNCHANGED <<coreVars, monitor, queue, windowVars, budget>>

\* The chunk is done with; the stop flag is looked at before the next read.
NextChunk(s) ==
    reader' = [reader EXCEPT ![s].pc = IF s \in stop THEN "end" ELSE "read", ![s].chunk = <<>>]

CheckAttached(s) ==
    /\ reader[s].pc = "check"
    /\ IF s \in attached THEN reader' = [reader EXCEPT ![s].pc = "emit"] ELSE NextChunk(s)
    /\ UNCHANGED <<coreVars, ring, produced, monitor, queue, windowVars, budget>>

EmitChunk(s) ==
    /\ reader[s].pc = "emit"
    /\ Send(Data(s, reader[s].chunk))
    /\ NextChunk(s)
    /\ UNCHANGED <<coreVars, ring, produced, monitor, windowVars, budget>>

\* The end of the stream, and finalize up to the release of the sessions mutex: the session is
\* copied to be sent later.
EndStream(s) ==
    /\ \/ reader[s].pc = "end"
       \/ reader[s].pc = "read" /\ (TermsExit \/ s \in stop)
    /\ IF s \in registry
       THEN /\ ended' = ended \cup {s}
            /\ reader' = [reader EXCEPT ![s].pc = "last", ![s].copy = s \in attached]
       ELSE /\ reader' = [reader EXCEPT ![s].pc = "done"]
            /\ UNCHANGED ended
    /\ UNCHANGED <<registry, attached, stop, lru, max_attached, todo, ring, produced, monitor,
                   queue, windowVars, budget>>

\* The last update of a session.
SendLast(s) ==
    /\ reader[s].pc = "last"
    /\ Send(Update(s, reader[s].copy))
    /\ reader' = [reader EXCEPT ![s].pc = "done", ![s].copy = FALSE]
    /\ UNCHANGED <<coreVars, ring, produced, monitor, windowVars, budget>>

TermReaderNext(s) ==
    ReadChunk(s) \/ CheckAttached(s) \/ EmitChunk(s) \/ EndStream(s) \/ SendLast(s)

-----------------------------------------------------------------------------
(* The monitor: it copies the active sessions under the mutex and sends    *)
(* the copies, in the order of the hash map, after its release.            *)

Sample ==
    /\ MonitorRuns
    /\ monitor = {}
    /\ monitor' = {[s |-> s, attached |-> s \in attached] : s \in registry \ ended}
    /\ UNCHANGED <<coreVars, readerVars, queue, windowVars, budget>>

MonitorSend ==
    /\ Len(queue) < QueueMax
    /\ \E m \in monitor :
         /\ Send(Update(m.s, m.attached))
         /\ monitor' = monitor \ {m}
    /\ UNCHANGED <<coreVars, readerVars, windowVars, budget>>

MonitorNext == Sample \/ MonitorSend

\* The event loop of the main thread hands the next message to the window, if that listens.
Deliver ==
    /\ Ready
    /\ queue # <<>>
    /\ queue' = Tail(queue)
    /\ LET m == Head(queue) IN
         CASE ~wired -> UNCHANGED windowVars
           [] wired /\ m.type = "update" -> ShowUpdate(m.s, m.attached)
           [] wired /\ m.type = "data" -> ShowData(m.s, Elems(m.bytes))
    /\ UNCHANGED <<coreVars, readerVars, monitor, budget>>

-----------------------------------------------------------------------------
PoolInit ==
    /\ registry = {}
    /\ ended = {}
    /\ attached = {}
    /\ stop = {}
    /\ lru = <<>>
    /\ max_attached \in MaxAttached
    /\ todo = <<>>
    /\ ring = [s \in Terms |-> <<>>]
    /\ produced = [s \in Terms |-> 0]
    /\ reader = [s \in Terms |-> NewReader]
    /\ monitor = {}
    /\ queue = <<>>
    /\ rows = {}
    /\ panes = [s \in Terms |-> Closed]
    /\ wired = TRUE
    /\ drawn = {}
    /\ budget = UserBudget

\* The sessions of which this step is the end of an attach.  (That of a detach closes the pane.)
AttachEnds == IF todo # <<>> /\ todo' = <<>> THEN {Head(todo).s} ELSE {}

\* What a page had drawn goes with the page.
Remember ==
    drawn' = IF wired' THEN {s \in drawn \cup AttachEnds : panes'[s].open} ELSE {}

PoolNext ==
    /\ \/ MainNext
       \/ \E s \in Terms : TermReaderNext(s)
       \/ MonitorNext
       \/ Deliver
    /\ Remember

PoolSpec == PoolInit /\ [][PoolNext]_poolVars

\* Threads and the event loop run; users and terminals owe nothing.
PoolFairness ==
    /\ WF_stateVars(Continue \/ WireEvents)
    /\ WF_stateVars(Deliver)
    /\ WF_stateVars(MonitorNext)
    /\ \A s \in Terms : WF_stateVars(CheckAttached(s) \/ EmitChunk(s) \/ SendLast(s))

FairPoolSpec == PoolSpec /\ PoolFairness

-----------------------------------------------------------------------------
(* Properties.                                                             *)

\* Every variable stays in its type, and no ring grows past its capacity.
PoolTypeOK ==
    /\ registry \subseteq Terms /\ ended \subseteq Terms /\ attached \subseteq Terms
    /\ stop \subseteq Terms /\ rows \subseteq Terms
    /\ lru \in Seq(Terms)
    /\ max_attached \in MaxAttached
    /\ todo \in Seq([op : {"on", "off", "replay"}, s : Terms])
    /\ ring \in [Terms -> {q \in Seq(Byte) : Len(q) =< RingCap}]
    /\ produced \in [Terms -> 0 .. ByteMax]
    /\ reader \in [Terms -> Reader]
    /\ monitor \subseteq [s : Terms, attached : BOOLEAN]
    /\ queue \in Seq([type : {"update", "data"}, s : Terms, attached : BOOLEAN, bytes : Seq(Byte)])
    /\ panes \in [Terms -> Pane] /\ wired \in BOOLEAN /\ drawn \subseteq Terms
    /\ budget \in Nat

\* All that a terminal has written.
Output(n) == [i \in 1 .. n |-> i]

\* "the most recent terminal output" (ring.rs:1): whatever the sizes of the chunks were, the ring
\* of a session holds the last RingCap of the bytes it has written, in their order, and all of
\* them as long as they fit.
MostRecent ==
    \A s \in Terms : ring[s] = DropFirst(Output(produced[s]), Minus(produced[s], RingCap))

\* The list and the flags never part: between two commands the attached sessions are those of
\* attach_lru that are still in the registry, and no session is in the list twice.  (A session
\* that was removed may be in the list: attach does not ask.)
FlagsFollowLru ==
    Ready => /\ attached \cap registry = Elems(lru) \cap registry
             /\ Cardinality(Elems(lru)) = Len(lru)

\* When an attach is through, no more sessions are attached than max_attached allows, also when
\* it was lowered since the last one.
AttachEnforcesCap ==
    [][Doing("replay") /\ todo' = <<>> => Cardinality(attached \cap registry) =< AttachCap]_poolVars

\* Nothing of s is on its way.
Quiet(s) == Ready /\ queue = <<>> /\ reader[s].pc \notin {"check", "emit"}

\* "on attach we replay the buffer once so the terminal repaints instantly" (ring.rs:3): whatever the
\* readers, the monitor, the end of sessions and the commands of the user do in whatever order, the
\* pane of a session that an attach has left open, and that nothing has closed since, shows every
\* byte that is in the ring.  (A pane that an update opens again is blank: nobody replays.)
NothingMissing ==
    \A s \in registry \cap drawn : Quiet(s) => Elems(ring[s]) \subseteq panes[s].shown

\* When the user comes to rest, the monitor puts right what stale updates, and updates that a page
\* being loaded has missed, have made of the panes of the sessions that run.
PanesConverge ==
    \A s \in Terms :
        <>[](s \in registry \ ended => (panes[s].open <=> s \in attached))

-----------------------------------------------------------------------------
(* What the documentation of the code says, and the code does not do.      *)

\* "Remove a session from the registry entirely" (remove, core.rs:782): when nothing is on its
\* way, the window lists no session that is not there.
RemovedIsGone ==
    /\ Ready /\ queue = <<>> /\ monitor = {}
    /\ \A s \in Terms : reader[s].pc # "last"
    => rows \subseteq registry
=============================================================================
