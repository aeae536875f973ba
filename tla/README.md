# A TLA+ verification of the multi-AI harness

The harness (`src/`) is a Tauri desktop program. A Rust core runs many coding agents as child
processes, feeds them tasks from a queue, restarts what crashes, and shows a few of them in a
window written in TypeScript. This directory holds the TLA+ modules that model the core, the
configurations that check them with TLC on small instances, and the theorems about them that
TLAPS checks for every instance.

Paths are relative to the repository: `core.rs` stands for `src/src-tauri/src/core.rs`, `main.ts`
for `src/src/main.ts`.

## The system

| Component | State | Operations | Acts in |
|---|---|---|---|
| Task table (`core.rs`) | `Core.tasks`, id to `Task`, one mutex | enqueue, cancel, take next, start, settle, fail, recover | every thread |
| Headless sessions (`core.rs`, `session.rs`) | `Core.sessions`, id to `Session`, one mutex; the stdin handle and the child of each, a mutex each; the flags `stop` and `attached` | spawn, send, update_info, kill, remove, broadcast, rename | every thread |
| Reader of a headless session (`core.rs`) | its place in the stream | one event per line; the end of a turn; finalize (reap, final status, recovery) | one thread per session |
| Interactive sessions (`core.rs`) | the PTY, the ring buffer | read, push, emit when attached; finalize | one thread per session |
| Scheduler (`scheduler.rs`) | none of its own | every 400 ms: throttle; admit until the cap or an empty queue; pool or spawn; assign | one thread |
| Resource monitor (`monitor.rs`) | metrics | every 1.5 s: sample, aggregate, send the metrics and a copy of every active session | one thread |
| Commands (`commands.rs`) | - | the calls of the window, one at a time | Tauri's main thread |
| Pane pool (`core.rs`) | `attach_lru`, the `attached` flags | attach with eviction, detach, replay | main thread |
| Ring buffer (`ring.rs`) | the last bytes of a PTY | push, snapshot | reader, main thread |
| Structured log (`core.rs`, `storage.rs`, `terminals.ts`) | the table `logs`; the log views | insert, send; open with the recent history, append | every thread, the webview |
| Persistence (`storage.rs`) | SQLite tables | upserts after each change, configuration, logs, snapshots | every thread |
| Protocol (`protocol.rs`) | none | a line of JSON to an event; a prompt to a line | readers, senders |
| Snapshots, project files (`core.rs`) | files, a table | save and recreate a set of sessions | main thread |
| Launcher (`launcher.rs`) | none | command lines, search for executables | spawners |
| Window (`main.ts`, `terminals.ts`, `api.ts`) | rows, tasks, panes | follow the events; give commands | the webview |
| Voice mode (`voice.ts`) | the greatest log id spoken | speak assistant lines, once each | the webview |

How they interact. The threads share the two maps behind their mutexes and release a mutex
before they take the next, write to a pipe, write to the database or send an event to the
window; what they copied out may be stale by the time it is used. The agents are reached by
pipes and may die, answer, fail or fall silent at any time. The window sees events after the
fact and calls back through commands.

What is hard here, in the order in which the project takes it up:

1. A task has one status in the table and at most one session that names it; scheduler, reader
   and user change the two under different mutexes. Who settles a task, who recovers it, and can
   two do so?
2. A turn is sent in three steps (look up, write, mark) while the reader of the same session
   handles its events and its end.
3. Crash recovery, the limit on attempts, and cancellation act on the same task at once.
4. The cap on concurrent sessions and the pool of idle workers: does a queued task ever starve?
5. Attach, detach and replay against the reader and the monitor: what does a pane show?
6. Log lines that are numbered in one order and sent in another: what do a log view and voice
   mode make of them?
7. Rows and messages that are written after the mutex is released, and cross; restarts anywhere.
8. What a snapshot or a project file keeps of sessions that are still telling who they are, and
   what becomes of it when the configuration has changed.

`PROJECT.json` lists under "hazards" every point of the code where one of these bites.

## What makes each component correct

| Component | Correct when | Stated as |
|---|---|---|
| Task table | a task has one owner, the one the table names, is started at most `max_attempts` times, and what is canceled or done stays so | `ImplementsContract`, `SingleClaim`, `ClaimMatchesRecord`, `AttemptsWithinLimit`, `CanceledNeverRuns`, `CanceledNeverSent`, `DoneIsFinal` |
| Headless sessions, readers | a result is credited to the task it answers; a worker that ends leaves its task to somebody | `DoneMeansAnswered`, `NoOrphanRunning`, `OrphansAreNamed`, `NoDuplicateExecution` |
| Scheduler | admits nothing above the cap it has read, nothing forgotten between two locks, nothing starved, no prompt behind another turn | `CapRespected`, `AssignedIsHeld`, `PromptIsNext`, `NoStarvationWithRoom`, `RunningTaskEnds` |
| Commands | act on the state they find, not on the one the user saw | `RemoveFailsOwnTask` (does not hold) |
| Ring buffer | holds the most recent bytes, in order | `MostRecent` |
| Pane pool | list and flags agree, the cap holds after an attach, a pane that an attach has left open misses nothing | `FlagsFollowLru`, `AttachEnforcesCap`, `NothingMissing` |
| Monitor, window | what is shown agrees with the core in the end | `PanesConverge`, `RemovedIsGone` (does not hold) |
| Structured log, voice mode | no line is lost between history and live lines; every line of the target is spoken | `NothingLost`, `TargetHeard` |
| Persistence | the rows of what is in the core are the last state unless two publications cross, and no row claims what was not done; the configuration survives | `UncrossedIsCurrent`, `StartNeverHidesResult`, `DoneRowMeansAnswered`, `ConfigIsDurable` |
| Protocol | what the lines of an agent tell is true of it and is not forgotten | `KnowledgeIsKept` |
| Snapshots, project files, launcher | what was known of a session is what the new one runs with | `RestoredAsItWas` |

## Modules

| Module | Models | Read with |
|---|---|---|
| `TaskQueue` | the task table; one operator per critical section | `core.rs:500-522, 575-601, 823-948` |
| `AgentProcess` | the agents, as far as the core relies on them (external), and what the core does to one: start, write, kill | `session.rs:33-58`, `core.rs:134-163, 617-621` |
| `SessionRegistry` | the registry of headless sessions and the reader threads | `core.rs:109-216, 329-351, 410-573` |
| `Orchestrator` | the scheduler thread and the command thread on top of these; the specification and its properties | `scheduler.rs`, `core.rs:606-690, 771-930`, `commands.rs` |
| `MCOrchestrator` | values for the constants, and the symmetry of the session ids | |
| `TaskContract` | nothing of the code: what the orchestrator promises about a task, without threads, pipes or processes | |
| `OrchestratorProofs` | five theorems about `Orchestrator` | |
| `Ring` | the operations of the ring buffer | `ring.rs` |
| `PanePool` | interactive sessions and their readers, attach, detach and replay, the monitor, and the rows and panes of the window; the specification and its properties | `core.rs:218-327, 353-408, 692-768`, `monitor.rs`, `main.ts`, `terminals.ts` |
| `MCPanePool` | the symmetry of the session ids | |
| `ContractProofs` | three theorems about `Orchestrator` that hold with every command: the refinement of `TaskContract`, who is named, what is left behind | |
| `WorkerProofs` | seven theorems about `Orchestrator` and its pipes, most of them where the user leaves the workers to the scheduler | |
| `RingProofs` | lemmas about sequences and about `Push` | |
| `PanePoolProofs` | five theorems about `PanePool` | |
| `LogStreamProofs` | three theorems about `LogStream` | |
| `WorkspaceProofs` | four theorems about `Workspace` | |
| `Publication` | on top of `Orchestrator`: the rows of tasks and sessions, the messages to the window, restarts | `core.rs:71-122`, `storage.rs:160-195`, `lib.rs` |
| `MCPublication` | values for the constants, the symmetry of the session ids | |
| `PublicationProofs` | four theorems about `Publication`, over any number of restarts | |
| `Workspace` | configuration, launch, protocol events, snapshots and project files, restarts; the specification and its properties | `core.rs:46-68, 133-325, 410-489, 952-1167`, `launcher.rs`, `protocol.rs`, `storage.rs` |
| `MCWorkspace` | the sessions, files and configurations of the instance | |
| `LogStream` | the log table, the threads that write to it, log views and voice mode; the specification and its properties | `core.rs:87-101`, `storage.rs`, `terminals.ts`, `voice.ts` |
| `MCLogStream` | the symmetry of the workers | |

`TaskQueue` is extended by `AgentProcess`, that by `SessionRegistry`, that by `Orchestrator`:
each layer adds its variables and the operators on them, and `Orchestrator` alone has actions
with `UNCHANGED` for everything. `Publication` extends `Orchestrator` and joins to each of its
steps what that step publishes. `Orchestrator` instantiates `TaskContract` with a refinement
mapping. `PanePool` extends `Ring`. The specifications `Orchestrator`, `PanePool`, `LogStream`
and `Workspace` do not share state: an interactive session never takes a task, the log is read by
nothing but the window, and a session that is saved is saved without its task.

### Orchestrator: state and atomicity

A step is one critical section (lock, change, unlock) or one system call between two. Where the
code lets go of a mutex there is a program counter: `thread[h].pc` for the scheduler and the
command thread, `reader[s].pc` for a reader. Some correspondences:

| Model | Code |
|---|---|
| `tasks[t]` | the entry of `Core.tasks`; `"Absent"` before `enqueue_task` |
| `registry`, `info[s]` | the keys and the `SessionInfo` of `Core.sessions` |
| `info[s].context` | the pair (`info.cwd`, `spec.model`) that `find_idle_session` compares; `CwdAlias` is the directory an agent reports in `system/init`, which replaces the one it was launched in |
| `stop` | the stop flags that are set |
| `proc[s]` | the process: booting until its `init`, running, closing (stdout closed, alive), exited with 0 or not |
| `stdin[s]`, `stdout[s]` | the pipes; a turn is the task it was sent for, or `NoTask` for a user's message |
| `reader[s].task` | the local `task_id` of `on_turn_complete`, or `current_task` of `finalize` |
| `config`, `thread[Scheduler].cfg` | the fields of `Core.config` that concern tasks, which `set_config` may change at any time; the local `cfg` of `tick`, copied once for the whole tick |
| `thread[Scheduler].task`, `.sid` | the locals `task` and `sid` of `tick` |
| `thread[Ui].targets` | what is left of the targets of `broadcast` |
| `answered` | history: the tasks whose prompt an agent has answered without error |

`AgentFaults` chooses what the agents may do: `"crash"` (exit with an error at any time),
`"error"` (a result that reports one), `"exit"` (exit with 0 in the middle of a turn),
`"linger"` (the reader's stream ends while the process lives; a line that is not UTF-8 ends
the loop of `core.rs:347` in the same way).

Left out because nothing here reads it: prompts and texts, costs, tokens, times other than
`created_at`, the activity line and the log; the database and the events to the window are in
`Publication`. The
throttle of the scheduler is a tick that does nothing, hence a stuttering step. `recover_task` copies the
configuration just before it locks the table (`core.rs:576`); here the copy is part of that step, so
a `set_config` that falls between the two counts as later.

### TaskContract, and how Orchestrator implements it

The contract has four variables. `status` and `attempts` are the columns of the table. `hand` says
whether the task is between the queue and its worker: "taken" when it is Assigned, or Queued again
under a scheduler that has yet to fail it, "started" when `assign_task_to_session` has started it
and not yet entered it in the session. `owners` are the workers that may settle it or send it
back. In `Orchestrator` these are functions of the table, the program counter of the scheduler
(`HandOf`) and the claims of the readers (`Claims`). A step of the contract concerns one task: it
is taken only from the queue and only by one hand; a start is counted; a start makes at most one
owner; only an owner settles it or requeues it, and by that yields it; the limit on attempts holds
for each requeueing; a stale hand can fail a task, but never start, finish or requeue it.
`ImplementsContract` says that every step of the orchestrator, seen through the mapping, is such a
step or none.

### Publication: state and atomicity

| Model | Code |
|---|---|
| `pub[a]` | the clone a thread has made inside its critical section (`updated`, `info`, `task`), until it is written (`"row"`) and, for a task, sent (`"window"`) |
| `rows` | the column `status` of the tables `tasks` and `sessions` |
| `shown` | the status of each task in the map `tasks` of `main.ts` |
| `queue` | `task_update` messages of other threads on their way to the window, as in `PanePool` |
| `crossed`, `before` | history: what was published while another publication of the same thing was under way; what was answered in earlier lives of the program |

Each action of `Orchestrator` is used as it is and joined with `Announce` or `Silent`; a thread that
has something to publish takes no other step. `take_next_task` publishes nothing, so no row is ever
Assigned. `Restart` may come between any two steps: the maps are empty again, the rows stay, and
the ids are new ones (`Fresh`).

### Workspace: state and atomicity

| Model | Code |
|---|---|
| `config`, `saved`, `setting` | `Core.config`; the row of the table `config`; what `set_config` has written to the row and not yet to `Core.config` |
| `info[s]`, `spec[s]` | the fields of `SessionInfo` and `SessionSpec` that are saved |
| `agent[s]` | what the process runs with: its arguments, its own default for the model, and the conversation it resumed or began (external) |
| `snapshot`, `file` | the last snapshot and the project file; with each entry, as history, the session it was made of (`was`) |
| `todo` | the sessions that `restore_snapshot` or `open_project` has yet to launch; readers run in between |
| `Line(s)` | a line of an agent: its type, with the subtype where the code looks at it, and the fields that tell something, each of which may be absent; blank lines and lines of text too |

The snapshot also holds the configuration, which nothing reads back; names, prompts, costs and
tokens are left out.

### PanePool: state and atomicity

| Model | Code |
|---|---|
| `registry`, `ended`, `attached`, `stop` | the keys of `Core.sessions`; which of them have a terminal status; their `attached` and `stop` flags |
| `lru` | `attach_lru` |
| `todo` | what is left of the command the main thread is in: `attach` changes the list under its mutex and then sets the flags and replays, step by step |
| `ring`, `produced` | the ring buffers; the bytes are numbered, so a sequence of numbers tells which are there and in which order |
| `reader[s]` | the reader thread: it reads, pushes, tests `attached`, sends; `finalize` copies the session and sends it later |
| `monitor` | the copies `monitor.rs:60-72` has taken under the mutex and not sent yet |
| `queue` | events from other threads. What the main thread itself emits is evaluated in the webview at once; an event of another thread is posted to the loop of the main thread and waits there until that is between two commands. This is how Tauri's runtime works and is external to `src/` |
| `rows`, `panes` | the session list and the terminals of the window; `shown` is the set of bytes written to a terminal since it was opened |
| `drawn` | history: the sessions whose pane is open and has been since an attach of theirs ended |
| `wired` | whether the page listens: `init` asks for the sessions first (`main.ts:667`) and wires events and buttons after that. When the program starts there are no sessions to miss anything of; when the page is loaded again there may be |

`PanePool` does not model the headless sessions, which have no ring, nor the metrics. Input and
resize write to the PTY and change no state of the core. Each session id is created once.

### LogStream: state and atomicity

| Model | Code |
|---|---|
| `logs` | the table `logs`; the id of a line is its place, given under the mutex of the database |
| `sending[w]` | the line a thread has inserted and not yet emitted. The writers are the reader of stdout and that of stderr of each worker (the second stands for the scheduler too) and the main thread |
| `inbox` | lines on their way to the window, as `queue` above |
| `views[s]` | a log view: open, its history asked for or answered, the lines in its body |
| `voice`, `spoken`, `since` | voice mode with its target and `lastUtteredId`; history: what was spoken, and how long the log was when the user last chose |

An insert that fails (the code then sends the line with id 0) is left out.

## Runs

All run with `tlc -config <run>.cfg <module>`; the module is `MCOrchestrator`, `MCPanePool` for
`panes`, `converge` and `ghost_row`, `MCLogStream` for `log`, `MCPublication` for `publish`
and `MCWorkspace` for `workspace`.

| Run | Instance | Shows |
|---|---|---|
| `one_task` | 1 task, 2 sessions, all commands but the configuration (2 of them), crashes, exits, lingering agents, failing spawns; 1.5 M states | types; no start beyond `max_attempts`; at most one owner, whom the table names, also when `finalize` gives up on a process; a task whose worker is gone is still named by it; a canceled task is not run |
| `two_tasks` | 2 tasks in 2 contexts whose directories are links to one, 3 sessions, a prompt longer than a pipe, crashes, errors, failing spawns, cancels, one removal or one change of the configuration (a cap of 2 with pooling and restarts, or of 1 without); 1.4 M states | an Assigned task is held; at most one owner; Done means its own prompt was answered; nothing is admitted above the cap; no task in two processes; no canceled task sent; no prompt waits behind another turn |
| `progress` | 2 tasks, 3 sessions, a prompt longer than a pipe, crashes, cancels, fair threads, cap 2; deadlock checked; 149 k states | no Running task forgotten; no starvation with a free slot; every Running task ends; Done is final; the contract is implemented |
| `panes` | 2 terminals, ring of 2 bytes, one writes 3 bytes in chunks of 1 to 3, the monitor, all commands, loading the page again among them (3 of them), `max_attached` 0 or 3 and changed meanwhile; 2.2 M states | types; the ring holds the most recent bytes; list and flags agree; a pane that an attach has left open, and nothing has closed, misses nothing |
| `converge` | 3 terminals that write nothing, the monitor, 5 commands, also loading the page again, a cap of 3 that may become 1, fair threads; 484 k states | the panes agree with the flags in the end; an attach keeps the cap, also when it must evict two |
| `log` | 2 workers, 3 lines by 5 writers, history of 2, views of 4, 3 clicks; 2.3 M states | types and the cap of a view; no line lost between history and live lines; voice mode passes over no line of its target |
| `publish` | 1 task with a retry, 2 sessions, crashes, one removal or one restart, a cancel, 2 messages on their way; 3.2 M states | types; of what is in the core, nothing is stale but what crossed; no start hides its result; Done in a row or in the window means answered |
| `workspace` | 3 session ids, 2 kinds of sessions and a project file of three, 3 configurations, 4 commands; 0.35 M states | types; a session that is launched again is what it was; what agents tell is kept; the configuration is durable, but for a limit of 4 or less |

Four runs state what a comment or the README says and find the code doing something else; the
counterexample is the point of the run:

| Run | Said | Done |
|---|---|---|
| `stuck_busy` | Busy means in a turn (`model.rs:50`) | the mark may come after the result of the turn: the worker stays Busy and is never reused |
| `stale_remove` | remove fails the task the session was on (`core.rs:783`) | a crashed session still names a task that another session runs by now; removing the first fails it |
| `pool_stall` | idle workers are reused (`README.md:41`) | the cap is tested before the pool is searched, and idle workers count: with `max_concurrent` of them idle no task is admitted |
| `ghost_row` | remove takes a session away entirely (`core.rs:782`) | the last update of a session that ends while it is removed lists it again, for ever |

Reading the code for these modules brought up more of the kind, without a run of their own:

* A session that is Crashed or Completed may become Busy again: `send_message` marks it after its
  reader has finalized it (`core.rs:622`; "terminal" in `model.rs:65`). It then counts towards the
  cap for ever.
* `finalize` gives up on a process after 120 polls (`core.rs:530`) and reports Crashed while it
  lives; the recovered task may then run twice. `NoDuplicateExecution` and `CanceledNeverSent` are
  not claimed where an agent lingers.
* A worker that is killed in a turn is Stopped; recovery looks at Crashed alone, so its task stays
  Running until the session is removed.
* A late copy of the monitor may reopen a pane that was just evicted, so that for a moment more
  panes are open than `max_attached` (`README.md:40` of the repository).
* A chunk that is pushed before an attach and sent after it is shown twice (`core.rs:386-393`).
* The last update of an ended session may close or reopen its pane; the monitor no longer corrects
  it. `PanesConverge` is about sessions that run.
* An exit with code 0 in the middle of a turn makes the session Completed ("Finished its work and
  exited cleanly", `model.rs:52`) and leaves its task Running for ever; `OrphansAreNamed` says what
  is left: the ended session still names it, and removing that fails it.
* A copy the monitor took before an attach closes the pane that was just replayed; its next copy
  opens it again, and nobody replays ("on attach we replay the buffer once so the terminal repaints
  instantly", `ring.rs:3`). In the same way the panes of a page that is loaded again stay blank
  until the next output. `NothingMissing` is about a pane that an attach has left open and that
  nothing has closed since, with the monitor at work all the while.
* `max_concurrent` limits what the scheduler admits, not how many sessions are active ("never
  exceeds", `README.md:42` of the repository): to lower it ends nobody, the tick that is
  under way goes on with the copy it has, and a session the user creates, or wakes by a message,
  between the count and the spawn is not seen. `CapRespected` is about the
  first two; the third is outside it.
* A prompt longer than the pipe keeps the scheduler waiting until the agent has started and reads
  (`core.rs:619`), and with it every other task. `PromptIsNext` says that it never waits for more
  than that.
* Two publications of one task may cross, and the older row or message stays: a recovery that
  requeues it against the `fail_task` of a scheduler whose write broke, an enqueue against a very
  quick start. `UncrossedIsCurrent` is about the others,
  and about what is in the core now: the row of a session that was removed, and what an earlier life
  of the program left, stay as last written.
* The task queue is written to the database and never read back (`storage.rs:3` says it is there
  to survive restarts): after a restart a row says Queued and no queue has the task.
* The one-time migration of `max_attached` runs at every start (`core.rs:51-57`), so that a choice
  of 1 to 4 is lost each time, although the comment says "One-time". `ConfigIsDurable` claims nothing
  of a limit of 4 or less. `model.rs:238` gives the range as 1 to 4, the default is 8 and `attach`
  clamps to 16.
* A snapshot loses the permission mode and the tools of a session (`core.rs:1011`), although the
  spec is said to recreate it from a snapshot (`model.rs:148`); a project file keeps them.
* A session that was launched to resume a conversation and is saved before its agent has said so is
  saved without it; an interactive session never learns its conversation, so it is always saved
  without. `RestoredAsItWas` is claimed as far as these were known. Restoring while the originals
  run resumes one conversation in two processes.
* `Result` "carries cumulative usage" (`protocol.rs:36`) and `on_headless_event` adds it up
  (`core.rs:469`): one of the two is wrong.
* The last update of a session that ends while the page is loaded again is missed, and its row
  stays as it was.
* Lines that come in while a log view awaits its history precede it in the view
  (`terminals.ts:256`), and those in both are shown twice; in a view that has reached its cap by
  then, the newest lines may be the ones that go. `NothingLost` is claimed below the cap.
  A view that `init` opens asks for its history (`main.ts:674`) before the page listens (`main.ts:676`):
  a line between the two is in neither. `LogStream` never loads the page again.
* After a change of target voice mode passes over lines of the new target that are older than
  the last one spoken for the old (`voice.ts:40`). `TargetHeard` is claimed for lines written
  since the choice.

### Bounds

* Tasks and sessions: two tasks are the least that compete for a worker or for the cap; a task
  needs two sessions to be recovered into, three when two tasks crash. A session id is used once
  (`Uuid::new_v4`), so a run ends when the ids do: `CHECK_DEADLOCK FALSE` is set where that can
  happen, or where users and terminals may come to rest. `progress` has as many ids as its
  attempts can use and checks deadlock.
* `UserBudget` of `Orchestrator`: commands besides enqueue and cancel (each task is enqueued once,
  and canceled while it is queued). Two are enough for a message and a removal, a kill and a
  removal, a session of the user's own and a broadcast.
* `StdinCap` turns and `StdoutCap` events fit in a pipe; a full pipe blocks its writer, as it does
  in the code.
* `Times`: the clock readings `enqueue_task` may see. One reading makes every pair of tasks a tie,
  which the code breaks by the order of its hash map: the model takes any of the tied ones, which
  includes every order two readings would give.
* `publish` has one task: publications that cross are about one task or one session. Its user
  cancels or removes: with a message of the user's own, `DoneRowMeansAnswered` fails for the reason
  for which `DoneMeansAnswered` does (below). A restart is paid from `UserBudget`. `QueueMax` 2 messages
  on their way to the window are enough for a start and its result; a thread with a third waits.
* `workspace` has commands enough to launch, save, change the configuration or restart, and launch
  again; or to launch two sessions, save both and launch one of them again while the other cannot
  be. It starts on a new database or on one that an earlier run has left.
* `MaxAttempts` 2 (and 1 for one of two tasks in `progress`): one retry, then the limit.
* `ByteMax`, `ChunkMax`: three bytes against a ring of two reach every case of `push`: a chunk
  shorter than, as long as and longer than the ring, on an empty, a partly filled and a full one.
  One terminal writes (`Writers`) and the other competes for the cap: rings and readers share nothing.
  In `panes` `AttachLimit` is 2 (16 in the code), so that `max_attached` 0 and 3 are clamped from both
  sides, and `UserBudget` 3 is enough to attach, detach and attach again, or to attach, load the page
  again and attach. In `converge` it is 3, and `UserBudget` 5 is enough to attach two sessions, lower the
  cap from 3 to 1, and attach the third, which must evict both.
* `Policies`: the configurations the user may save. `two_tasks` has two, a cap of 2 with pooling and
  restarts and a cap of 1 without either, and starts with any of them; the other runs have one.
* `LongTurns`: the turns that are longer than the whole pipe, written only when the agent reads.
  `two_tasks` and `progress` have one such task and one that fits.
* `QueueMax` of `PanePool`: the monitor waits while that many events are queued; the readers are not
  held back.
* `HistoryLimit` 2 and `BodyCap` 4 with `LineMax` 3 lines: the history is cut, and a view can reach
  its cap by lines that it shows twice. `LogBudget` 3 clicks: two views, a target and the switch.
* The sessions are symmetric in the runs that check safety alone.

The user's direct messages are left out of `two_tasks` on purpose: a message a user sends to a
worker that runs a task ends a turn too, and that turn settles the task (`core.rs:492`), so
`DoneMeansAnswered` is a property of the scheduler's use of its workers. In the same way
`CapRespected` is stated where the user opens no session and writes to none: `create_session`
does not look at the cap. The user may change the configuration.

### Fairness

`FairSpec` adds weak fairness of the scheduler (its loop never ends), of the command thread once
it is in a command, of each reader and of the agents that do not fail (they boot, they answer).
Users and faults owe nothing. Weak fairness is enough: the mutexes are held for bounded sections
and are not modelled as contended, and no step is disabled and enabled for ever by another. That
a tick comes which is not throttled is assumed: a machine that is saturated for ever admits
nothing, by design.

`FairPoolSpec` adds weak fairness of the main thread in the middle of a command (`Continue`), of
the event loop (`Deliver`), of the monitor, whose loop never ends, and of each reader once it has
read a chunk or the end of its stream. Terminals need not write, and users need not act.

## Theorems

For every value of the constants, under the assumptions named in the modules (`TaskQueue`,
`AgentProcess`, `SessionRegistry`, `Orchestrator`, `Publication`; `Ring`, `PanePool`; `LogStream`;
`Workspace`), and under the condition in the third column, which is an assumption of the theorem:

| Theorem | States | Where | Checked by TLC in |
|---|---|---|---|
| `TypeCorrect` | `Spec => []TypeOK` | | `one_task` |
| `AttemptsLimited` | `Spec => []AttemptsWithinLimit` | | `one_task` |
| `AssignedHeld` | `Spec => []AssignedIsHeld` | | `two_tasks` |
| `SingleOwner` | `Spec => []SingleClaim` | | `one_task`, `two_tasks` |
| `CancelIsRespected` | `Spec => CanceledNeverRuns` | | `one_task` |
| `ContractKept` | `Spec => ImplementsContract` | | `progress` |
| `ClaimsAreRecorded` | `Spec => []ClaimMatchesRecord` | | `one_task` |
| `OrphansSeen` | `Spec => []OrphansAreNamed` | | `one_task` |
| `DoneIsAnswered` | `Spec => []DoneMeansAnswered` | A | `two_tasks` |
| `PromptsGoFirst` | `Spec => []PromptIsNext` | A | `two_tasks` |
| `CapIsRespected` | `Spec => CapRespected` | A | `two_tasks` |
| `NoTaskRunsTwice` | `Spec => []NoDuplicateExecution` | A, no agent outlives its stdout | `two_tasks` |
| `CanceledIsNotSent` | `Spec => CanceledNeverSent` | A, no agent outlives its stdout | `two_tasks` |
| `ResultStands` | `Spec => DoneIsFinal` | A, the user removes no session | `progress` |
| `NoTaskIsForgotten` | `Spec => []NoOrphanRunning` | workers end by crashes or removals alone | `progress` |
| `RingsKeepMostRecent` | `PoolSpec => []MostRecent` | | `panes` |
| `PoolTypes` | `PoolSpec => []PoolTypeOK` | | `panes` |
| `FlagsAgree` | `PoolSpec => []FlagsFollowLru` | | `panes` |
| `CapEnforced` | `PoolSpec => AttachEnforcesCap` | | `converge` |
| `ReplayCompletes` | `PoolSpec => []NothingMissing` | | `panes` |
| `LogTypes` | `LogSpec => []LogTypeOK` | | `log` |
| `NothingIsLost` | `LogSpec => []NothingLost` | | `log` |
| `TargetIsHeard` | `LogSpec => TargetHeard` | | `log` |
| `PublicationTypes` | `PubSpec => []PubTypeOK` | | `publish` |
| `ResultsAreSeen` | `PubSpec => []StartNeverHidesResult` | | `publish` |
| `ChangesArePublished` | `PubSpec => []UncrossedIsCurrent` | | `publish` |
| `DoneRowsAreAnswered` | `PubSpec => []DoneRowMeansAnswered` | A | `publish` |
| `WorkTypeCorrect` | `WorkSpec => []WorkTypeOK` | | `workspace` |
| `RestoredCorrect` | `WorkSpec => []RestoredAsItWas` | | `workspace` |
| `KnowledgeCorrect` | `WorkSpec => KnowledgeIsKept` | | `workspace` |
| `ConfigCorrect` | `WorkSpec => ConfigIsDurable` | | `workspace` |

A: the user leaves the headless workers to the scheduler (`UserCommands` without `create`, `send`
and `broadcast`). A message the user sends to a working session ends a turn too, and that turn
settles the task; a session the user creates is not counted against the cap. So these properties
are about the scheduler's use of its workers, and the condition is needed, not convenient.

### The argument

**Owners.** `TypeOK` is strengthened by what the program counters say of the locals (a
scheduler past `take` holds a task, one past `find` a session, a reader that settles or recovers
holds a task): without it `StartHeld` could index the table with `NoTask`. `AttemptsWithinLimit`
is inductive with that: the only step that raises `attempts` starts from a held task, which has a
start left, and the only step that puts a task back in the queue tests the limit.
`AssignedIsHeld` needs no more than the types. `SingleClaim` is not inductive alone: a recovery
must not requeue a task that another session may still settle, and to know that one must know
the status of a task that a session claims (Running, or Failed or Done by a stale hand), and that
of the task the scheduler holds. `HeldStatus` states this, and the invariant is their conjunction.
`CanceledNeverRuns` follows step by step from it, because a canceled task is claimed by nobody and
held by nobody who would start it.

**The contract.** Every action is first reduced to what it does to the links between tasks, sessions
and threads (`ReaderMoves`, `SchedulerBinds`, `Removed` and their like in `ContractProofs`): the later
proofs split on these shapes and not on the code again. `ClaimMatchesRecord` needs `BoundRecord`, that
between `start_task` and the binding the table already names the worker. `LinkInv` says what ties the
three together: nothing absent is named; a task that is being settled has left its session, one that is
being recovered has not; a worker that was just chosen is free. With these invariants each step is a
step of `TaskContract` or none under the mapping. The delicate ones are the binding (it makes the only
owner there is), the settlement (the owner yields) and the stale `fail_task`, by the scheduler or by a
removal. `RunningInv` lists who may hold a Running task: a claiming reader, a removal that will fail
it, the scheduler, or an ended session that still names it; `OrphansAreNamed` follows.

**The pipes.** `PipeInv` says of each session that at most one turn is under way in it (`Single`: in
stdin, or as a result in stdout, or with its reader), that it is the turn of the task the session names
and that its result, if it is no error, is in `answered` (`Current`); of the scheduler, that the worker
it has chosen is quiet until it writes. `DoneMeansAnswered` is its last conjunct; that
the prompt of a task is alone in its pipe follows from the quiet worker, whether or not it fits. `CapInv`
counts the slots, which are the active sessions and the one that is about to be marked: below the cap
of the scheduler's copy while it looks for a worker, within it once it has one; a change of the
configuration touches neither. `Awake` (a session that is not active has ended) is what makes a spawn
or a reuse the only step that adds one. `GoneInv` (a worker reported as ended has exited, and its stdin
with it) makes `TurnsAreClaimed`, so two processes cannot work on a task that has one owner. `LifeInv`
and `WatchInv` are the same for forgotten tasks where every end is a crash; `Doomed` is the one gap, a
worker that crashed before it was bound, and the scheduler is about to find that out. `DoneInv` says
that no one but a scheduler on its way to `mark` holds a task that is Done.

**The publications.** A step of `Publication` is a step of `Orchestrator`, a publishing step that leaves
the core alone, or a restart, after which the core is as it was first (`PubIsNext`): so `TypeInv`,
`OwnerInv` and, under A, `PipeInv` hold here too, whatever restarts come. `Shapes` reduces the steps of
the core to two: nothing that is published changes (`SilentStep`), or one thing changes and is copied
(`LoudStep`), which also says who may copy a start (the scheduler, about to bind the task) and a
result (a reader). `UncrossedIsCurrent` is the last conjunct of `UpToDate`: of a thing whose last
publication crossed no other, every copy and every message says what the core has, and the row is
written before the message is sent. `StartNeverHidesResult` rests on `HeldStatus`: while the copy of a
start is held the scheduler is at `bind`, where the task it holds is Running or Failed, so no copy of
the start is left when the task is Done. What the start has reached by then (`Corrected`) is overtaken:
a row by a copy that is still to be written, the window by one that has yet to be sent by way of the
queue, a message by a later one. That needs the copy of a result never to be with the command
thread, which goes past the queue. `AnswerInv` adds to `DoneMeansAnswered` that a copy, a message or
a row that says Done was made of a task that was. `IdsAssumption` says that no id is that of a task and
of a session: they are UUIDs.

**The rings.** `MostRecent` with the domains of three variables is inductive, and `ReadChunk` is
the one step that matters. `PushKeepsLast` of `RingProofs` carries it: what `Push` makes of the
last elements of a sequence are the last elements of the longer one. The work is in the lemmas
about sequences (dropping from a concatenation, dropping twice) and about the saturating
subtraction, proved element by element. Nothing is assumed about how large the chunks, the ring or the
output are.

**The panes.** List and flags agree only between commands, so `FlagInv` compares the list with what the
flags *will* be when the pending orders are carried out (`Will`, `Promised`), and keeps the list free of
duplicates (`NoTwice`) and the orders free of contradiction (`Orders`). Then an attach ends with the
flags of a list that was cut to the cap, whatever the cap was before. `PaneInv` is about the bytes:
an attach ends with the replay of a session that is attached by then (`ReplayOrders`, `ReplayLands`), and
from then on every byte of the ring is shown, in the queue or in the hands of the reader (`Shows`), as
long as the pane stays open. That the session is still attached (`Drawn`) is why the reader goes on
sending: the flag is cleared and the pane closed in one step. A stale update can only close
such a pane (`StillDrawn`), and then it is no longer drawn. `Without`, which the model builds as the code's
`retain` does, is described by how many elements it keeps up to each place (`KeptUpTo`), by way of a least
counterexample.

**The log.** `Kept` follows a line from the table to the view: in the view, on its way, covered by a
history that is asked for or answered, or older than the history reaches; since the cardinality of the
later lines of a session only grows, the last case stays true. `Numbered` keeps ids and writers in step. For
voice mode, `InOrder` says that the lines one session speaks arrive in the order of their ids, because
one thread writes them, and `Fresh` that the last line spoken belongs to the session targeted or is older
than the choice; a line of the target therefore never arrives below `lastUtteredId`, unless it is older
than the choice.

**The workspace.** `RestoredAsItWas` compares a session with one that may be long gone, so the
invariant must carry what makes the two agree from step to step: what is known of a session is true
of its agent and the agent runs by its spec (`Known`, `RunsBySpec`); every entry of a snapshot, of a
saved file and of a running restoration recreates the session it was made of (`Recreates`,
`Faithful`, `FileInv`); a saved file has no shared fields, which is why opening it changes none of its
entries. `Launched` then shows that a launch by a spec that recreates a session has its outcome,
whatever the configuration is by now, and `LinesTellTheTruth` that a line of an agent leaves `Known`
standing, whichever of its fields are absent. `ConfigIsDurable` needs that the saved configuration
is the one in use, or the one that `set_config` is about to put in use. That `""` may be a value, as
it may in the code, is covered: an argument that is empty is not passed. The assumption that the
absent value is no model, directory or id is what `Option` gives.

Model-checked only: the properties with fairness (`NoStarvationWithRoom`, `RunningTaskEnds`,
`PanesConverge`), which are beyond TLAPS. The provers used
cannot instantiate the library's induction theorems, whose induction hypothesis is an operator; where
a proof needs induction over a number, it is done by hand with a least counterexample
(`PanePoolProofs!Least`).

The operators marked "a slip" are deliberately wrong versions of the definition that follows
them. They are used by no specification; putting one in the place of its original shows that a
property notices the difference, and `PROJECT.json` lists which does ("mutants").

## What is not modelled, and why

* The schema and the statements of `storage.rs`, columns other than the status, and writes to the
  database that fail: the code ignores their errors, and what is lost then is lost silently.
* The search for executables and `resolve_shell` (`launcher.rs`): input from the file system.
* Dialogs, layout and keyboard: presentation, with no state that two threads share.
* `send_input`, `resize` and the typing of an initial prompt: they write to a PTY and change no state
  of the core.
* The initial prompt of a headless session (`core.rs:212`): it is a message like any other; if it
  fails, the session runs and the caller is told that it does not.
* An agent that reads nothing and answers nothing for ever, as an assumption of the properties with
  fairness alone. The thread that writes a long prompt to it blocks for as long (`core.rs:619`), the
  scheduler like any other; `PromptIsNext` excludes only that its prompt waits behind another turn.
* Speech recognition, the sampling of the operating system, and the PTY itself.

## Plan

Done: ownership of tasks, recovery and cancellation (`Orchestrator`) and the contract it implements,
the pipes and the cap, the pane pool, the log, publications and restarts, the workspace, and the
theorems above, among them one for every safety property that a passing run checks. What is left is
out of the provers' reach (the properties with fairness) or outside the modules: a page that is loaded
again while log views are open, and the order in which a log view shows its lines.
