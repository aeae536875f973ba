------------------------------ MODULE Workspace ------------------------------
(***************************************************************************)
(* What the harness keeps of a set of sessions and of its configuration:   *)
(* snapshots in the database, project files, the saved configuration; how  *)
(* sessions are launched from them, with which arguments, and what the     *)
(* lines a headless worker writes tell about it (core.rs, launcher.rs,     *)
(* protocol.rs, storage.rs).  The commands run on the main thread, one     *)
(* after the other; the readers act between the launches of one command,   *)
(* and the program may end anywhere.  "None" is an absent value.           *)
(***************************************************************************)
EXTENDS Naturals, Functions

CONSTANTS
    None,
    Sessions,       \* the ids Uuid::new_v4 may give, each once
    Specs,          \* the sessions the user of this instance launches
    Drafts,         \* the project files the user writes by hand
    Configs,        \* the configurations the user sets
    DefaultConfig,  \* OrchestratorConfig::default
    AgentModel,     \* the model an agent takes when it is told none
    Values,         \* models, directories, permission modes and tool lists
    UserBudget      \* bound: the number of commands

Maybe(S) == S \cup {None}
Modes == {"headless", "interactive", "shell"}

Spec == [mode : Modes, cwd : Values, model : Maybe(Values), permission_mode : Maybe(Values),
         allowed_tools : Maybe(Values), resume : Maybe(Sessions)]
Config == [default_model : Maybe(Values), default_permission_mode : Values, max_attached : Nat]
ProjectSession == [mode : Modes, cwd : Maybe(Values), model : Maybe(Values),
                   permission_mode : Maybe(Values), allowed_tools : Maybe(Values),
                   resume : Maybe(Sessions)]

ProjectFile == [cwd : Maybe(Values), model : Maybe(Values), permission_mode : Maybe(Values),
                sessions : SUBSET ProjectSession]

ASSUME NoneAssumption == None \notin Values \cup Sessions \cup Config
ASSUME SpecsAssumption == Specs \subseteq Spec /\ Drafts \subseteq ProjectFile
ASSUME ConfigsAssumption == DefaultConfig \in Config /\ Configs \subseteq Config
ASSUME AgentModelAssumption == AgentModel \in Values
ASSUME BudgetAssumption == UserBudget \in Nat

VARIABLES
    config,         \* Core.config
    saved,          \* the row of the configuration
    setting,        \* what set_config has saved and not yet put into config
    registry,       \* the keys of Core.sessions
    info, spec,     \* of each session: what is known of it, what it was launched by
    agent,          \* of each session: what its process runs with (external)
    snapshot,       \* the last snapshot: its entries, as the specs that will be made of them
    file,           \* the project file: its shared fields and its entries
    todo,           \* the entries that restore_snapshot or open_project has yet to launch
    was,            \* history: of a session launched from a saved one, that one as it was then
    budget          \* what is left of UserBudget

sessionVars == <<registry, info, spec, agent, was>>
storeVars == <<config, saved, setting, snapshot, file>>
vars == <<storeVars, sessionVars, todo, budget>>

NoSpec == [mode |-> "shell", cwd |-> None, model |-> None, permission_mode |-> None,
           allowed_tools |-> None, resume |-> None]
NoInfo == [status |-> "Stopped", cwd |-> None, model |-> None, agent_session_id |-> None]
NoAgent == [cwd |-> None, model |-> None, permission_mode |-> None, allowed_tools |-> None,
            conversation |-> None]

NoEntries == [k \in {} |-> NoSpec]
NoFile == [cwd |-> None, model |-> None, permission_mode |-> None, sessions |-> NoEntries]

Or(a, b) == IF a = None THEN b ELSE a
Given(a) == IF a = "" THEN None ELSE a      \* an argument that is empty is not passed

\* Core::new raises a limit that is at or below the old one, and saves that.
OldLimit == 4
Migrated(cfg) ==
    IF cfg.max_attached <= OldLimit
    THEN [cfg EXCEPT !.max_attached = DefaultConfig.max_attached]
    ELSE cfg

\* The program starts on a new database, or on one that an earlier run has left.
Init ==
    /\ saved \in Maybe({Migrated(cfg) : cfg \in Configs})
    /\ config = Or(saved, DefaultConfig)
    /\ setting = None
    /\ registry = {}
    /\ info = [s \in Sessions |-> NoInfo]
    /\ spec = [s \in Sessions |-> NoSpec]
    /\ agent = [s \in Sessions |-> NoAgent]
    /\ was = [s \in Sessions |-> None]
    /\ snapshot = NoEntries /\ file = NoFile /\ todo = NoEntries
    /\ budget = UserBudget

-----------------------------------------------------------------------------
(* The arguments of an agent, and what it makes of them.                   *)

HeadlessArgs(sp, cfg) ==
    [model           |-> Or(sp.model, cfg.default_model),
     permission_mode |-> Given(Or(sp.permission_mode, cfg.default_permission_mode)),
     allowed_tools   |-> Given(sp.allowed_tools),
     resume          |-> sp.resume]

InteractiveArgs(sp, cfg) ==
    [model           |-> Or(sp.model, cfg.default_model),
     permission_mode |-> None,
     allowed_tools   |-> None,
     resume          |-> sp.resume]

\* A conversation is named after the session that began it.
Started(s, cwd, args) ==
    [cwd             |-> cwd,
     model           |-> Or(args.model, AgentModel),
     permission_mode |-> args.permission_mode,
     allowed_tools   |-> args.allowed_tools,
     conversation    |-> Or(args.resume, s)]

\* spawn_headless, spawn_interactive, spawn_shell: the process is started and the session entered.
\* A shell has no model.
Spawn(s, sp) ==
    /\ s \notin registry /\ spec[s] = NoSpec
    /\ registry' = registry \cup {s}
    /\ spec' = [spec EXCEPT ![s] = sp]
    /\ info' = [info EXCEPT ![s] =
           [status           |-> IF sp.mode = "headless" THEN "Starting" ELSE "Idle",
            cwd              |-> sp.cwd,
            model            |-> IF sp.mode = "shell" THEN None
                                 ELSE Or(sp.model, config.default_model),
            agent_session_id |-> None]]
    /\ agent' = [agent EXCEPT ![s] =
           CASE sp.mode = "headless"    -> Started(s, sp.cwd, HeadlessArgs(sp, config))
             [] sp.mode = "interactive" -> Started(s, sp.cwd, InteractiveArgs(sp, config))
             [] sp.mode = "shell"       -> [NoAgent EXCEPT !.cwd = sp.cwd]]

-----------------------------------------------------------------------------
(* The main thread.                                                        *)

\* Between two commands.
Ready == todo = NoEntries /\ setting = None
Command == Ready /\ budget > 0 /\ budget' = budget - 1

\* create_session
Create(s, sp) ==
    /\ Command
    /\ Spawn(s, sp)
    /\ was' = [was EXCEPT ![s] = None]
    /\ UNCHANGED <<storeVars, todo>>

\* remove_session; the process of a removed session ends.
Remove(s) ==
    /\ Command
    /\ s \in registry
    /\ registry' = registry \ {s}
    /\ UNCHANGED <<storeVars, info, spec, agent, was, todo>>

SetWithoutSaving(cfg) ==    \* a slip: only the running program hears of it
    /\ Command
    /\ setting' = cfg
    /\ UNCHANGED <<config, saved, snapshot, file, sessionVars, todo>>

\* set_config, first under the mutex of the database, then under that of the configuration.
SetConfig(cfg) ==
    /\ Command
    /\ saved' = cfg
    /\ setting' = cfg
    /\ UNCHANGED <<config, snapshot, file, sessionVars, todo>>

ApplyConfig ==
    /\ setting # None
    /\ config' = setting
    /\ setting' = None
    /\ UNCHANGED <<saved, snapshot, file, sessionVars, todo, budget>>

Live == {s \in registry : info[s].status # "Stopped"}

SnapSpecAsLaunched(s) ==    \* a slip: the model it was asked for, not the one it has
    [mode |-> spec[s].mode, cwd |-> info[s].cwd, model |-> spec[s].model,
     permission_mode |-> None, allowed_tools |-> None, resume |-> info[s].agent_session_id]

\* What save_snapshot writes of a session, as the spec that restore_snapshot makes of it.
SnapSpec(s) ==
    [mode            |-> spec[s].mode,
     cwd             |-> info[s].cwd,
     model           |-> info[s].model,
     permission_mode |-> None,
     allowed_tools   |-> None,
     resume          |-> info[s].agent_session_id]

\* What save_project writes of a session.  The file has no shared fields.
ProjectSpec(s) ==
    [SnapSpec(s) EXCEPT !.permission_mode = spec[s].permission_mode,
                        !.allowed_tools = spec[s].allowed_tools]

\* The session as it is when it is saved: what it was launched by, what is known of its agent, and
\* what its process runs with.
AsItIs(s, by) ==
    [by    |-> by,
     spec  |-> spec[s],
     info  |-> [model |-> info[s].model, agent_session_id |-> info[s].agent_session_id],
     agent |-> agent[s]]

SaveSnapshot ==
    /\ Command
    /\ snapshot' = [s \in Live |-> [spec |-> SnapSpec(s), was |-> AsItIs(s, "snapshot")]]
    /\ UNCHANGED <<config, saved, setting, file, sessionVars, todo>>

SaveProject ==
    /\ Command
    /\ file' = [NoFile EXCEPT !.sessions =
           [s \in Live |-> [spec |-> ProjectSpec(s), was |-> AsItIs(s, "project")]]]
    /\ UNCHANGED <<config, saved, setting, snapshot, sessionVars, todo>>

OpenedUnshared(d, e) == e       \* a slip: the shared fields are not looked at

\* The fields of a session go before the shared ones.
Opened(d, e) == [e EXCEPT !.cwd = Or(@, d.cwd),
                          !.model = Or(@, d.model),
                          !.permission_mode = Or(@, d.permission_mode)]

WriteProject(d) ==
    /\ Command
    /\ file' = [d EXCEPT !.sessions = [e \in @ |-> [spec |-> e, was |-> None]]]
    /\ UNCHANGED <<config, saved, setting, snapshot, sessionVars, todo>>

\* restore_snapshot and open_project: the entries are read at once and launched one by one.
Restore ==
    /\ Command
    /\ todo' = snapshot
    /\ UNCHANGED <<storeVars, sessionVars>>

\* A session without a directory anywhere is passed over.
OpenProject ==
    LET Cwd(k) == Or(file.sessions[k].spec.cwd, file.cwd) IN
    /\ Command
    /\ todo' = [k \in {k \in DOMAIN file.sessions : Cwd(k) \notin {None, ""}} |->
                   [spec |-> Opened(file, file.sessions[k].spec), was |-> file.sessions[k].was]]
    /\ UNCHANGED <<storeVars, sessionVars>>

Rest(k) == Restrict(todo, DOMAIN todo \ {k})

LaunchNext(k, s) ==
    /\ Spawn(s, todo[k].spec)
    /\ was' = [was EXCEPT ![s] = todo[k].was]
    /\ todo' = Rest(k)
    /\ UNCHANGED <<storeVars, budget>>

\* A session that cannot be launched is not counted, and the next one is tried.
LaunchFails(k) ==
    /\ todo' = Rest(k)
    /\ UNCHANGED <<storeVars, sessionVars, budget>>

-----------------------------------------------------------------------------
(* The readers.                                                            *)

\* The lines an agent may write, as far as they tell something of it; any field may be absent, a
\* line may be blank or no JSON at all, and a type may be one the harness does not know.  A system
\* line goes with its subtype.
Line(s) ==
    [type : {"system/init", "system/api_retry", "assistant", "user", "stream_event", "result",
             "rate_limit", "blank", "text"},
     session_id : {None, agent[s].conversation},
     model : {None, agent[s].model},
     cwd : {None, agent[s].cwd}]

\* parse_line: the kind of event a line is.  Only an init and a result tell who the agent is.
ParseLine(line) ==
    CASE line.type \in {"blank", "text"}    -> "none"
      [] line.type = "system/init"          -> "Init"
      [] line.type = "system/api_retry"     -> "System"
      [] line.type = "assistant"            -> "Assistant"
      [] line.type = "user"                 -> "ToolResult"
      [] line.type = "stream_event"         -> "TextDelta"
      [] line.type = "result"               -> "Result"
      [] OTHER                              -> "Other"

InitOverwrites(i, line) ==      \* a slip: what the line does not say is forgotten
    [i EXCEPT !.agent_session_id = line.session_id, !.model = line.model, !.cwd = line.cwd,
              !.status = "Idle"]

OnInit(i, line) ==
    [i EXCEPT !.agent_session_id = Or(line.session_id, @),
              !.model = Or(line.model, @),
              !.cwd = Or(line.cwd, @),
              !.status = IF @ = "Starting" THEN "Idle" ELSE @]

\* on_headless_event, as far as it changes the entry of the session.
OnEvent(i, line) ==
    CASE ParseLine(line) = "Init"      -> OnInit(i, line)
      [] ParseLine(line) = "Assistant" -> [i EXCEPT !.status = "Busy"]
      [] ParseLine(line) = "Result"    -> [i EXCEPT !.agent_session_id = Or(line.session_id, @),
                                                    !.status = "Idle"]
      [] OTHER                         -> i

ReadLine(s) ==
    /\ s \in Live /\ spec[s].mode = "headless"
    /\ \E i \in {OnEvent(info[s], line) : line \in Line(s)} : info' = [info EXCEPT ![s] = i]
    /\ UNCHANGED <<storeVars, registry, spec, agent, was, todo, budget>>

\* finalize: the process has ended.
End(s) ==
    /\ s \in Live
    /\ info' = [info EXCEPT ![s].status = "Stopped"]
    /\ UNCHANGED <<storeVars, registry, spec, agent, was, todo, budget>>

-----------------------------------------------------------------------------
(* The end of the program and its next start.                              *)

Restart ==
    /\ budget > 0 /\ budget' = budget - 1
    /\ LET loaded == Or(saved, DefaultConfig)
       IN  /\ config' = Migrated(loaded)
           /\ saved' = IF loaded.max_attached <= OldLimit THEN Migrated(loaded) ELSE saved
    /\ setting' = None
    /\ registry' = {}
    /\ todo' = NoEntries
    /\ UNCHANGED <<info, spec, agent, was, snapshot, file>>

Next ==
    \/ \E s \in Sessions, sp \in Specs : Create(s, sp)
    \/ \E s \in Sessions : Remove(s) \/ ReadLine(s) \/ End(s)
    \/ \E cfg \in Configs : SetConfig(cfg)
    \/ ApplyConfig
    \/ SaveSnapshot \/ SaveProject \/ Restore \/ OpenProject
    \/ \E d \in Drafts : WriteProject(d)
    \/ \E k \in DOMAIN todo : LaunchFails(k) \/ \E s \in Sessions : LaunchNext(k, s)
    \/ Restart

WorkSpec == Init /\ [][Next]_vars

-----------------------------------------------------------------------------
(* Properties.                                                             *)

\* Every variable stays in its type; a directory is known of every session.
WorkTypeOK ==
    /\ config \in Config /\ saved \in Maybe(Config) /\ setting \in Maybe(Config)
    /\ registry \subseteq Sessions
    /\ \A s \in registry :
           /\ spec[s] \in Spec
           /\ info[s] \in [status : {"Starting", "Idle", "Busy", "Stopped"}, cwd : Values,
                           model : Maybe(Values), agent_session_id : Maybe(Sessions)]
    /\ \A entries \in {snapshot, todo} : \A k \in DOMAIN entries : entries[k].spec \in Spec
    /\ \A k \in DOMAIN file.sessions : file.sessions[k].spec \in ProjectSession
    /\ budget \in 0..UserBudget

\* A session that is launched from a snapshot or from a saved project has, whatever has become of
\* the configuration, of the program and of the saved session since, the directory of that session,
\* and its model and conversation as far as these were known; and, from a project, also its tools
\* and the permission mode it was asked for.  Of the tools and the mode of a session that comes from
\* a snapshot nothing is claimed: they are lost (core.rs:1011).
RestoredAsItWas ==
    \A s \in registry : was[s] # None =>
        LET w == was[s]
        IN  /\ agent[s].cwd = w.agent.cwd
            /\ w.info.model # None => agent[s].model = w.agent.model
            /\ w.info.agent_session_id # None => agent[s].conversation = w.agent.conversation
            /\ w.by = "project" =>
                   /\ agent[s].allowed_tools = w.agent.allowed_tools
                   /\ w.spec.permission_mode # None =>
                          agent[s].permission_mode = w.agent.permission_mode

\* What the harness knows of an agent is so, however little its lines say and however malformed
\* they are, and it is never forgotten.
KnowledgeIsKept ==
    [][\A s \in registry \cap registry' :
           /\ info[s].agent_session_id # None =>
                  info'[s].agent_session_id = agent[s].conversation
           /\ info[s].model # None => info'[s].model = agent[s].model]_vars

\* The configuration survives the end of the program, wherever it ends, also between the two halves
\* of set_config: the next one runs with all that this one ran with, or with all that was being
\* set, and never with something of both.  Nothing is claimed of a limit of panes that is 4 or
\* less: every start gives that up for its default, although core.rs:51 calls this "One-time".
ConfigIsDurable ==
    [][Restart => \E cfg \in {config, Or(setting, config)} :
           /\ config'.default_model = cfg.default_model
           /\ config'.default_permission_mode = cfg.default_permission_mode
           /\ cfg.max_attached > OldLimit => config'.max_attached = cfg.max_attached]_vars
=============================================================================
