--------------------------- MODULE WorkspaceProofs ---------------------------
(***************************************************************************)
(* Theorems about Workspace, for every set of sessions, every choice of    *)
(* specs, project files and configurations, and every line of an agent.    *)
(***************************************************************************)
EXTENDS Workspace, TLAPS

Info == [status : {"Starting", "Idle", "Busy", "Stopped"}, cwd : Values, model : Maybe(Values),
         agent_session_id : Maybe(Sessions)]
Agent == [cwd : Values, model : Maybe(Values), permission_mode : Maybe(Values),
          allowed_tools : Maybe(Values), conversation : Maybe(Sessions)]

\* An agent runs with the tools and the permission mode of its spec, if that has them.
RunsBySpec(sp, a) ==
    /\ sp.mode = "headless" =>
           /\ a.allowed_tools = Given(sp.allowed_tools)
           /\ sp.permission_mode # None => a.permission_mode = Given(sp.permission_mode)
    /\ sp.mode # "headless" => a.allowed_tools = None /\ a.permission_mode = None

\* What is known of an agent is so, and nothing is known of a shell.
Known(i, sp, a) ==
    /\ i.cwd = a.cwd
    /\ i.model # None => i.model = a.model /\ sp.mode # "shell"
    /\ i.agent_session_id # None =>
           i.agent_session_id = a.conversation /\ sp.mode # "shell"

\* A session of the spec sp would be what w was.
Recreates(sp, w) ==
    /\ sp.cwd = w.agent.cwd
    /\ w.info.model # None => sp.mode # "shell" /\ sp.model = w.agent.model /\ sp.model # None
    /\ w.info.agent_session_id # None =>
           sp.mode # "shell" /\ sp.resume = w.agent.conversation /\ sp.resume # None
    /\ w.by = "project" =>
           /\ sp.mode = "headless" => Given(sp.allowed_tools) = w.agent.allowed_tools
           /\ sp.mode # "headless" => w.agent.allowed_tools = None
           /\ w.spec.permission_mode # None =>
                  /\ sp.mode = "headless" => /\ sp.permission_mode # None
                                             /\ Given(sp.permission_mode) = w.agent.permission_mode
                  /\ sp.mode # "headless" => w.agent.permission_mode = None

SessionInv ==
    /\ registry \subseteq Sessions
    /\ DOMAIN info = Sessions /\ DOMAIN spec = Sessions
    /\ DOMAIN agent = Sessions /\ DOMAIN was = Sessions
    /\ \A s \in registry :
           /\ info[s] \in Info /\ spec[s] \in Spec /\ agent[s] \in Agent
           /\ Known(info[s], spec[s], agent[s])
           /\ RunsBySpec(spec[s], agent[s])
    /\ RestoredAsItWas

\* A saved entry that was made of a session recreates it.
Faithful(entries) ==
    \A k \in DOMAIN entries :
        /\ entries[k].spec \in Spec
        /\ entries[k].was # None => Recreates(entries[k].spec, entries[k].was)

\* A file that was saved has no shared fields.
FileInv ==
    /\ file.cwd \in Maybe(Values) /\ file.model \in Maybe(Values)
    /\ file.permission_mode \in Maybe(Values)
    /\ \A k \in DOMAIN file.sessions :
           /\ file.sessions[k].spec \in ProjectSession
           /\ file.sessions[k].was # None =>
                  /\ file.cwd = None /\ file.model = None /\ file.permission_mode = None
                  /\ Recreates(file.sessions[k].spec, file.sessions[k].was)

\* The configuration that is saved is the one in use, or the one about to be.
ConfigInv ==
    /\ config \in Config /\ saved \in Maybe(Config) /\ setting \in Maybe(Config)
    /\ setting = None => config = Or(saved, DefaultConfig)
    /\ setting # None => saved = setting
    /\ budget \in 0..UserBudget

Inv == ConfigInv /\ SessionInv /\ Faithful(snapshot) /\ Faithful(todo) /\ FileInv

\* An argument that is not passed is absent.
LEMMA GivenType == ASSUME NEW a \in Maybe(Values) PROVE Given(a) \in Maybe(Values)
  BY DEF Given, Maybe

\* What a launch makes of a spec: a known agent that runs by it, and, of a spec that recreates a
\* session, what that was.
LEMMA Launched ==
    ASSUME Inv, NEW s \in Sessions, NEW sp \in Spec, Spawn(s, sp)
    PROVE  /\ registry' = registry \cup {s} /\ s \notin registry
           /\ spec' = [spec EXCEPT ![s] = sp]
           /\ DOMAIN info' = Sessions /\ DOMAIN spec' = Sessions /\ DOMAIN agent' = Sessions
           /\ \A r \in registry : info'[r] = info[r] /\ spec'[r] = spec[r] /\ agent'[r] = agent[r]
           /\ spec'[s] = sp
           /\ info'[s] \in Info /\ agent'[s] \in Agent
           /\ Known(info'[s], sp, agent'[s])
           /\ RunsBySpec(sp, agent'[s])
           /\ \A w : Recreates(sp, w) =>
                  /\ agent'[s].cwd = w.agent.cwd
                  /\ w.info.model # None => agent'[s].model = w.agent.model
                  /\ w.info.agent_session_id # None => agent'[s].conversation = w.agent.conversation
                  /\ w.by = "project" =>
                         /\ agent'[s].allowed_tools = w.agent.allowed_tools
                         /\ w.spec.permission_mode # None =>
                                agent'[s].permission_mode = w.agent.permission_mode
  <1> DEFINE i == info'[s]
             a == agent'[s]
             m == Or(sp.model, config.default_model)
             p == Or(sp.permission_mode, config.default_permission_mode)
  <1>1. /\ sp.mode \in Modes /\ sp.cwd \in Values
        /\ sp.model \in Maybe(Values) /\ sp.permission_mode \in Maybe(Values)
        /\ sp.allowed_tools \in Maybe(Values) /\ sp.resume \in Maybe(Sessions)
    BY DEF Spec
  <1>2. config.default_model \in Maybe(Values) /\ config.default_permission_mode \in Values
    BY DEF Inv, ConfigInv, Config
  <1>3. /\ DOMAIN info = Sessions /\ DOMAIN spec = Sessions /\ DOMAIN agent = Sessions
        /\ registry \subseteq Sessions
    BY DEF Inv, SessionInv
  <1>4. None \notin Values /\ None \notin Sessions
    BY NoneAssumption
  <1>5. /\ m \in Maybe(Values) /\ p \in Values
        /\ sp.model # None => m = sp.model
        /\ sp.permission_mode # None => p = sp.permission_mode
    BY <1>1, <1>2, <1>4 DEF Or, Maybe
  <1>6. /\ Or(m, AgentModel) \in Values
        /\ m # None => Or(m, AgentModel) = m
    BY <1>5, AgentModelAssumption DEF Or, Maybe
  <1>7. /\ Or(sp.resume, s) \in Sessions
        /\ sp.resume # None => Or(sp.resume, s) = sp.resume
    BY <1>1 DEF Or, Maybe
  <1>8. Given(p) \in Maybe(Values) /\ Given(sp.allowed_tools) \in Maybe(Values)
    BY <1>1, <1>5, GivenType DEF Maybe
  <1>9. /\ registry' = registry \cup {s} /\ s \notin registry
        /\ spec' = [spec EXCEPT ![s] = sp]
        /\ DOMAIN info' = Sessions /\ DOMAIN spec' = Sessions /\ DOMAIN agent' = Sessions
        /\ \A r \in registry : info'[r] = info[r] /\ spec'[r] = spec[r] /\ agent'[r] = agent[r]
        /\ spec'[s] = sp
    BY <1>3 DEF Spawn
  <1>10. i = [status           |-> IF sp.mode = "headless" THEN "Starting" ELSE "Idle",
              cwd              |-> sp.cwd,
              model            |-> IF sp.mode = "shell" THEN None ELSE m,
              agent_session_id |-> None]
    BY <1>3 DEF Spawn
  <1>11. CASE sp.mode = "shell"
    <2>1. a = [cwd |-> sp.cwd, model |-> None, permission_mode |-> None, allowed_tools |-> None,
               conversation |-> None]
      BY <1>3, <1>11 DEF Spawn, NoAgent
    <2> HIDE DEF i, a, m, p
    <2>2. i \in Info /\ a \in Agent
      BY <1>1, <1>10, <1>11, <2>1 DEF Info, Agent, Maybe
    <2>3. Known(i, sp, a) /\ RunsBySpec(sp, a)
      BY <1>10, <1>11, <2>1 DEF Known, RunsBySpec
    <2>4. ASSUME NEW w, Recreates(sp, w)
          PROVE  /\ a.cwd = w.agent.cwd
                 /\ w.info.model = None /\ w.info.agent_session_id = None
                 /\ w.by = "project" =>
                        /\ a.allowed_tools = w.agent.allowed_tools
                        /\ w.spec.permission_mode # None =>
                               a.permission_mode = w.agent.permission_mode
      BY <1>11, <2>1, <2>4 DEF Recreates
    <2> QED
      BY <1>9, <2>2, <2>3, <2>4 DEF i, a
  <1>12. CASE sp.mode # "shell"
    <2> DEFINE tools == IF sp.mode = "headless" THEN Given(sp.allowed_tools) ELSE None
               perm == IF sp.mode = "headless" THEN Given(p) ELSE None
    <2>1. a = [cwd |-> sp.cwd, model |-> Or(m, AgentModel), permission_mode |-> perm,
               allowed_tools |-> tools, conversation |-> Or(sp.resume, s)]
      <3>1. CASE sp.mode = "headless"
        BY <1>3, <3>1 DEF Spawn, Started, HeadlessArgs
      <3>2. CASE sp.mode = "interactive"
        BY <1>3, <3>2 DEF Spawn, Started, InteractiveArgs
      <3> QED
        BY <1>1, <1>12, <3>1, <3>2 DEF Modes
    <2>2. tools \in Maybe(Values) /\ perm \in Maybe(Values)
      BY <1>8 DEF Maybe
    <2>3. sp.mode = "headless" =>
              /\ tools = Given(sp.allowed_tools)
              /\ sp.permission_mode # None => perm = Given(sp.permission_mode)
      BY <1>5
    <2>4. sp.mode # "headless" => tools = None /\ perm = None
      OBVIOUS
    <2> HIDE DEF i, a, m, p, tools, perm
    <2>5. i \in Info /\ a \in Agent
      BY <1>1, <1>5, <1>6, <1>7, <1>10, <1>12, <2>1, <2>2 DEF Info, Agent, Maybe
    <2>6. Known(i, sp, a)
      BY <1>6, <1>10, <1>12, <2>1 DEF Known
    <2>7. RunsBySpec(sp, a)
      BY <2>1, <2>3, <2>4 DEF RunsBySpec
    <2>8. ASSUME NEW w, Recreates(sp, w)
          PROVE  /\ a.cwd = w.agent.cwd
                 /\ w.info.model # None => a.model = w.agent.model
                 /\ w.info.agent_session_id # None => a.conversation = w.agent.conversation
                 /\ w.by = "project" =>
                        /\ a.allowed_tools = w.agent.allowed_tools
                        /\ w.spec.permission_mode # None =>
                               a.permission_mode = w.agent.permission_mode
      BY <1>5, <1>6, <1>7, <2>1, <2>3, <2>4, <2>8 DEF Recreates
    <2> QED
      BY <1>9, <2>5, <2>6, <2>7, <2>8 DEF i, a
  <1> QED
    BY <1>11, <1>12

\* An entry that is saved of a session recreates it.
LEMMA SavedRecreates ==
    ASSUME Inv, NEW s \in Live
    PROVE  /\ SnapSpec(s) \in Spec /\ ProjectSpec(s) \in Spec
           /\ ProjectSpec(s) \in ProjectSession
           /\ Recreates(SnapSpec(s), AsItIs(s, "snapshot"))
           /\ Recreates(ProjectSpec(s), AsItIs(s, "project"))
  <1>1. /\ info[s] \in Info /\ spec[s] \in Spec /\ agent[s] \in Agent
        /\ Known(info[s], spec[s], agent[s]) /\ RunsBySpec(spec[s], agent[s])
    BY DEF Inv, SessionInv, Live
  <1>2. /\ SnapSpec(s).mode = spec[s].mode /\ SnapSpec(s).cwd = info[s].cwd
        /\ SnapSpec(s).model = info[s].model /\ SnapSpec(s).resume = info[s].agent_session_id
    BY DEF SnapSpec
  <1>3. /\ ProjectSpec(s).mode = spec[s].mode /\ ProjectSpec(s).cwd = info[s].cwd
        /\ ProjectSpec(s).model = info[s].model
        /\ ProjectSpec(s).resume = info[s].agent_session_id
        /\ ProjectSpec(s).permission_mode = spec[s].permission_mode
        /\ ProjectSpec(s).allowed_tools = spec[s].allowed_tools
    BY DEF ProjectSpec, SnapSpec
  <1>4. SnapSpec(s) \in Spec
    BY <1>1 DEF SnapSpec, Spec, Info, Maybe
  <1>5. ProjectSpec(s) \in Spec /\ ProjectSpec(s) \in ProjectSession
    BY <1>1 DEF ProjectSpec, SnapSpec, Spec, ProjectSession, Info, Maybe
  <1>6. Recreates(SnapSpec(s), AsItIs(s, "snapshot"))
    BY <1>1, <1>2 DEF Recreates, AsItIs, Known
  <1>7. Recreates(ProjectSpec(s), AsItIs(s, "project"))
    BY <1>1, <1>3 DEF Recreates, AsItIs, Known, RunsBySpec
  <1> QED
    BY <1>4, <1>5, <1>6, <1>7

\* What a line tells is so, and what it does not tell stays.
LEMMA LinesTellTheTruth ==
    ASSUME NEW s \in registry, info[s] \in Info, agent[s] \in Agent, NEW sp,
           Known(info[s], sp, agent[s]), sp.mode # "shell", NEW line \in Line(s)
    PROVE  /\ OnEvent(info[s], line) \in Info
           /\ Known(OnEvent(info[s], line), sp, agent[s])
           /\ info[s].model # None => OnEvent(info[s], line).model = agent[s].model
           /\ info[s].agent_session_id # None =>
                  OnEvent(info[s], line).agent_session_id = agent[s].conversation
  <1> DEFINE i == info[s]
             a == agent[s]
  <1>1. /\ line.session_id \in {None, a.conversation}
        /\ line.model \in {None, a.model}
        /\ line.cwd \in {None, a.cwd}
    BY DEF Line
  <1>2. i \in Info /\ a \in Agent /\ Known(i, sp, a)
    OBVIOUS
  <1>3. /\ OnInit(i, line) \in Info
        /\ Known(OnInit(i, line), sp, a)
        /\ i.model # None => OnInit(i, line).model = a.model
        /\ i.agent_session_id # None => OnInit(i, line).agent_session_id = a.conversation
    <2> HIDE DEF i, a
    <2> DEFINE r == OnInit(i, line)
    <2>1. /\ r.cwd = Or(line.cwd, i.cwd) /\ r.model = Or(line.model, i.model)
          /\ r.agent_session_id = Or(line.session_id, i.agent_session_id)
      BY <1>2 DEF OnInit, Info
    <2>2. /\ Or(line.cwd, i.cwd) \in Values /\ Or(line.model, i.model) \in Maybe(Values)
          /\ Or(line.session_id, i.agent_session_id) \in Maybe(Sessions)
      BY <1>1, <1>2, NoneAssumption DEF Info, Agent, Or, Maybe
    <2>3. r \in Info
      BY <1>2, <2>2 DEF OnInit, Info
    <2>4. Known(r, sp, a)
      BY <1>1, <1>2, <2>1 DEF Known, Or
    <2> QED
      BY <1>1, <1>2, <2>1, <2>3, <2>4 DEF Known, Or
  <1>4. LET r == [i EXCEPT !.agent_session_id = Or(line.session_id, @), !.status = "Idle"]
        IN  /\ r \in Info
            /\ Known(r, sp, a)
            /\ i.model # None => r.model = a.model
            /\ i.agent_session_id # None => r.agent_session_id = a.conversation
    <2> HIDE DEF i, a
    <2> DEFINE r == [i EXCEPT !.agent_session_id = Or(line.session_id, @), !.status = "Idle"]
    <2>1. /\ r.cwd = i.cwd /\ r.model = i.model
          /\ r.agent_session_id = Or(line.session_id, i.agent_session_id)
      BY <1>2 DEF Info
    <2>2. Or(line.session_id, i.agent_session_id) \in Maybe(Sessions)
      BY <1>1, <1>2 DEF Info, Agent, Or, Maybe
    <2>3. r \in Info
      BY <1>2, <2>2 DEF Info
    <2>4. Known(r, sp, a)
      BY <1>1, <1>2, <2>1 DEF Known, Or
    <2> QED
      BY <1>1, <1>2, <2>1, <2>3, <2>4 DEF Known, Or
  <1>5. LET r == [i EXCEPT !.status = "Busy"]
        IN  /\ r \in Info
            /\ Known(r, sp, a)
            /\ i.model # None => r.model = a.model
            /\ i.agent_session_id # None => r.agent_session_id = a.conversation
    BY <1>2 DEF Known, Info
  <1>6. /\ i.model # None => i.model = a.model
        /\ i.agent_session_id # None => i.agent_session_id = a.conversation
    BY <1>2 DEF Known
  <1> HIDE DEF i, a
  <1> QED
    BY <1>2, <1>3, <1>4, <1>5, <1>6 DEF OnEvent, i, a

-----------------------------------------------------------------------------
(* The steps.                                                              *)

\* A launch keeps what is known of the sessions, if its spec recreates what it is launched for.
LEMMA SpawnKeeps ==
    ASSUME Inv, NEW s \in Sessions, NEW sp \in Spec, Spawn(s, sp),
           NEW w, w # None => Recreates(sp, w), was' = [was EXCEPT ![s] = w]
    PROVE  SessionInv'
  <1>1. /\ registry' = registry \cup {s} /\ s \notin registry
        /\ registry \subseteq Sessions /\ DOMAIN was = Sessions
        /\ spec' = [spec EXCEPT ![s] = sp]
        /\ DOMAIN info' = Sessions /\ DOMAIN spec' = Sessions /\ DOMAIN agent' = Sessions
        /\ \A r \in registry : info'[r] = info[r] /\ spec'[r] = spec[r] /\ agent'[r] = agent[r]
        /\ spec'[s] = sp
        /\ info'[s] \in Info /\ agent'[s] \in Agent
        /\ Known(info'[s], sp, agent'[s])
        /\ RunsBySpec(sp, agent'[s])
    BY Launched DEF Inv, SessionInv
  <1>2. /\ \A r \in registry : was'[r] = was[r]
        /\ was'[s] = w /\ DOMAIN was' = Sessions
    BY <1>1
  <1>3. ASSUME NEW r \in registry'
        PROVE  /\ info'[r] \in Info /\ spec'[r] \in Spec /\ agent'[r] \in Agent
               /\ Known(info'[r], spec'[r], agent'[r]) /\ RunsBySpec(spec'[r], agent'[r])
    BY <1>1 DEF Inv, SessionInv
  <1>4. RestoredAsItWas'
    <2>1. SUFFICES ASSUME NEW r \in registry', was'[r] # None
                   PROVE  LET v == was'[r]
                          IN  /\ agent'[r].cwd = v.agent.cwd
                              /\ v.info.model # None => agent'[r].model = v.agent.model
                              /\ v.info.agent_session_id # None =>
                                     agent'[r].conversation = v.agent.conversation
                              /\ v.by = "project" =>
                                     /\ agent'[r].allowed_tools = v.agent.allowed_tools
                                     /\ v.spec.permission_mode # None =>
                                            agent'[r].permission_mode = v.agent.permission_mode
      BY DEF RestoredAsItWas
    <2>2. CASE r = s
      BY <1>2, <2>1, <2>2, Launched
    <2>3. CASE r \in registry
      BY <1>1, <1>2, <2>1, <2>3 DEF Inv, SessionInv, RestoredAsItWas
    <2> QED
      BY <1>1, <2>2, <2>3
  <1> QED
    BY <1>1, <1>2, <1>3, <1>4 DEF SessionInv

\* A step that leaves the sessions alone, but for those that are removed, keeps what is known of them.
LEMMA FewerSessions ==
    ASSUME SessionInv, registry' \subseteq registry, UNCHANGED <<info, spec, agent, was>>
    PROVE  SessionInv'
  BY DEF SessionInv, RestoredAsItWas

\* A step of a reader keeps the other sessions, and this one if its entry stays true.
LEMMA ReaderKeeps ==
    ASSUME SessionInv, NEW s \in registry, NEW i \in Info, Known(i, spec[s], agent[s]),
           info' = [info EXCEPT ![s] = i], UNCHANGED <<registry, spec, agent, was>>
    PROVE  SessionInv'
  <1>1. DOMAIN info' = Sessions /\ \A r \in registry : info'[r] = IF r = s THEN i ELSE info[r]
    BY DEF SessionInv
  <1>2. RestoredAsItWas'
    BY DEF SessionInv, RestoredAsItWas
  <1> QED
    BY <1>1, <1>2 DEF SessionInv

\* What open_project makes of the entries of a file recreates what they were made of.
LEMMA OpenedIsFaithful ==
    ASSUME FileInv, NEW k \in DOMAIN file.sessions,
           Or(file.sessions[k].spec.cwd, file.cwd) # None
    PROVE  /\ Opened(file, file.sessions[k].spec) \in Spec
           /\ file.sessions[k].was # None =>
                  Recreates(Opened(file, file.sessions[k].spec), file.sessions[k].was)
  <1> DEFINE e == file.sessions[k].spec
             o == Opened(file, e)
  <1>1. /\ e \in ProjectSession
        /\ file.cwd \in Maybe(Values) /\ file.model \in Maybe(Values)
        /\ file.permission_mode \in Maybe(Values)
    BY DEF FileInv
  <1>2. /\ o.mode = e.mode /\ o.resume = e.resume /\ o.allowed_tools = e.allowed_tools
        /\ o.cwd = Or(e.cwd, file.cwd) /\ o.model = Or(e.model, file.model)
        /\ o.permission_mode = Or(e.permission_mode, file.permission_mode)
    BY <1>1 DEF Opened, ProjectSession
  <1>3. /\ Or(e.cwd, file.cwd) \in Values /\ Or(e.model, file.model) \in Maybe(Values)
        /\ Or(e.permission_mode, file.permission_mode) \in Maybe(Values)
    BY <1>1 DEF Or, Maybe, ProjectSession
  <1>4. o \in Spec
    BY <1>1, <1>3 DEF Opened, ProjectSession, Spec
  <1>5. ASSUME file.sessions[k].was # None PROVE Recreates(o, file.sessions[k].was)
    <2>1. /\ file.cwd = None /\ file.model = None /\ file.permission_mode = None
          /\ Recreates(e, file.sessions[k].was)
      BY <1>5 DEF FileInv
    <2>2. o.cwd = e.cwd /\ o.model = e.model /\ o.permission_mode = e.permission_mode
      BY <1>2, <2>1 DEF Or
    <2> HIDE DEF o, e
    <2> QED
      BY <1>2, <2>1, <2>2 DEF Recreates
  <1> QED
    BY <1>4, <1>5

\* The configuration through a command that leaves it alone.
LEMMA SameConfig ==
    ASSUME ConfigInv, UNCHANGED <<config, saved, setting>>, budget' \in 0..UserBudget
    PROVE  ConfigInv'
  BY DEF ConfigInv

\* A command leaves a part of the budget.
LEMMA CommandSpends ==
    ASSUME ConfigInv, Command
    PROVE  budget' \in 0..UserBudget /\ setting = None
  BY BudgetAssumption DEF ConfigInv, Command, Ready

\* What the next run starts with: what this one ran with or was setting, migrated, and saved so.
LEMMA RestartLoads ==
    ASSUME ConfigInv, Restart
    PROVE  /\ config' = Migrated(Or(setting, config))
           /\ Or(setting, config) \in Config
           /\ config' \in Config
           /\ Or(saved', DefaultConfig) = config'
           /\ saved' \in Maybe(Config)
  <1> DEFINE loaded == Or(saved, DefaultConfig)
  <1>1. loaded = Or(setting, config) /\ loaded \in Config
    BY ConfigsAssumption DEF ConfigInv, Or, Maybe
  <1>2. config' = Migrated(loaded)
    BY DEF Restart
  <1>3. saved' = IF loaded.max_attached <= OldLimit THEN Migrated(loaded) ELSE saved
    BY DEF Restart
  <1>4. Migrated(loaded) \in Config
    BY <1>1, ConfigsAssumption DEF Migrated, Config
  <1>5. Migrated(loaded) # None
    BY <1>4, NoneAssumption
  <1>6. CASE loaded.max_attached <= OldLimit
    BY <1>1, <1>2, <1>3, <1>4, <1>5, <1>6 DEF Or, Maybe
  <1>7. CASE ~(loaded.max_attached <= OldLimit)
    BY <1>1, <1>2, <1>3, <1>4, <1>7 DEF ConfigInv, Migrated
  <1> QED
    BY <1>6, <1>7

\* Every step keeps the invariant.
LEMMA StepKeeps == ASSUME Inv, [Next]_vars PROVE Inv'
  <1> USE DEF vars, storeVars, sessionVars
  <1>0. ConfigInv /\ SessionInv /\ Faithful(snapshot) /\ Faithful(todo) /\ FileInv
    BY DEF Inv
  <1>1. ASSUME NEW s \in Sessions, NEW sp \in Specs, Create(s, sp) PROVE Inv'
    <2>1. SessionInv'
      BY <1>1, SpawnKeeps, SpecsAssumption DEF Create
    <2> QED
      BY <1>0, <1>1, <2>1, SameConfig, CommandSpends DEF Create, Inv, Faithful, FileInv
  <1>2. ASSUME NEW s \in Sessions, Remove(s) PROVE Inv'
    BY <1>0, <1>2, FewerSessions, SameConfig, CommandSpends DEF Remove, Inv, Faithful, FileInv
  <1>3. ASSUME NEW s \in Sessions, ReadLine(s) PROVE Inv'
    <2>1. PICK line \in Line(s) : info' = [info EXCEPT ![s] = OnEvent(info[s], line)]
      BY <1>3 DEF ReadLine
    <2>2. /\ s \in registry /\ spec[s].mode # "shell"
          /\ info[s] \in Info /\ agent[s] \in Agent /\ Known(info[s], spec[s], agent[s])
      BY <1>0, <1>3 DEF ReadLine, Live, SessionInv
    <2>3. OnEvent(info[s], line) \in Info /\ Known(OnEvent(info[s], line), spec[s], agent[s])
      BY <2>2, LinesTellTheTruth
    <2>4. SessionInv'
      BY <1>0, <1>3, <2>1, <2>2, <2>3, ReaderKeeps DEF ReadLine
    <2> QED
      BY <1>0, <1>3, <2>4 DEF ReadLine, Inv, ConfigInv, Faithful, FileInv
  <1>4. ASSUME NEW s \in Sessions, End(s) PROVE Inv'
    <2> DEFINE i == [info[s] EXCEPT !.status = "Stopped"]
    <2>1. s \in registry /\ info[s] \in Info /\ Known(info[s], spec[s], agent[s])
      BY <1>0, <1>4 DEF End, Live, SessionInv
    <2>2. i \in Info /\ Known(i, spec[s], agent[s])
      BY <2>1 DEF Info, Known
    <2>3. info' = [info EXCEPT ![s] = i]
      BY <1>4 DEF End
    <2>4. SessionInv'
      BY <1>0, <1>4, <2>1, <2>2, <2>3, ReaderKeeps DEF End
    <2> QED
      BY <1>0, <1>4, <2>4 DEF End, Inv, ConfigInv, Faithful, FileInv
  <1>5. ASSUME NEW cfg \in Configs, SetConfig(cfg) PROVE Inv'
    <2>1. SessionInv'
      BY <1>0, <1>5, FewerSessions DEF SetConfig
    <2>2. cfg \in Config /\ cfg # None
      BY ConfigsAssumption, NoneAssumption
    <2>3. ConfigInv'
      BY <1>0, <1>5, <2>2, CommandSpends DEF SetConfig, ConfigInv, Maybe
    <2> QED
      BY <1>0, <1>5, <2>1, <2>3 DEF SetConfig, Inv, Faithful, FileInv
  <1>6. CASE ApplyConfig
    <2>1. SessionInv'
      BY <1>0, <1>6, FewerSessions DEF ApplyConfig
    <2>2. ConfigInv'
      BY <1>0, <1>6 DEF ApplyConfig, ConfigInv, Maybe, Or
    <2> QED
      BY <1>0, <1>6, <2>1, <2>2 DEF ApplyConfig, Inv, Faithful, FileInv
  <1>7. CASE SaveSnapshot
    <2>1. SessionInv' /\ ConfigInv'
      BY <1>0, <1>7, FewerSessions, SameConfig, CommandSpends DEF SaveSnapshot
    <2>2. Faithful(snapshot)'
      BY <1>7, SavedRecreates DEF SaveSnapshot, Faithful
    <2> QED
      BY <1>0, <1>7, <2>1, <2>2 DEF SaveSnapshot, Inv, Faithful, FileInv
  <1>8. CASE SaveProject
    <2>1. SessionInv' /\ ConfigInv'
      BY <1>0, <1>8, FewerSessions, SameConfig, CommandSpends DEF SaveProject
    <2>2. /\ file'.cwd = None /\ file'.model = None /\ file'.permission_mode = None
          /\ file'.sessions = [s \in Live |-> [spec |-> ProjectSpec(s), was |-> AsItIs(s, "project")]]
      BY <1>8 DEF SaveProject, NoFile
    <2>3. FileInv'
      BY <2>2, SavedRecreates DEF FileInv, Maybe
    <2> QED
      BY <1>0, <1>8, <2>1, <2>3 DEF SaveProject, Inv, Faithful
  <1>9. ASSUME NEW d \in Drafts, WriteProject(d) PROVE Inv'
    <2>1. SessionInv' /\ ConfigInv'
      BY <1>0, <1>9, FewerSessions, SameConfig, CommandSpends DEF WriteProject
    <2>2. /\ d.cwd \in Maybe(Values) /\ d.model \in Maybe(Values)
          /\ d.permission_mode \in Maybe(Values) /\ d.sessions \subseteq ProjectSession
          /\ d \in ProjectFile
      BY SpecsAssumption DEF ProjectFile
    <2>3. /\ file'.cwd = d.cwd /\ file'.model = d.model /\ file'.permission_mode = d.permission_mode
          /\ file'.sessions = [e \in d.sessions |-> [spec |-> e, was |-> None]]
      BY <1>9, <2>2 DEF WriteProject, ProjectFile
    <2>4. FileInv'
      BY <2>2, <2>3 DEF FileInv
    <2> QED
      BY <1>0, <1>9, <2>1, <2>4 DEF WriteProject, Inv, Faithful
  <1>10. CASE Restore
    <2>1. SessionInv' /\ ConfigInv'
      BY <1>0, <1>10, FewerSessions, SameConfig, CommandSpends DEF Restore
    <2> QED
      BY <1>0, <1>10, <2>1 DEF Restore, Inv, Faithful, FileInv
  <1>11. CASE OpenProject
    <2>1. SessionInv' /\ ConfigInv'
      BY <1>0, <1>11, FewerSessions, SameConfig, CommandSpends DEF OpenProject
    <2> DEFINE Kept == {k \in DOMAIN file.sessions :
                            Or(file.sessions[k].spec.cwd, file.cwd) \notin {None, ""}}
    <2>2. todo' = [k \in Kept |-> [spec |-> Opened(file, file.sessions[k].spec),
                                   was |-> file.sessions[k].was]]
      BY <1>11 DEF OpenProject
    <2>3. ASSUME NEW k \in Kept
          PROVE  /\ todo'[k].spec \in Spec
                 /\ todo'[k].was # None => Recreates(todo'[k].spec, todo'[k].was)
      <3>1. /\ todo'[k].spec = Opened(file, file.sessions[k].spec)
            /\ todo'[k].was = file.sessions[k].was
        BY <2>2
      <3> QED
        BY <1>0, <3>1, OpenedIsFaithful
    <2>4. Faithful(todo)'
      BY <2>2, <2>3 DEF Faithful
    <2> QED
      BY <1>0, <1>11, <2>1, <2>4 DEF OpenProject, Inv, Faithful, FileInv
  <1>12. ASSUME NEW k \in DOMAIN todo, todo' = Rest(k) PROVE Faithful(todo)'
    BY <1>0, <1>12 DEF Rest, Restrict, Faithful
  <1>13. ASSUME NEW k \in DOMAIN todo, LaunchFails(k) PROVE Inv'
    <2>1. SessionInv' /\ ConfigInv'
      BY <1>0, <1>13, FewerSessions DEF LaunchFails, ConfigInv
    <2> QED
      BY <1>0, <1>12, <1>13, <2>1 DEF LaunchFails, Inv, Faithful, FileInv
  <1>14. ASSUME NEW k \in DOMAIN todo, NEW s \in Sessions, LaunchNext(k, s) PROVE Inv'
    <2>1. SessionInv'
      BY <1>0, <1>14, SpawnKeeps DEF LaunchNext, Faithful
    <2>2. Faithful(todo)'
      BY <1>12, <1>14 DEF LaunchNext
    <2> QED
      BY <1>0, <1>14, <2>1, <2>2 DEF LaunchNext, Inv, ConfigInv, Faithful, FileInv
  <1>15. CASE Restart
    <2>1. SessionInv'
      BY <1>0, <1>15, FewerSessions DEF Restart
    <2>2. ConfigInv'
      BY <1>0, <1>15, RestartLoads, BudgetAssumption DEF Restart, ConfigInv, Maybe
    <2>3. Faithful(todo)'
      BY <1>15 DEF Restart, NoEntries, Faithful
    <2> QED
      BY <1>0, <1>15, <2>1, <2>2, <2>3 DEF Restart, Inv, Faithful, FileInv
  <1>16. CASE UNCHANGED vars
    BY <1>0, <1>16 DEF Inv, ConfigInv, SessionInv, RestoredAsItWas, Faithful, FileInv
  <1> QED
    BY <1>1, <1>2, <1>3, <1>4, <1>5, <1>6, <1>7, <1>8, <1>9, <1>10, <1>11, <1>13, <1>14, <1>15,
       <1>16 DEF Next

-----------------------------------------------------------------------------
(* The theorems.                                                           *)

\* The program starts in it.
LEMMA InvInit == ASSUME Init PROVE Inv
  <1>1. \A cfg \in Config : Migrated(cfg) \in Config
    BY ConfigsAssumption DEF Migrated, Config
  <1>2. ConfigInv
    BY <1>1, ConfigsAssumption, BudgetAssumption DEF Init, ConfigInv, Or, Maybe
  <1>3. SessionInv
    BY DEF Init, SessionInv, RestoredAsItWas
  <1>4. Faithful(snapshot) /\ Faithful(todo) /\ FileInv
    BY DEF Init, NoEntries, NoFile, Faithful, FileInv, Maybe
  <1> QED
    BY <1>2, <1>3, <1>4 DEF Inv

\* It always holds.
LEMMA InvAlways == WorkSpec => []Inv
  <1>1. Init => Inv
    BY InvInit
  <1>2. Inv /\ [Next]_vars => Inv'
    BY StepKeeps
  <1> QED
    BY <1>1, <1>2, PTL DEF WorkSpec

\* Every variable stays in its type: a directory is known of every session, and every entry of a
\* snapshot or of a restoration is a spec that a session can be launched by.
THEOREM WorkTypeCorrect == WorkSpec => []WorkTypeOK
  <1>1. Inv => WorkTypeOK
    BY DEF Inv, ConfigInv, SessionInv, Faithful, FileInv, WorkTypeOK, Info
  <1> QED
    BY <1>1, InvAlways, PTL

\* However sessions are saved, launched again, told of by their lines and ended, and however the
\* configuration changes and the program restarts in between, a session that is launched from a
\* saved one has its directory, its model and its conversation as far as these were known, and from
\* a project file also its tools and the permission mode it was asked for.  (A snapshot holds
\* neither of these: core.rs:1011.)
THEOREM RestoredCorrect == WorkSpec => []RestoredAsItWas
  <1>1. Inv => RestoredAsItWas
    BY DEF Inv, SessionInv
  <1> QED
    BY <1>1, InvAlways, PTL

\* No line of an agent, no launch and no end of a session makes what is known of an agent untrue,
\* or forgotten.
THEOREM KnowledgeCorrect == WorkSpec => KnowledgeIsKept
  <1> DEFINE A == \A s \in registry \cap registry' :
                      /\ info[s].agent_session_id # None =>
                             info'[s].agent_session_id = agent[s].conversation
                      /\ info[s].model # None => info'[s].model = agent[s].model
  <1>1. ASSUME Inv, Next PROVE A
    <2> USE DEF vars, storeVars, sessionVars
    <2>1. \A s \in registry : Known(info[s], spec[s], agent[s]) /\ info[s] \in Info
                                /\ agent[s] \in Agent /\ s \in Sessions
      BY <1>1 DEF Inv, SessionInv
    <2>2. DOMAIN info = Sessions
      BY <1>1 DEF Inv, SessionInv
    <2>3. CASE \A s \in registry : info'[s] = info[s]
      BY <2>1, <2>3 DEF Known
    <2>4. ASSUME NEW s \in Sessions, NEW sp, Spawn(s, sp)
          PROVE  \A r \in registry : info'[r] = info[r]
      BY <2>2, <2>4 DEF Spawn
    <2>5. ASSUME NEW s \in Sessions, ReadLine(s) PROVE A
      <3>1. PICK line \in Line(s) : info' = [info EXCEPT ![s] = OnEvent(info[s], line)]
        BY <2>5 DEF ReadLine
      <3>2. s \in registry /\ spec[s].mode # "shell"
        BY <2>5 DEF ReadLine, Live
      <3>3. /\ info[s].model # None => info'[s].model = agent[s].model
            /\ info[s].agent_session_id # None =>
                   info'[s].agent_session_id = agent[s].conversation
        BY <2>1, <2>2, <3>1, <3>2, LinesTellTheTruth
      <3>4. \A r \in registry \ {s} : info'[r] = info[r]
        BY <3>1
      <3> QED
        BY <2>1, <3>3, <3>4 DEF Known
    <2>6. ASSUME NEW s \in Sessions, End(s) PROVE A
      <3>1. /\ info'[s].model = info[s].model
            /\ info'[s].agent_session_id = info[s].agent_session_id
            /\ \A r \in registry \ {s} : info'[r] = info[r]
            /\ s \in registry
        BY <2>1, <2>2, <2>6 DEF End, Live, Info
      <3> QED
        BY <2>1, <3>1 DEF Known
    <2>7. ASSUME NEW s \in Sessions, NEW sp \in Specs, Create(s, sp) PROVE A
      BY <2>3, <2>4, <2>7 DEF Create
    <2>8. ASSUME NEW k \in DOMAIN todo, NEW s \in Sessions, LaunchNext(k, s) PROVE A
      BY <2>3, <2>4, <2>8 DEF LaunchNext
    <2> HIDE DEF A
    <2>9. CASE info' = info
      BY <2>3, <2>9
    <2> QED
      BY <1>1, <2>5, <2>6, <2>7, <2>8, <2>9
         DEF Next, Remove, SetConfig, ApplyConfig, SaveSnapshot, SaveProject, Restore, OpenProject,
             WriteProject, LaunchFails, Restart
  <1>2. Inv /\ [Next]_vars => [A]_vars
    BY <1>1
  <1> QED
    BY <1>2, InvAlways, PTL DEF WorkSpec, KnowledgeIsKept

\* Raising the limit leaves the rest alone, and does not happen above the old limit.
LEMMA MigrationKeeps ==
    ASSUME NEW cfg \in Config
    PROVE  /\ Migrated(cfg).default_model = cfg.default_model
           /\ Migrated(cfg).default_permission_mode = cfg.default_permission_mode
           /\ cfg.max_attached > OldLimit => Migrated(cfg).max_attached = cfg.max_attached
  <1>1. cfg.max_attached \in Nat /\ OldLimit \in Nat
    BY DEF Config, OldLimit
  <1>2. CASE cfg.max_attached <= OldLimit
    BY <1>1, <1>2 DEF Migrated, Config
  <1>3. CASE ~(cfg.max_attached <= OldLimit)
    BY <1>3 DEF Migrated
  <1> QED
    BY <1>2, <1>3

\* Wherever the program ends, also between the two halves of set_config, the next one runs with
\* the default model and the permission mode of this one, or with those that were being set; and
\* with the limit of panes that goes with them, if that is more than 4.  (One of 4 or less is given
\* up at every start.)
THEOREM ConfigCorrect == WorkSpec => ConfigIsDurable
  <1> DEFINE Kept == \E cfg \in {config, Or(setting, config)} :
                 /\ config'.default_model = cfg.default_model
                 /\ config'.default_permission_mode = cfg.default_permission_mode
                 /\ cfg.max_attached > OldLimit => config'.max_attached = cfg.max_attached
  <1>1. ASSUME Inv, Restart PROVE Kept
    <2> DEFINE cfg == Or(setting, config)
    <2>1. cfg \in Config /\ config' = Migrated(cfg)
      BY <1>1, RestartLoads DEF Inv
    <2> HIDE DEF cfg
    <2>2. /\ config'.default_model = cfg.default_model
          /\ config'.default_permission_mode = cfg.default_permission_mode
          /\ cfg.max_attached > OldLimit => config'.max_attached = cfg.max_attached
      BY <2>1, MigrationKeeps
    <2> QED
      BY <2>2 DEF cfg
  <1>2. Inv /\ [Next]_vars => [Restart => Kept]_vars
    BY <1>1
  <1> QED
    BY <1>2, InvAlways, PTL DEF WorkSpec, ConfigIsDurable
=============================================================================
