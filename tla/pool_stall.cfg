SPECIFICATION FairSpec

CONSTANTS
    t1 = t1  t2 = t2  s1 = s1  s2 = s2  s3 = s3  c1 = c1  c2 = c2
    NoTask = NoTask  NoSession = NoSession  NoContext = NoContext
    Tasks = {t1, t2}
    Sessions = {s1, s2}
    Contexts = {c1}
    Priority <- Even
    MaxAttempts <- Twice
    Policies <- OneAtATime
    Times = {1}
    AgentFaults = {}
    StdinCap = 1
    LongTurns = {}
    StdoutCap = 2
    TaskContext <- OneContext
    CwdAlias <- SameContext
    SpawnMayFail = FALSE
    UserCommands = {}
    UserBudget = 0
CHECK_DEADLOCK FALSE
PROPERTY IdleWorkerIsReused
