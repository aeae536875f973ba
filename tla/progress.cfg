SPECIFICATION FairSpec

CONSTANTS
    t1 = t1  t2 = t2  s1 = s1  s2 = s2  s3 = s3  c1 = c1  c2 = c2
    NoTask = NoTask  NoSession = NoSession  NoContext = NoContext
    Tasks = {t1, t2}
    Sessions = {s1, s2, s3}
    Contexts = {c1}
    Priority <- Even
    MaxAttempts <- Mixed
    Policies <- RoomyOnly
    Times = {1}
    AgentFaults = {"crash"}
    StdinCap = 1
    LongTurns = {t1}
    StdoutCap = 2
    TaskContext <- OneContext
    CwdAlias <- SameContext
    SpawnMayFail = FALSE
    UserCommands = {"cancel"}
    UserBudget = 0
INVARIANT NoOrphanRunning
PROPERTIES ImplementsContract NoStarvationWithRoom RunningTaskEnds DoneIsFinal
