SPECIFICATION PubSpec
SYMMETRY SessionSymmetry
CONSTANTS
    t1 = t1  s1 = s1  s2 = s2  c1 = c1
    NoTask = NoTask  NoSession = NoSession  NoContext = NoContext
    Tasks = {t1}
    Sessions = {s1, s2}
    Contexts = {c1}
    Priority <- Even
    MaxAttempts <- Twice
    Policies <- RoomyOnly
    Times = {1}
    AgentFaults = {"crash"}
    StdinCap = 1
    LongTurns = {}
    StdoutCap = 1
    TaskContext <- OneContext
    CwdAlias <- SameContext
    SpawnMayFail = FALSE
    UserCommands = {"cancel", "remove"}
    UserBudget = 1
    MayRestart = TRUE
    QueueMax = 2
CHECK_DEADLOCK FALSE
INVARIANTS PubTypeOK UncrossedIsCurrent StartNeverHidesResult DoneRowMeansAnswered
