SPECIFICATION Spec
SYMMETRY SessionSymmetry
CONSTANTS
    t1 = t1  t2 = t2  s1 = s1  s2 = s2  s3 = s3  c1 = c1  c2 = c2
    NoTask = NoTask  NoSession = NoSession  NoContext = NoContext
    Tasks = {t1, t2}
    Sessions = {s1, s2, s3}
    Contexts = {c1, c2}
    Priority <- Even
    MaxAttempts <- Twice
    Policies <- RoomyOrTight
    Times = {1}
    AgentFaults = {"crash", "error"}
    StdinCap = 1
    LongTurns = {t2}
    StdoutCap = 2
    TaskContext <- OwnContext
    CwdAlias <- Linked
    SpawnMayFail = TRUE
    UserCommands = {"remove", "cancel", "config"}
    UserBudget = 1
CHECK_DEADLOCK FALSE
INVARIANTS AssignedIsHeld SingleClaim DoneMeansAnswered NoDuplicateExecution PromptIsNext
PROPERTIES CanceledNeverSent CapRespected
