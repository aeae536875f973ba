SPECIFICATION PoolSpec

CONSTANTS
    s1 = s1  s2 = s2  s3 = s3
    Terms = {s1, s2}
    RingFloor = 2
    RingBytes = 1
    AttachLimit = 2
    MaxAttached = {1}
    Commands = {"remove"}
    UserBudget = 1
    Writers = {}
    ByteMax = 0
    ChunkMax = 1
    TermsExit = TRUE
    MonitorRuns = FALSE
    QueueMax = 1
CHECK_DEADLOCK FALSE
INVARIANTS RemovedIsGone
