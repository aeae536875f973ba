SPECIFICATION FairPoolSpec

CONSTANTS
    s1 = s1  s2 = s2  s3 = s3
    Terms = {s1, s2, s3}
    RingFloor = 2
    RingBytes = 1
    AttachLimit = 3
    MaxAttached = {1, 3}
    Commands = {"attach", "detach", "config", "reload"}
    UserBudget = 5
    Writers = {}
    ByteMax = 0
    ChunkMax = 1
    TermsExit = FALSE
    MonitorRuns = TRUE
    QueueMax = 1
CHECK_DEADLOCK FALSE
PROPERTIES PanesConverge AttachEnforcesCap
