SPECIFICATION PoolSpec

CONSTANTS
    s1 = s1  s2 = s2  s3 = s3
    Terms = {s1, s2}
    RingFloor = 2
    RingBytes = 1
    AttachLimit = 2
    MaxAttached = {0, 3}
    Commands = {"attach", "detach", "remove", "rename", "kill", "config", "reload"}
    UserBudget = 3
    Writers = {s1}
    ByteMax = 3
    ChunkMax = 3
    TermsExit = FALSE
    MonitorRuns = TRUE
    QueueMax = 1
CHECK_DEADLOCK FALSE
INVARIANTS PoolTypeOK FlagsFollowLru MostRecent NothingMissing
