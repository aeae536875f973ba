SPECIFICATION LogSpec
SYMMETRY WorkerSymmetry
CONSTANTS
    w1 = w1  w2 = w2
    Workers = {w1, w2}
    NoWorker = NoWorker
    HistoryLimit = 2
    BodyCap = 4
    LineMax = 3
    LogBudget = 3
CHECK_DEADLOCK FALSE
INVARIANTS LogTypeOK NothingLost
PROPERTY TargetHeard
