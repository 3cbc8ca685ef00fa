SPECIFICATION Spec
CONSTANTS
    t1 = t1
    w1 = w1
    w2 = w2
    k1 = k1
    p1 = p1
    TaskId = {t1}
    WorkerId = {w1, w2}
    Key = {k1}
    Proc = {p1}
    NoKey = NoKey
    NoWorker = NoWorker
    NoTask = NoTask
    NoProc = NoProc
    Stop = Stop
    MaxAttempts = 2
    WorkerCount = 1
    MaxStarts = 2
    MaxErrors = 0
INVARIANT AbandonedRecoveredBeforeWork
