SPECIFICATION Spec
CONSTANTS
    t1 = t1
    t2 = t2
    w1 = w1
    w2 = w2
    w3 = w3
    w4 = w4
    k1 = k1
    p1 = p1
    TaskId = {t1, t2}
    WorkerId = {w1, w2, w3, w4}
    Key = {k1}
    Proc = {p1}
    NoKey = NoKey
    NoWorker = NoWorker
    NoTask = NoTask
    NoProc = NoProc
    Stop = Stop
    MaxAttempts = 2
    WorkerCount = 2
    MaxStarts = 2
    MaxErrors = 1
SYMMETRY Symmetry
INVARIANT QueuedTaskIsAwake
INVARIANT ExitLeavesNothingRunning
INVARIANT AttemptsAccounted
PROPERTY AnswerWakesQueuedTask
