SPECIFICATION Spec
CONSTANTS
    t1 = t1
    w1 = w1
    w2 = w2
    w3 = w3
    w4 = w4
    k1 = k1
    p1 = p1
    p2 = p2
    TaskId = {t1}
    WorkerId = {w1, w2, w3, w4}
    Key = {k1}
    Proc = {p1, p2}
    NoKey = NoKey
    NoWorker = NoWorker
    NoTask = NoTask
    NoProc = NoProc
    Stop = Stop
    MaxAttempts = 3
    WorkerCount = 1
    MaxStarts = 2
    MaxErrors = 1
SYMMETRY Symmetry
INVARIANT IInv
PROPERTY LifecycleSpec
INVARIANT ExecutedTwiceOnlyAfterRecovery
INVARIANT SaveAgreesAcrossAdapters
PROPERTY TerminalIsFinal
