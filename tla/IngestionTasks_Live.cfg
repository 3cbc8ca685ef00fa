SPECIFICATION FairSpec
CONSTANTS
    t1 = t1
    t2 = t2
    w1 = w1
    w2 = w2
    w3 = w3
    w4 = w4
    p1 = p1
    TaskId = {t1, t2}
    WorkerId = {w1, w2, w3, w4}
    Key = {}
    Proc = {p1}
    NoKey = NoKey
    NoWorker = NoWorker
    NoTask = NoTask
    NoProc = NoProc
    Stop = Stop
    MaxAttempts = 2
    WorkerCount = 2
    MaxStarts = 2
    MaxErrors = 0
PROPERTY QueuedTaskIsClaimed
PROPERTY CloseTerminates
PROPERTY TaskFinishes
