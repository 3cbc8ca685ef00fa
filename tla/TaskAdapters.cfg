SPECIFICATION AdapterSpec
CONSTANTS
    q1 = q1
    q2 = q2
    w1 = w1
    w2 = w2
    s1 = s1
    t1 = t1
    t2 = t2
    k1 = k1
    TaskId = {t1, t2}
    WorkerId = {w1, w2}
    Requester = {q1, q2}
    Starter = {s1}
    KeyOf <- OneKey
    Process <- Both
    Key = {k1}
    NoKey = NoKey
    NoWorker = NoWorker
    NoClient = NoClient
    Torn = Torn
    NoFile = NoFile
    MaxAttempts = 2
    MaxFailures = 2
SYMMETRY Symmetry
CHECK_DEADLOCK FALSE
INVARIANT OneKeyOneAnswer
INVARIANT LocksEndWithCalls
PROPERTY PromiseKept
