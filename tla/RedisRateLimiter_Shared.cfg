SPECIFICATION Spec
CONSTANTS
    q1 = q1
    q2 = q2
    q3 = q3
    q4 = q4
    p1 = p1
    p2 = p2
    k1 = k1
    Request = {q1, q2, q3, q4}
    Replica = {p1, p2}
    Key = {k1}
    Limit = 2
    Window = 4
    Slack = 1
    MaxDelay = 1
    MaxSkew = 1
    MaxTime = 6
SYMMETRY Symmetry
INVARIANT ShortWindowsKeepLimit
INVARIANT RefusedOnlyAtLimit
