SPECIFICATION AppSpec
CONSTANTS
    r1 = r1
    r2 = r2
    Request = {r1, r2}
    Key <- Parts
    Limit = 1
    Window = 2
    MaxTime = 3
    Attempts = 3
    RetryDelay = 1
    DelayCap = 2
    MaxOutages = 2
CHECK_DEADLOCK FALSE
INVARIANT LimitKept
INVARIANT RefusedOnlyAtLimit
INVARIANT RepositoryOutlivesItsUsers
INVARIANT WorkKeptWithinLimit
INVARIANT AcceptedTaskIsKept
PROPERTY ShutdownCompletes
