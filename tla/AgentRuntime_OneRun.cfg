SPECIFICATION FairSpec
CONSTANTS
    r1 = r1
    f1 = f1
    Run = {r1}
    Feedback = {f1}
    NoSession = NoSession
    OtherTool = OtherTool
    MaxSteps = 2
    HistoryLimit = 2
    MaxCalls = 2
    MaxErrors = 2
INVARIANT FeedbackStoredOnce
INVARIANT AuditMatchesFeedback
PROPERTY EventsInOrder
PROPERTY RunEnds
