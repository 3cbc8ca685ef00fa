SPECIFICATION Spec
CONSTANTS
    r1 = r1
    r2 = r2
    f1 = f1
    Run = {r1, r2}
    Feedback = {f1}
    NoSession = NoSession
    OtherTool = OtherTool
    MaxSteps = 1
    HistoryLimit = 1
    MaxCalls = 1
    MaxErrors = 1
SYMMETRY Symmetry
INVARIANT IInv
INVARIANT AnswerIsInSession
PROPERTY PromiseSpec
INVARIANT AsksItsOwnQuestion
INVARIANT RunningRowExplained
