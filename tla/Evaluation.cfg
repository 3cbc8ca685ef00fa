SPECIFICATION EvalSpec
CONSTANTS
    Mark = "."
    Documents <- MCDocuments
    StopWords <- MCStopWords
    IntentPhrases <- MCIntentPhrases
    Synonyms <- MCSynonyms
    LogRatio <- MCLogRatio
    FetchLimit = 4
    Questions <- MCQuestions
    Contexts <- MCContexts
    Rules <- MCRules
    Similarity <- MCSimilarity
    InitialIndexes <- MCInitialIndexes
    NoIndex = NoIndex
    Torn = Torn
    NoRequest = NoRequest
    NoReply = NoReply
    BatchSize = 3
    ChatLimit = 4
    CitationLimit = 2
    ToolLimit = 3
    ToolResultMaxChars = 20
    Found <- MCFound
    Cases <- MCCases
    Plans <- MCPlans
INVARIANT CoverageIsExact
INVARIANT AgentNeverBolderThanChat
INVARIANT FallbackLosesNothing
INVARIANT HybridKeepsTheBest
INVARIANT EvaluationRefusesAsAgent
INVARIANT UnavailableHybridChangesNothing
PROPERTY IndexChangesWhole
