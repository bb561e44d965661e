\* The first graph alone: a document may list two nodes with one id.
SPECIFICATION FirstSpec
CONSTANTS
    Ids = {1, 2, 3, 4}
    End = 2
    Start = 3
    MaxEdges = 2
    MaxEdits = 2
    None = None
    Objectives <- MCObjectives
    Means = {0, 1, 2, 3, 4}
    Radius = 1
    g1 = g1
    g2 = g2
    Guides = {g1, g2}
    Refiner = Refiner
    MaxCalls = 3
    MaxTokens = 4
    MaxEvaluations = 2
    Tokens = 2
    GuideCalls = 1
    Retries = 1
    Steps = 2
    Rounds = 2
    GuideSettings <- MCGuideSettings
    ContextEdges = 3
    NodeEntries = 3
    Solutions = 2
    Drafts <- MCDrafts
    PairedTasks = {1, 2}
    TaskScores = {0, 1, 2}
    PairedGates <- MCPairedGates
    Attempts <- MCAttempts
    Budgets <- MCBudgets
    MaxAttempts = 3
    Images = {0, 1, 3}
    Traces = {1, 2, 3, 4, 5, 6}
    Failing = {1, 3, 4, 6}
    Samplings <- MCSamplings
    Samples = 5
    EntryTexts <- MCEntryTexts
    MaxEntries = 4
    FullEntries = {0, 1, 2}
    Caps <- MCCaps
    HeadLength = 3
    MarkLength = 2
    TextLength = 6
    MaxCount = 3
INVARIANT NeverSilentlyRepaired
CHECK_DEADLOCK FALSE
