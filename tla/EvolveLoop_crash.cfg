\* One process at a time, stopped anywhere and started again; paper gate, noisy evaluator.  Once
\* interruptions end, a recorded round reaches rejection memory.
SPECIFICATION FairSpec
CONSTANTS
    g0 = g0
    g1 = g1
    g2 = g2
    g3 = g3
    None = None
    Completed = Completed
    Runners = {r1}
    Graphs = {g0, g1, g2, g3}
    Skeleton = g0
    InitialGraphs = {None, g1}
    HostInvalid = {}
    ScoresOf <- NoisyScores
    Gate = "tie"
    Perfect = 2
    Bindings = {b1}
    Checkpointing = TRUE
    MaxRounds = 2
    MaxStreak = 2
    MaxIter = 3
    Materialise <- MCMaterialise
    Scores = {0, 1, 2}
CHECK_DEADLOCK FALSE
INVARIANTS
    TypeOK
    HistoryAgrees
    RetainedIsControl
    StreakIsReal
PROPERTIES
    RecordedStageNotRepeated
    ImplementsAlgorithm1
    PendingFinishes
