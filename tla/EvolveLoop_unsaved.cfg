\* The default NullCheckpointStore, strict gate and an evaluator that repeats itself.
SPECIFICATION Spec
CONSTANTS
    g0 = g0
    g1 = g1
    g2 = g2
    g3 = g3
    None = None
    Completed = Completed
    Runners = {r1}
    Graphs = {g0, g1, g2, g3}
    Skeleton = g0
    InitialGraphs = {None, g1}
    HostInvalid = {}
    ScoresOf <- SteadyScores
    Gate = "strict"
    Perfect = 9
    Bindings = {b1}
    Checkpointing = FALSE
    MaxRounds = 4
    MaxStreak = 9
    MaxIter = 4
    Materialise <- MCMaterialise
    Scores = {0, 1, 2}
CHECK_DEADLOCK FALSE
INVARIANTS
    NoRegression
