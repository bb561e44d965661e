\* Two processes on one workspace, interrupted at most twice.
SPECIFICATION BoundedSpec
CONSTANTS
    r1 = r1
    r2 = r2
    g0 = g0
    g1 = g1
    g2 = g2
    g3 = g3
    None = None
    Completed = Completed
    Runners = {r1, r2}
    Graphs = {g0, g1}
    Skeleton = g0
    InitialGraphs = {None}
    HostInvalid = {}
    ScoresOf <- NoisyScores
    Gate = "tie"
    Perfect = 9
    Bindings = {b1}
    Checkpointing = TRUE
    MaxRounds = 2
    MaxStreak = 9
    MaxIter = 2
    Materialise <- MCMaterialise
    Scores = {0, 1, 2}
    MaxStops = 2
SYMMETRY Symmetry
CHECK_DEADLOCK FALSE
INVARIANTS
    RoundsConsecutive
    CompletedIsRecorded
PROPERTIES
    HistoryAppendOnly
