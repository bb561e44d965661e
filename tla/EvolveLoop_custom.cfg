\* A gate that may return any decision, a host that normalises and refuses, two objectives.
SPECIFICATION Spec
CONSTANTS
    g0 = g0
    g1 = g1
    g2 = g2
    g3 = g3
    None = None
    Completed = Completed
    Runners = {r1}
    Graphs = {g0, g1, g2, g3}
    Skeleton = g0
    InitialGraphs = {None}
    HostInvalid = {g1}
    ScoresOf <- FlatScores
    Gate = "custom"
    Perfect = 9
    Bindings = {b1, b2}
    Checkpointing = TRUE
    MaxRounds = 3
    MaxStreak = 9
    MaxIter = 3
    Materialise <- MCMaterialise
    Scores = {1}
CHECK_DEADLOCK FALSE
INVARIANTS
    RejectedStaysRefused
    OneObjectivePerRound
PROPERTIES
    ImplementsAlgorithm1
