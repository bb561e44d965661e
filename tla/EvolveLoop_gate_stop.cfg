\* Violated: the recovery of an accepted round forgets that its decision said stop.
SPECIFICATION Spec
CONSTANTS
    g0 = g0
    g1 = g1
    g2 = g2
    g3 = g3
    None = None
    Completed = Completed
    Runners = {r1}
    Graphs = {g0, g1, g2, g3}
    Skeleton = g0
    InitialGraphs = {None}
    HostInvalid = {}
    ScoresOf <- FlatScores
    Gate = "custom"
    Perfect = 9
    Bindings = {b1}
    Checkpointing = TRUE
    MaxRounds = 2
    MaxStreak = 2
    MaxIter = 2
    Materialise <- MCMaterialise
    Scores = {0, 1, 2}
CHECK_DEADLOCK FALSE
PROPERTIES
    GateStopHonoured
