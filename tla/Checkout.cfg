CONSTANTS
    p1 = p1
    p2 = p2
    main = main
    dev = dev
    w1 = w1
    w2 = w2
    Path = {p1}
    Branch = {main}
    BranchOf <- MCOnePath
    InitialCommits <- MCOneCommit
    Worker = {w1, w2}
    Manifests <- MCCarefulOrBroken
    MaxCommits = 3
    MaxRuns = 3
    MaxFaults = 1
    MaxDisturbances = 1
    NoPath = NoPath
    NoBranch = NoBranch
    NoWorker = NoWorker
SPECIFICATION Spec
INVARIANTS
    TypeOK
    VerdictIsTrue
    MoveIsReported
    InterruptedIsUndone
    Converges
CHECK_DEADLOCK FALSE
SYMMETRY Interchangeable
