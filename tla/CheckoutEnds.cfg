CONSTANTS
    p1 = p1
    p2 = p2
    main = main
    dev = dev
    w1 = w1
    w2 = w2
    Path = {p1}
    Branch = {main, dev}
    BranchOf <- MCOnePath
    InitialCommits <- MCInitialCommits
    Worker = {w1, w2}
    Manifests <- MCOddOnes
    MaxCommits = 3
    MaxRuns = 2
    MaxFaults = 1
    MaxDisturbances = 1
    NoPath = NoPath
    NoBranch = NoBranch
    NoWorker = NoWorker
SPECIFICATION Spec
PROPERTIES
    RunsEnd
    CancelEndsTheWait
CHECK_DEADLOCK FALSE
