CONSTANTS
    p1 = p1
    p2 = p2
    main = main
    dev = dev
    w1 = w1
    w2 = w2
    Path = {p1, p2}
    Branch = {main, dev}
    BranchOf <- MCTwoPaths
    InitialCommits <- MCInitialCommits
    Worker = {w1, w2}
    Manifests <- MCPlainOrCareful
    MaxCommits = 4
    MaxRuns = 2
    MaxFaults = 1
    MaxDisturbances = 0
    NoPath = NoPath
    NoBranch = NoBranch
    NoWorker = NoWorker
SPECIFICATION Spec
PROPERTIES
    MovesInScope
    PushIsDelivered
CHECK_DEADLOCK FALSE
SYMMETRY InterchangeableBoth
