SPECIFICATION Spec
CONSTANTS
    Path <- TwoPaths
    Branch <- TwoBranches
    BranchOf <- EachItsOwn
    Selections = {0, 1}
    Worker = {w1}
    MaxCommits = 3
    MaxDeploys = 3
    MaxTrouble = 2
INVARIANTS
    TypeOK
    TargetsWereHere
    RecordedIsUndone
    KilledIsUndone
CHECK_DEADLOCK FALSE
