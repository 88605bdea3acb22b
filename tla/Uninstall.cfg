SPECIFICATION Spec
CONSTANTS
    r1 = r1
    r2 = r2
    Repo = {r1, r2}
    Unit = {daemon, update}
    Enablable = {daemon}
    Legacy = {old}
    Daemon = daemon
    MaxRuns = 2
    MaxTrouble = 2
INVARIANTS
    TypeOK
    OrphansAreAccepted
    ReportAccountsForAll
    HalfRemovedIsFinishable
CHECK_DEADLOCK FALSE
SYMMETRY InterchangeableRepos
