SPECIFICATION FairSpec
CONSTANTS
    Release <- Releases
    First = 1
    Crashers <- Second
    Updater = {timer}
    Samples = 4
    MaxRuns = 3
    MaxTrouble = 2
INVARIANTS
    TypeOK
    RestartedIsRunning
    RolledBackIsBack
    GoodReleaseIsKept
PROPERTIES
    BadIsNotRetried
    ServiceComesBack
CHECK_DEADLOCK FALSE
