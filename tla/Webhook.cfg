CONSTANTS
    g1 = g1
    g2 = g2
    t1 = t1
    t2 = t2
    c1 = c1
    c2 = c2
    c3 = c3
    Delivery = {g1, g2}
    Token = {t1}
    TokenOf <- MCTokenOf
    Removable = {}
    Conn = {c1, c2}
    MaxRepoId = 2
    MaxDeployId = 2
    MaxCrashes = 2
    MaxFaults = 1
    NoToken = NoToken
    NoDelivery = NoDelivery
    NoConn = NoConn
SPECIFICATION FairSpec
INVARIANTS
    DrainCancelsAll
PROPERTIES
    RefinesLedger
    RowsSettle
    ShutdownEnds
