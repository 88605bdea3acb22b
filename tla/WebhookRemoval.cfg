CONSTANTS
    g1 = g1
    g2 = g2
    t1 = t1
    t2 = t2
    c1 = c1
    c2 = c2
    c3 = c3
    Delivery = {g1, g2}
    Token = {t1, t2}
    TokenOf <- MCTokenOfTwo
    Removable = {t1}
    Conn = {c1, c2}
    MaxRepoId = 2
    MaxDeployId = 2
    MaxCrashes = 0
    MaxFaults = 0
    NoToken = NoToken
    NoDelivery = NoDelivery
    NoConn = NoConn
SPECIFICATION Spec
INVARIANTS
    DrainCancelsAll
