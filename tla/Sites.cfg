SPECIFICATION Spec
CONSTANTS
    www = www
    site = site
    theme = theme
    cache = cache
    root = root
    andrei = andrei
    r1 = r1
    r2 = r2
    None = None
    Dir = {www, site, theme, cache}
    ParentOf <- MCParentOf
    Base = {www}
    Pruned = {cache}
    User = {root, andrei}
    Root = root
    Repo = {r1, r2}
    Registered = {r1}
    Spelling = {"a", "A"}
    Contents <- MCContents
    MaxInstalls = 2
    MaxTouches = 2
INVARIANTS
    TypeOK
    PushReachesItsCheckouts
    InstallKeepsItsWord
CHECK_DEADLOCK FALSE
