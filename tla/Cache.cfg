SPECIFICATION FairSpec
CONSTANTS
    None = None
    Hosts = {h1, h2}
    Tasks = {t1, t2}
    Conns = {x1, x2, x3}
INVARIANTS
    TypeOK
    CachedIsWatched
PROPERTIES
    OpenStaysCached
    ClosedIsEvicted
CHECK_DEADLOCK FALSE
