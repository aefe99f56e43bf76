\* Liveness: no symmetry, and nothing that leaks the lock.
CONSTANTS
    Url = {u1}
    NoUrl = NoUrl
    Tun = {t1, t2}
    NoTun = NoTun
    Thread = {p1, p2}
    TUNNEL_INIT_AGE = 1
    MAX_INIT_OPEN = 1
    MAX_RETRIES = 2
    EarlyUi = FALSE
    FopenFails = FALSE
    LowMtu = FALSE
SPECIFICATION FairSpec
PROPERTIES
    WaitingEnds
    DeleteSaved
