\* Two URLs and ages: what the cache file holds.
CONSTANTS
    Url = {u1, u2}
    NoUrl = NoUrl
    Tun = {t1, t2, t3}
    NoTun = NoTun
    Thread = {p1, p2}
    TUNNEL_INIT_AGE = 2
    MAX_INIT_OPEN = 1
    MAX_RETRIES = 1
    EarlyUi = FALSE
    FopenFails = TRUE
    LowMtu = TRUE
SPECIFICATION Spec
SYMMETRY Symmetry
CHECK_DEADLOCK FALSE
INVARIANTS
    
    DeletedTunnelsForgotten
