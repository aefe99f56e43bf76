\* One URL, four allocations: long histories of one tunnel.
CONSTANTS
    Url = {u1}
    NoUrl = NoUrl
    Tun = {t1, t2, t3, t4}
    NoTun = NoTun
    Thread = {p1, p2}
    TUNNEL_INIT_AGE = 1
    MAX_INIT_OPEN = 1
    MAX_RETRIES = 2
    EarlyUi = FALSE
    FopenFails = TRUE
    LowMtu = TRUE
SPECIFICATION Spec
SYMMETRY Symmetry
CHECK_DEADLOCK FALSE
INVARIANTS
    
    NoPanic
    OneTunnelPerUrl
    Ownership
