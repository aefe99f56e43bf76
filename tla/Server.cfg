\* Two clients over three rotations, with the delays the margin allows.
SPECIFICATION MCSpec

CONSTANTS
    Client = {c1, c2}
    CRYPT_TIMEOUT = 8
    CRYPT_TIMEOUT_BUFF = 2
    CRYPT_MIN_TIMEOUT = 1
    CRYPT_MAX_TIMEOUT = 16
    U64 = 1000
    Oversleep = 2
    Delay = 1
    Linger = 1
    Straddle = FALSE
    MaxTime = 28
    Thread = {x1, x2}
    Transport = "udp"
    NumEncodings = 2
    CryptIndex = 1
    MaxPackets = 3
    Counters = {x1, x2}
    Sec = 2
    rps = 3
    timemin = 2
    timemax = 4
    W = 64
    Garbage = {0, 9}
    QuotaTime = 8
    MaxCount = 9
    Command = {x1, x2}
    Url = {"u", "w", "bad"}
    ValidUrl = {"u", "w"}
    MaxPid = 3
    MaxArgs = 2
    MaxCommand = 4
    None = None

SYMMETRY Symmetry

\* Requests, packets and commands are bounded.
CHECK_DEADLOCK FALSE
INVARIANTS
    
    TimeoutAccepted
    ReplyUnderOwnKey
    
    
    
    RunningRecorded
    
