\* Packets fill the queue before the socket; the settings of the other parts are in MCClient.
CONSTANTS
    Workers = {"t1", "t2"}
    Packets = {p1, p2, p3}
    QueueMax = 2
    SocketMax = 4
    Full = {}
    Left = FALSE
    Fails = FALSE
    Platform = {"linux", "freebsd"}
    MaxSignal = 1
    \* All transports of the table, and port numbers that unsigned holds
    Transports = {"ip", "ping", "tcp", "udp", "udplite"}
    UnsignedBits = 4
    UllBits = 6
    MaxNumber = 15
    DigitsMax = 100
    CKTP_MAX_ENCODINGS = 2
    MaxOpen = 2
    NoValue = NoValue
\* The workers wait when all packets are out, and a process that is gone stops.
CHECK_DEADLOCK FALSE
SPECIFICATION MCFairSpec
INVARIANTS
    NotRecaptured
    
    FreesAllocated
PROPERTIES
    
    QuitExits
    OpeningEnds
    Recovers
