\* One worker, with packets from a public address or from behind a NAT; two threads that
\* track packets, with numbers that begin again at zero; every choice of options but the
\* combined method; tunnels with ids of their own, and hashes that stay below the total
\* weight.
CONSTANTS
    Dispatcher = {w1}
    TcpHeaderSize = {20, 24}
    Source = {"public", "private"}
    MaxData = 9
    Mtu = {0, 44, 2000}
    Threads = {"w1", "w2"}
    Hashes = {1, 2, 3}
    BucketSize = 2
    MAX_SEQ = 2
    RepMod = 4
    MaxPackets = 4
    NatMethod = {"ttl", "checksum"}
    Urls = {u1, u2, u3}
    HistHashes = {1, 3}
    HashMax = 7
    HistSize = 1
    IdMod = 8
    One = 6
    Least = 4
    MaxRepeat = 1
    MaxCreate = 3
\* The packets and tunnels are bounded, and once tunnels_lock is leaked every thread waits.
CHECK_DEADLOCK FALSE
SYMMETRY Symmetry
SPECIFICATION MCSpec
INVARIANTS
    Delivered
    NameNeverClear
    HidesAsDescribed
    NoFalsePositive
PROPERTIES
    Avoids
