\* One tunnel: packets up to the greatest size.  The constants of two tunnels are in
\* MCEncodedPath.
SPECIFICATION MCFairSpec

CONSTANTS
    Tunnel = {t1}
    Stacks <- AllStacks
    Mtus = {6, 9, 13, 16}
    IP_MSS = 3
    CKTP_MAX_PACKET_SIZE = 10
    MaxPacket = 12
    MaxChange = 1
    MaxLoss = 1

\* With an MTU that is too small tunnels_lock is not released.
CHECK_DEADLOCK FALSE

    
PROPERTIES
    PacketsGetThrough
