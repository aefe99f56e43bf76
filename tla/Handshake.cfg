\* Two tunnels opened at once over raw sockets, which get each other's replies, errors of
\* system calls, a rotation and a restart of the server.
SPECIFICATION Spec

CONSTANTS
    Tunnel = {t1, t2}
    Transport = "ping"
    NumEncodings = 1
    CryptIndex = 1
    CKTP_MAX_RETRIES = 1
    CKTP_MAX_ENCODING_HANDSHAKE = 4
    Refuses = FALSE
    Breaks = TRUE
    MaxRotate = 1
    MaxRestart = 1
    MaxRepeat = 1
    None = None

\* All attempts are over.
CHECK_DEADLOCK FALSE
PROPERTIES
    ImplementsKeyAgreement
