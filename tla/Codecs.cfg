\* Every URL of up to three options, and all small inputs of the other algorithms.
SPECIFICATION MCSpec

CONSTANTS
    UINT8_MAX = 7
    PAD_DEFAULT_MAX = 3
    MaxOption = 3
    MaxSize = 2

\* A call that has returned stops.
CHECK_DEADLOCK FALSE
INVARIANTS
    RoundTrip
    Verifies
    ModexpCorrect
    TextRoundTrip
