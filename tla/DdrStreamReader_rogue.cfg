SPECIFICATION FairSpec
CONSTANTS
    Ring = 3
    PingPong = FALSE
    MAX_BURST_BEATS = 2
    CMD_DEPTH = 2
    MaxWrite = 5
    Rogue = TRUE
    Faults = TRUE
INVARIANT FetchWithinRing
PROPERTY EndsExactly
PROPERTY PointerFaultReported
