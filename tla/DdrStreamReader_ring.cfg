SPECIFICATION FairSpec
CONSTANTS
    Ring = 4
    PingPong = TRUE
    MAX_BURST_BEATS = 3
    CMD_DEPTH = 2
    MaxWrite = 12
    Rogue = FALSE
    Faults = FALSE
INVARIANT FromItsPlace
INVARIANT NoBurstCrosses
INVARIANT NoFalseError
INVARIANT ReaderInv
PROPERTY ImplementsConsumer
PROPERTY Delivers
PROPERTY Ends
