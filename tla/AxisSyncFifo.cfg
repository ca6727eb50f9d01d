SPECIFICATION Spec
CONSTANTS
    DEPTH = 10
    OUT_DEPTH = 2
    RAM_READ_LATENCY = 2
    LevelWord = 16
    MaxBeats = 11
    Clears = TRUE
INVARIANT FifoInv
PROPERTY ImplementsChannel
PROPERTY ReadyAgain
PROPERTY Drains
