SPECIFICATION FairSpec
CONSTANTS
    r1 = r1
    r2 = r2
    r3 = r3
    Blocks <- BlocksMixed
    Readers <- ReadersThree
    Window = 3
    QueueDepth = 1
    Ring = 2
    PingPong = TRUE
    PktBeats = 1
    Guard = 1
    Prefill = 3
    Word = 4
    Faults = TRUE
CHECK_DEADLOCK FALSE
INVARIANT StagedInv
INVARIANT DirectInv
PROPERTY DirectContract
PROPERTY LoaderEnds
