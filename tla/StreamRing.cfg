SPECIFICATION FairSpec
CONSTANTS
    Ring = 4
    PingPong = TRUE
    Chunks <- ChunksMixed
    PktBeats = 2
    Guard = 1
    Prefill = 7
    Writers = 3
    Word = 8
    FifoDepth = 4
    FifoMargin = 1
    Watermark = 3
    Faults = TRUE
INVARIANT SafeInv
INVARIANT InOrderDelivery
INVARIANT DoneMeansAll
INVARIANT CompletedMeansSent
INVARIANT AbortHasCause
PROPERTY ReaderContract
PROPERTY Terminates
