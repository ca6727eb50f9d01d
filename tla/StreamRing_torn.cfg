SPECIFICATION Spec
CONSTANTS
    Ring = 4
    PingPong = FALSE
    Chunks <- ChunksTwo
    PktBeats = 1
    Guard = 1
    Prefill = 2
    Writers = 2
    Word = 4
    FifoDepth = 3
    FifoMargin = 1
    Watermark = 1
    Faults = FALSE
INVARIANT PointerAbortIsReal
