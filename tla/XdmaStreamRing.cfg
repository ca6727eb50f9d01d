SPECIFICATION Spec
CONSTANTS
  Streams <- MCStreams
  Ring = 5
  PingPong = FALSE
  Guard = 1
  Prefill = 4
  Word = 5
  MaxSessions = 3
  Kills = 2
  Faults = TRUE
INVARIANT SessionInv
INVARIANT InOrder
INVARIANT CompletedMeansWhole
PROPERTY ReaderContract
PROPERTY SessionEnds
