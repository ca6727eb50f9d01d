SPECIFICATION FilesSpec
CONSTANTS
  Sources <- MCSources
  Beat = 4
  MinFrame = 3
  MaxFrame = 20
  TickNum = 3
  TickDen = 10
  Overhead = 1
  Lanes = 2
  BlockBeats = 5
  Overrides <- MCOverrides
  FileFaults = TRUE
INVARIANT StreamFaithful
INVARIANT StripesReassemble
