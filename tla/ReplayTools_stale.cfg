SPECIFICATION Spec
CONSTANTS
  Ports = {0, 1}
  Cabled = 0
  Gaps <- MCGaps
  Warmup = 1
  MaxTick = 8
  Faults = 0
  Delay = 3
  StartTimes = {2}
  MaxSamples = 1
  Tools = {"load", "sync-start"}
  MaxRuns = 2
  Kills = 0
INVARIANT LoadedOnTime
