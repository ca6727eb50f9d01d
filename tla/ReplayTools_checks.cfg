SPECIFICATION Spec
CONSTANTS
  Ports = {0, 1}
  Cabled = 0
  Gaps <- MCGaps
  Warmup = 1
  MaxTick = 11
  Faults = 1
  Delay = 3
  StartTimes = {0}
  MaxSamples = 1
  Tools = {"load", "sync-start", "interval", "spacing", "loopback", "strict", "command"}
  MaxRuns = 2
  Kills = 1
PROPERTY PassIsTrue
INVARIANT SyncAligned
