SPECIFICATION SchedulerSpec
CONSTANTS
    PKT_FIFO_DEPTH = 2
    Configs <- HeldConfigs
    Gaps = {0, 3}
    MaxAdvance = 2
    Pauses = TRUE
    Holds = TRUE
    Restarts = TRUE
    Lead = 0
    MaxRecords = 3
    MaxTarget = 4
    MaxTicks = 8
INVARIANT SchedulerInv
INVARIANT NeverEarly
PROPERTY ImplementsChannel
PROPERTY LateExact
