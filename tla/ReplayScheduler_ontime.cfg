SPECIFICATION SchedulerFairSpec
CONSTANTS
    PKT_FIFO_DEPTH = 4
    Configs <- OnTimeConfigs
    Gaps = {1, 5}
    MaxAdvance = 2
    Pauses = FALSE
    Holds = FALSE
    Restarts = TRUE
    Lead = 5
    MaxRecords = 4
    MaxTarget = 10
    MaxTicks = 14
PROPERTY OnTime
PROPERTY Leaves
