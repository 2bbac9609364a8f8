SPECIFICATION NotifySpec
CONSTANTS
    Null = Null
    Other = Other
    NotifyQuery = {x}
    Caller = {c1}
    Checker = {k1}
    Ttl = {1}
    Delay = 0
    ClockFloor = 0
    Ahead = 1
    Retry = 1
    MinInterval = 1
    MaxTtl = 6
    MaxBatch = 1
    MaxSleepers = 2
    MaxTime = 9
INVARIANT FailedCheckDelaysNothing
CHECK_DEADLOCK FALSE
