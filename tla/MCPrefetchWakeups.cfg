SPECIFICATION WakeupSpec
CONSTANTS
    a = a
    b = b
    x = x
    y = y
    z = z
    k1 = k1
    Null = Null
    Bad = Bad
    Query = {a, b, c}
    Capacity = 3
    MemoryLimit = 2
    Job = {j1}
    MaxHandlers = 1
    MaxInserts = 3
    MaxStarts = 2
    Other = Other
    NotifyQuery = {x, y}
    Caller = {c1}
    Checker = {}
    Ttl = {0, 1}
    Delay = 2
    ClockFloor = 0
    Ahead = 1
    Retry = 1
    MinInterval = 1
    MaxTtl = 2
    MaxBatch = 1
    MaxSleepers = 2
    MaxTime = 8
SYMMETRY Symmetry
INVARIANT
    SelectedInTime
CHECK_DEADLOCK FALSE
