SPECIFICATION TasksSpec
CONSTANTS
    g = g
    Null = Null
    Query = {a}
    IpQuery = {a}
    Group = {g}
    Answer <- OnePositive
    Ttl = {1}
    SavedUntil = {}
    ReplySize = 1
    Capacity = 1
    MemoryLimit = 1
    ServeExpired = TRUE
    ExpiredTtl = 0
    ExpiredReplyTtl = 1
    PrefetchTime = 0
    Ahead = 1
    ClockFloor = 0
    Lag = 0
    MaxTime = 1
    Task = {t1, t2}
    BatchSize = 1
INVARIANT MarkHeld
CHECK_DEADLOCK FALSE
