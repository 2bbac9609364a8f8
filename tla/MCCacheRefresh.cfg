SPECIFICATION CachesSpec
CONSTANTS
    g = g
    Null = Null
    Task = {t1, t2}
    BatchSize = 1
    Query = {a, b}
    IpQuery = {a, b}
    Group = {g}
    Answer <- BothSigns
    Ttl = {0, 1}
    SavedUntil = {2}
    ReplySize = 2
    Capacity = 1
    MemoryLimit = 0
    ServeExpired = TRUE
    ExpiredTtl = 1
    ExpiredReplyTtl = 1
    PrefetchTime = 1
    Ahead = 1
    ClockFloor = 0
    Lag = 1
    MaxTime = 3
SYMMETRY Symmetry
INVARIANTS
    UsageIsSum RepliesHonest MarkOwned
PROPERTY
    ImplementsAnswerStore
CHECK_DEADLOCK FALSE
