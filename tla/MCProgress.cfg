SPECIFICATION ProgressSpec
CONSTANTS
    g = g
    Null = Null
    Query = {a, b}
    IpQuery = {a, b}
    Group = {g}
    Answer <- OnePositive
    Ttl = {0}
    SavedUntil = {}
    ReplySize = 3
    Capacity = 2
    MemoryLimit = 2
    ServeExpired = TRUE
    ExpiredTtl = 0
    ExpiredReplyTtl = 1
    PrefetchTime = 0
    Ahead = 1
    ClockFloor = 0
    Lag = 0
    MaxTime = 0
    Task = {t1}
    BatchSize = 1
    Slot = {s1, s2, s3}
    BackgroundLimit = 1
    QueryLimit = 1
    MaxIdle = 1
    MaxHandlers = 2
    MaxUptime = 1
    ip1 = ip1
    ip2 = ip2
    GroupServers = {s1, s2, s3}
    Ip = {ip1, ip2}
    Responses <- SomeResponses
    Options <- AllOptions
    ProbeWindow = 1
    NetTimeout = 3
    CountLimit = 4
    MaxPause = 1
INVARIANTS
    AddressPreferred
PROPERTIES
    MarksReleased BackgroundServed SelectionEnds
CHECK_DEADLOCK FALSE
