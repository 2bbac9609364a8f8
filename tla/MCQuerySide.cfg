SPECIFICATION QuerySideSpec
CONSTANTS
  Null = Null
  Domains <- SomeDomains
  RuleConfigs <- SomeConfigs
  RuleQueries <- SomeQueries
  MaxLines = 3
  Configs <- MCConfigs
  Target = "t"
  Private = {"p"}
  Threshold = 1
  Window = 4
  Latencies = {1, 3}
  Modes = 2
  Setups <- MCSetups
  Messages <- MCMessages
  Confs <- MCConfs
  Ages = {1, 2}
  LocalTtl = 2
  WireLimit = 2
  NsSlots = {s1, s2}
  NsConfigs <- MCNsConfigs
  NsAsks <- MCNsAsks
  MaxDeferred = 1
  MaxRests = 2
  Received <- MCReceived
  ZoneConfigs <- MCZoneConfigs
  ZoneQueries <- MCZoneQueries
  Unit = 3
  Earliest = 4
  Life = {0, 1, 2, 3, 4, 5, 6, 7}
  MaxWall = 14
INVARIANTS
    NearestSettingWins BogusNeverServed CacheKeyedByQuestion HintsResolve DeferredBounded
    NeverBothSuppressed DerivedIsCurrent
PROPERTIES
    ExpiredStaysExpired
