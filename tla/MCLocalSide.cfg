SPECIFICATION LocalSpec
CONSTANTS
  Null = Null
  FileSeekers = {s1, s2}
  Stores = {"hosts", "dnsmasq", "odhcpd", "mac"}
  Editions <- MCEditions
  Neighbours <- MCNeighbours
  Client = "a4"
  Interval = 1
  Horizon = 2
  ApiClients = {c1, c2}
  ApiDomains = {"a", "b"}
  MaxRules = 2
  HistoryLimit = 2
  MaxCompleted = 4
  FileSize = 2
  FileNum = 2
  QueueSize = 2
  BatchSize = 2
  MaxLines <- MCMaxLines
  Worlds <- MCWorlds
  Cwd <- MCCwd
  ExeDir <- MCExeDir
  q1 = q1
  q2 = q2
  SetConfigs <- MCSetConfigs
  SetHorizon = 3
  ServerLines <- MCServerLines
  BadValues = {"bad"}
  BindLines <- MCBindLines
  MaxBinds = 3
  BindPorts = {53, 853}
  BindDevices = {"eth0", "eth1"}
  Destinations <- MCDestinations
INVARIANTS
    NeverLongStale EditTakesEffect  RulesInOpenGroup EntryOutlivesAnswer
    DialAddressKept SocketsServedOnce
