SPECIFICATION ServiceSpec
CONSTANTS
  Null = Null
  UpSetups <- MCUpSetups
  Dialers <- MCDialers
  Upstreams <- MCUpstreams
  PauseTicks = 2
  MaxTicks = 1
  UdpSlots = {e1, e2}
  UdpQuestions = {"x", "y"}
  QueryIds = {1, 2}
  MaxIdle = 1
  MaxQueries = 3
  MaxFlying = 1
  Hosts = {"a", "b"}
  Checks <- MCChecks
  ProbeTimeout = 2
  ModeWindow = 5
  Reloaders = {"r1", "r2"}
  ConfFiles <- MCConfFiles
  ServerIds = {1, 2, 3}
  MaxReloads = 2
  Conns = {"c"}
  ConnKinds = {"udp", "tcp", "tls", "quic", "http", "https", "h3"}
  MaxSent = 4
  MaxRequests = 3
  Generations = 2
  LookupTasks = {l1, l2}
  Viewers = {v1, v2}
  MaxCount = 2
  ProxyLines <- MCProxyLines
  ServerProtos = {"udp", "tcp", "tls", "https", "https#h2", "quic"}
  ProxyNames = {"a", "b", "c"}
  MaxProxies = 2
  Versions = {1, 2}
  Previews = {}
  Length <- MCLength
  Managers = {"systemd", "launchctl"}
  Releases <- MCReleases
  Instances = {i1, i2}
  Pids = {101, 102, 103}
  Setups <- MCSetups
  CertSetups <- MCCertSetups
  Validity = 1
  CertHorizon = 2
  MaxKeys = 5
  Peers <- MCPeers
  DhcpSeekers <- MCSeekers
  Tables <- MCTables
  Interfaces = {"eth0", "eth1"}
  Offers <- MCOffers
  DHCP_TIMEOUT = 1
  RETRIES = 2
  MaxXid = 4
  DhcpHorizon = 5
INVARIANTS
    InstalledAsBuilt OneGuarded ReusedPairMatches OwnNetworkOnly NoQueryLoop
     GivenUpStaysUnanswered FastestWins NoServerLeaked ReloadAgrees
    FinishedMeansAnswered SocketsProxied

    
