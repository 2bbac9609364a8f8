---------------------------- MODULE MCServiceSide ---------------------------
(***************************************************************************)
(* The process and what it runs beside the handling of one query, one      *)
(* component per behaviour: the installed service ("install"), the start of*)
(* a process ("startup"), its life until it stops ("life"), certificates   *)
(* ("certs"), the listeners ("listen"), the client of the upstreams        *)
(* ("upstream"), their connections ("dial"), exchanges over UDP ("udp"),   *)
(* proxies ("proxy"), the DHCP client ("dhcp"), speed probes ("ping") and  *)
(* the statistics of the servers ("stats").                                *)
(***************************************************************************)
EXTENDS ServiceInstall, Startup, Lifecycle, Certificates, Listener,
        UpstreamClient, Connections, UdpExchange, ProxyRoute, DhcpDiscover,
        SpeedCheck, Statistics

-----------------------------------------------------------------------------
(* Two releases, the newer with the shorter unit, on a platform with and   *)
(* one without commands to enable and restart.                             *)
MCLength == [v \in {1, 2} |-> [conf |-> 1, unit |-> 3 - v]]
Release(v, flavor, asset) ==
  [version |-> v, flavor |-> flavor, asset |-> asset, preview |-> v \in Previews]
MCReleases ==
  { {Release(1, "headless", TRUE), Release(2, "headless", FALSE), Release(2, "webui", TRUE)} }

-----------------------------------------------------------------------------
(* Two processes started with every kind of user setting, as root and not. *)
MCSetups ==
  [user: {"none", "known", "unknown"}, root: {TRUE}, open: BOOLEAN]
    \union {[user |-> "known", root |-> FALSE, open |-> TRUE]}

-----------------------------------------------------------------------------
(* Two callers that reload, and files that can be served, that fail for a  *)
(* certificate or an address, that turn the web UI off, and that do not parse.*)
File(valid, webui, binds, noCert, noAddr) ==
    [valid |-> valid, webui |-> webui, binds |-> binds, noCert |-> noCert, noAddr |-> noAddr]

MCConfFiles == {File(TRUE, "on", {"tls", "http"}, {}, {}), File(TRUE, "on", {"tls"}, {"tls"}, {}),
                File(TRUE, "on", {"http", "tcp"}, {}, {"tcp"}), File(TRUE, "off", {"udp"}, {}, {}),
                File(FALSE, "on", {}, {}, {})}

-----------------------------------------------------------------------------
(* Two listeners that share the generated pair, and two with their own;    *)
(* upstream servers under every combination of pin and validation.         *)
PairOf(c, k) == [cert |-> c, key |-> k]
CertsOf(generate, own, pairs) ==
  [generate |-> generate, own |-> own, listeners |-> pairs]
MCCertSetups ==
  { CertsOf("auto", FALSE, <<PairOf("c1", "k1"), PairOf("c1", "k1")>>),
    CertsOf("auto", TRUE, <<PairOf("c1", "k1")>>),
    CertsOf("yes", TRUE, <<PairOf("c1", "k1"), PairOf("c2", "k2")>>) }
MCPeers ==
  [pin: {Null, "s1"}, spki: {"s1", "s2"}, verify: BOOLEAN, issuer: {"system", "ca1"},
   nameMatches: {TRUE}, caFile: {Null, "ca1"}, caPath: {Null}]

-----------------------------------------------------------------------------
(* Every set of at most three of seven servers, with four sets of listening*)
(* addresses and five contents of the system resolver file.                *)
Addr(v, kind) == [v |-> v, kind |-> kind]
Url(ip, port, via) == [ip |-> ip, port |-> port, via |-> via]

Info(ip, port, via, proxy, bootstrap, groups, excluded, good) ==
    [ip |-> ip, port |-> port, via |-> via, proxy |-> proxy, bootstrap |-> bootstrap,
     groups |-> groups, excluded |-> excluded, good |-> good]

\* Servers by address and by name, behind a proxy, in a group, with a pin that
\* fails, and the server itself.
Remote == Info(Addr(4, "public"), 53, "Plain", FALSE, FALSE, {}, FALSE, TRUE)
Named == Info(Null, 443, "Https", FALSE, TRUE, {"office"}, TRUE, TRUE)
Marked == Info(Addr(6, "public"), 853, "Tls", FALSE, TRUE, {"office"}, FALSE, TRUE)
Proxied == Info(Addr(4, "far"), 443, "Https", TRUE, FALSE, {"office"}, FALSE, TRUE)
BadPin == Info(Addr(4, "public"), 853, "Tls", FALSE, FALSE, {"pinned"}, FALSE, FALSE)
Itself == Info(Addr(4, "loopback"), 53, "Plain", FALSE, FALSE, {}, FALSE, TRUE)
Lan == Info(Addr(4, "lan"), 53, "Plain", FALSE, TRUE, {}, FALSE, TRUE)
Infos == {Remote, Named, Marked, Proxied, BadPin, Itself, Lan}

Listens(v, kind) == {Url(Addr(v, kind), 53, "Plain")}
Resolv(kind) == {[ip |-> Addr(4, kind), port |-> 53, via |-> "Plain", good |-> TRUE]}

MCUpSetups ==
    {[servers |-> infos, listeners |-> listens, local |-> {Addr(4, "lan")},
      system |-> system] :
       infos \in {s \in SUBSET Infos : Cardinality(s) <= 3},
       listens \in {{}, Listens(4, "any"), Listens(6, "any"), Listens(4, "loopback")},
       system \in {Null, {}, Resolv("loopback"), Resolv("isp"), Resolv("lan") \cup Resolv("isp")}}

-----------------------------------------------------------------------------
(* Two upstreams dialled at once: by address, by a name the system resolves,*)
(* and by a name the bootstrap servers resolve.                            *)
Kind(how, h3, prefer, finds) == [how |-> how, h3 |-> h3, prefer |-> prefer, finds |-> finds]

One(kind) == <<kind, Kind("system", FALSE, FALSE, {{}})>>

MCDialers == 1..2

MCUpstreams == {<<Kind("ip", TRUE, TRUE, {{"a"}}), Kind("ip", FALSE, FALSE, {{"a"}})>>,
                One(Kind("system", TRUE, FALSE, {{}, {"a"}})),
                One(Kind("system", FALSE, FALSE, {{}, {"a", "b"}})),
                <<Kind("host", FALSE, FALSE, {{}, {"a", "b"}}), Kind("host", FALSE, FALSE, {{}, {"a"}})>>}

-----------------------------------------------------------------------------
(* Two names declared by up to two of five lines, and servers of every     *)
(* protocol that name one of them, an undeclared one or none.              *)
ProxyAs(n, s, h, u) == [name |-> n, scheme |-> s, host |-> h, user |-> u]
MCProxyLines ==
  {ProxyAs("a", "socks5", "h1", ""), ProxyAs("a", "http", "h2", "u"),
   ProxyAs("b", "socks5", "h2", "u"), ProxyAs("b", "https", "h1", ""),
   ProxyAs(Null, "http", "h1", "")}

-----------------------------------------------------------------------------
(* Two networks; one discovery by default route and one by name at once.   *)
RouteOf(i, m, g) == [iface |-> i, metric |-> m, gateway |-> g]
MCTables == { <<RouteOf("eth1", 2, TRUE), RouteOf("eth0", 1, TRUE)>>,
              <<RouteOf("eth0", 1, FALSE)>> }
MCSeekers == {[name |-> Null], [name |-> "eth1"]}
MCOffers == [n \in {"eth0", "eth1"} |->
               [dns |-> IF n = "eth0" THEN {"d0"} ELSE {}, names |-> {"n1"}]]

-----------------------------------------------------------------------------
(* Two addresses under checks of one to three modes.                       *)
Ask(modes, times, all, agg) == [modes |-> modes, times |-> times, allSuccess |-> all, agg |-> agg]

MCChecks == {Ask(<<"ping", "tcp">>, 1, FALSE, "Mean"), Ask(<<"none", "tcp-syn", "https">>, 1, FALSE, "Mean"),
             Ask(<<"tcp">>, 3, TRUE, "Max"), Ask(<<"http">>, 3, FALSE, "Mean"), Ask(<<"ping">>, 2, FALSE, "Min")}

-----------------------------------------------------------------------------
(* The sum of the parts.                                                   *)
VARIABLE part

serviceVars == <<part, installVars, startVars, lifeVars, certVars, listenVars, upVars,
                 connVars, udpVars, proxyVars, dhcpVars, pingVars, statVars>>

AnyOf(S) == CHOOSE x \in S: TRUE
IdleDials(u) == [d \in Dialers |-> [kind |-> u[d], step |-> "idle", won |-> Null]]

ServiceInit ==
  /\ part \in {"install", "startup", "life", "certs", "listen", "upstream", "dial",
               "udp", "proxy", "dhcp", "ping", "stats"}
  /\ part # "install" => manager = AnyOf(Managers)
  /\ part # "startup" => setup = AnyOf(Setups)
  /\ part # "certs" => certSetup = AnyOf(CertSetups)
  /\ part # "upstream" => upSetup = AnyOf(UpSetups)
  /\ part # "dial" => dial = IdleDials(AnyOf(Upstreams))
  /\ part # "dhcp" => table = AnyOf(Tables)
  /\ part # "ping" => check = AnyOf(Checks)
  /\ InstallInit /\ StartInit /\ LifeInit /\ CertInit /\ ListenInit /\ UpInit
  /\ ConnInit /\ UdpInit /\ ProxyInit /\ DhcpInit /\ PingInit /\ StatInit

ServiceNext ==
  /\ UNCHANGED part
  /\ \/ /\ part = "install" /\ InstallNext
        /\ UNCHANGED <<startVars, lifeVars, certVars, listenVars, upVars, connVars,
                       udpVars, proxyVars, dhcpVars, pingVars, statVars>>
     \/ /\ part = "startup" /\ StartNext
        /\ UNCHANGED <<installVars, lifeVars, certVars, listenVars, upVars, connVars,
                       udpVars, proxyVars, dhcpVars, pingVars, statVars>>
     \/ /\ part = "life" /\ LifeNext
        /\ UNCHANGED <<installVars, startVars, certVars, listenVars, upVars, connVars,
                       udpVars, proxyVars, dhcpVars, pingVars, statVars>>
     \/ /\ part = "certs" /\ CertNext
        /\ UNCHANGED <<installVars, startVars, lifeVars, listenVars, upVars, connVars,
                       udpVars, proxyVars, dhcpVars, pingVars, statVars>>
     \/ /\ part = "listen" /\ ListenNext
        /\ UNCHANGED <<installVars, startVars, lifeVars, certVars, upVars, connVars,
                       udpVars, proxyVars, dhcpVars, pingVars, statVars>>
     \/ /\ part = "upstream" /\ UpNext
        /\ UNCHANGED <<installVars, startVars, lifeVars, certVars, listenVars, connVars,
                       udpVars, proxyVars, dhcpVars, pingVars, statVars>>
     \/ /\ part = "dial" /\ ConnNext
        /\ UNCHANGED <<installVars, startVars, lifeVars, certVars, listenVars, upVars,
                       udpVars, proxyVars, dhcpVars, pingVars, statVars>>
     \/ /\ part = "udp" /\ UdpNext
        /\ UNCHANGED <<installVars, startVars, lifeVars, certVars, listenVars, upVars,
                       connVars, proxyVars, dhcpVars, pingVars, statVars>>
     \/ /\ part = "proxy" /\ ProxyNext
        /\ UNCHANGED <<installVars, startVars, lifeVars, certVars, listenVars, upVars,
                       connVars, udpVars, dhcpVars, pingVars, statVars>>
     \/ /\ part = "dhcp" /\ DhcpNext
        /\ UNCHANGED <<installVars, startVars, lifeVars, certVars, listenVars, upVars,
                       connVars, udpVars, proxyVars, pingVars, statVars>>
     \/ /\ part = "ping" /\ PingNext
        /\ UNCHANGED <<installVars, startVars, lifeVars, certVars, listenVars, upVars,
                       connVars, udpVars, proxyVars, dhcpVars, statVars>>
     \/ /\ part = "stats" /\ StatNext
        /\ UNCHANGED <<installVars, startVars, lifeVars, certVars, listenVars, upVars,
                       connVars, udpVars, proxyVars, dhcpVars, pingVars>>

ServiceSpec == ServiceInit /\ [][ServiceNext]_serviceVars

\* The proxies alone.
ProxiesAlone == (ServiceInit /\ part = "proxy") /\ [][ServiceNext]_serviceVars
=============================================================================
