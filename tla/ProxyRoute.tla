----------------------------- MODULE ProxyRoute -----------------------------
(***************************************************************************)
(* The path of a connection to an upstream server: straight, or through    *)
(* the proxy that the server's line names.                                 *)
(*                                                                         *)
(* A proxy line is [name, scheme, host, user]; a server line is [proto,    *)
(* proxy].  A dial is one connection being made: an https server has two   *)
(* unless it prefers HTTP/2, which race.                                   *)
(***************************************************************************)
EXTENDS Integers, Sequences, FiniteSets, Absent

CONSTANTS
  ProxyLines,    \* proxy-server lines that a configuration can hold
  ServerProtos,  \* protocols of the servers' lines
  ProxyNames,    \* names that a server's -proxy can give
  MaxProxies     \* bound on the proxy-server lines read

ASSUME ProxyAssumption == MaxProxies \in Nat

VARIABLES
  proxies,       \* name -> the proxy declared last with it
  linesRead,     \* proxy-server lines read so far
  asks,          \* the server being connected, or Null
  dials          \* protocol -> the connection being made with it

proxyVars == <<proxies, linesRead, asks, dials>>

(***************************************************************************)
(* The proxy-server lines.                                                 *)
(***************************************************************************)
ProxyScheme == {"socks5", "http"}
ProxyConfig(l) ==
  [proto |-> l.scheme, server |-> l.host, username |-> IF l.user = "" THEN Null ELSE l.user]
ASSUME ProxyNullAssumption ==
  /\ \A l \in ProxyLines: ProxyConfig(l) # Null
  /\ Null \notin [proto: ServerProtos, proxy: ProxyNames \cup {Null}]
ProxyLineParses(l) == l.name # Null /\ l.scheme \in ProxyScheme /\ l.host # Null

ReadProxyLine(l) ==
  /\ asks = Null
  /\ linesRead < MaxProxies
  /\ linesRead' = linesRead + 1
  /\ proxies' = IF ProxyLineParses(l)
                THEN [n \in DOMAIN proxies \cup {l.name} |->
                        IF n = l.name THEN ProxyConfig(l) ELSE proxies[n]]
                ELSE proxies
  /\ UNCHANGED <<asks, dials>>

\* The proxy of a server: none when the name is not declared.
ProxyOf(server) == IF server.proxy \in DOMAIN proxies THEN proxies[server.proxy] ELSE Null

(***************************************************************************)
(* The sockets of new_connection.                                          *)
(***************************************************************************)
\* Protocols tried for a server: HTTP/3 beside HTTP/2, unless that is asked for.
DialsOf(proto) ==
  CASE proto = "https" -> {"h2", "h3"}
    [] proto = "https#h2" -> {"h2"}
    [] OTHER -> {proto}

NoDial == [pc |-> "none", hop |-> Null, via |-> Null]
Hop(proxy) == IF proxy = Null THEN "server" ELSE proxy.server

\* QUIC sockets are bound by TokioQuicSocketBinder, which has no proxy.
new_socket(proto, proxy) ==
  CASE proto \in {"quic", "h3"} -> [pc |-> "handshake", hop |-> "server", via |-> Null]
    [] proto = "udp" /\ proxy = Null -> [pc |-> "open", hop |-> "server", via |-> Null]
    [] proto = "udp" /\ proxy # Null /\ proxy.proto = "http" -> [NoDial EXCEPT !.pc = "panic"]
    [] OTHER -> [pc |-> "connect", hop |-> Hop(proxy), via |-> proxy]

BeginDial(server) ==
  /\ asks = Null
  /\ asks' = server
  /\ dials' = [p \in DialsOf(server.proto) |-> new_socket(p, ProxyOf(server))]
  /\ UNCHANGED <<proxies, linesRead>>

\* Plain TCP and UDP are usable at once; TLS and its kin begin a handshake.
Linked(p) == IF p \in {"udp", "tcp"} THEN "open" ELSE "handshake"

\* connect_tcp and connect_udp: the hop accepts the connection, then the
\* proxy, if it is one, is asked for the server's address.
HopAccepts(p) ==
  /\ dials[p].pc = "connect"
  /\ dials' = [dials EXCEPT ![p].pc = IF dials[p].via = Null THEN Linked(p) ELSE "asking"]
  /\ UNCHANGED <<proxies, linesRead, asks>>

ProxyAccepts(p) ==
  /\ dials[p].pc = "asking"
  /\ dials' = [dials EXCEPT ![p].pc = Linked(p)]
  /\ UNCHANGED <<proxies, linesRead, asks>>

\* A hop or a proxy that refuses, errs or is too late fails the connection.
\* Mutant: the server is tried without the proxy.
RefusedGoesStraight(p, d) ==
  IF d.pc = "asking" THEN [pc |-> "connect", hop |-> "server", via |-> Null]
  ELSE [d EXCEPT !.pc = "failed"]
Refused(p, d) == [d EXCEPT !.pc = "failed"]

HopRefuses(p) ==
  /\ dials[p].pc \in {"connect", "asking", "handshake"}
  /\ dials' = [dials EXCEPT ![p] = Refused(p, @)]
  /\ UNCHANGED <<proxies, linesRead, asks>>

ServerAccepts(p) ==
  /\ dials[p].pc = "handshake"
  /\ \A q \in DOMAIN dials: dials[q].pc # "open"
  /\ dials' = [dials EXCEPT ![p].pc = "open"]
  /\ UNCHANGED <<proxies, linesRead, asks>>

\* The connection is used until it ends, or there is none to use.
EndDial ==
  /\ asks # Null
  /\ \/ \E p \in DOMAIN dials: dials[p].pc = "open"
     \/ \A p \in DOMAIN dials: dials[p].pc \in {"failed", "panic"}
  /\ asks' = Null
  /\ dials' = <<>>
  /\ UNCHANGED <<proxies, linesRead>>

\* A reload reads the configuration anew.
ReadProxiesAgain ==
  /\ asks = Null /\ linesRead > 0
  /\ linesRead' = 0 /\ proxies' = <<>>
  /\ UNCHANGED <<asks, dials>>

ProxyInit == proxies = <<>> /\ linesRead = 0 /\ asks = Null /\ dials = <<>>

ProxyNext ==
  \/ \E l \in ProxyLines: ReadProxyLine(l)
  \/ \E proto \in ServerProtos, name \in ProxyNames \cup {Null}:
       BeginDial([proto |-> proto, proxy |-> name])
  \/ \E p \in DOMAIN dials:
       HopAccepts(p) \/ ProxyAccepts(p) \/ HopRefuses(p) \/ ServerAccepts(p)
  \/ EndDial
  \/ ReadProxiesAgain

ProxySpec == ProxyInit /\ [][ProxyNext]_proxyVars

(***************************************************************************)
(* Properties.                                                             *)
(***************************************************************************)
\* The connections over TCP and UDP of a server whose proxy is declared are
\* made through the last proxy declared by that name, whatever it answers:
\* no error leads to a straight one (proxy.rs:16-109, dns_client.rs:134-139).
SocketsProxied ==
  (asks # Null /\ asks.proxy \in DOMAIN proxies) =>
    \A p \in DOMAIN dials \ {"quic", "h3"}:
      dials[p].pc \in {"connect", "asking", "handshake", "open"} =>
        dials[p].via = proxies[asks.proxy] /\ dials[p].hop = proxies[asks.proxy].server

\* "use proxy to connect to server" (config/nameserver.rs:87): a server whose
\* proxy is declared is connected through it.  Not so: an https server is
\* also tried with HTTP/3, whose sockets ignore the proxy.
ProxyHonoured ==
  (asks # Null /\ asks.proxy \in DOMAIN proxies) =>
    \A p \in DOMAIN dials: dials[p].pc = "open" => dials[p].via = proxies[asks.proxy]
=============================================================================
