---------------------------- MODULE DhcpDiscover ----------------------------
(***************************************************************************)
(* `server dhcp` and `server dhcp://<interface>`: finding a network's name *)
(* servers by DHCPv4 discoveries.                                          *)
(*                                                                         *)
(* Discoveries for several servers run at once.  Each attempt has a socket *)
(* of its own on the client port, which they share, and a transaction id   *)
(* of its own; replies come late, twice, on the wrong socket, or never.    *)
(* Time is counted in seconds.                                             *)
(***************************************************************************)
EXTENDS Integers, Sequences, FiniteSets, FiniteSetsExt, TLC, Absent

CONSTANTS
  DhcpSeekers,      \* servers that discover, [name |-> interface or Null]
  Tables,       \* routing tables: <<[iface, metric, gateway: BOOLEAN]>>
  Interfaces,   \* interfaces that exist
  Offers,       \* network -> [dns, names]: options 6 and 5 of its replies
  DHCP_TIMEOUT, \* TIMEOUT
  RETRIES,      \* retry_count
  MaxXid,       \* bound on transaction ids: every attempt's
  DhcpHorizon   \* bound on time

ASSUME DhcpAssumption ==
  DHCP_TIMEOUT \in Nat \ {0} /\ RETRIES \in Nat \ {0} /\ MaxXid \in Nat /\ DhcpHorizon \in Nat

VARIABLES
  table,        \* the routing table
  second,       \* the clock
  seeking,      \* [DhcpSeekers -> [pc, left, xid, until, since, found]]
  xids,         \* transaction ids used so far
  asked,        \* requests that reached a network's server: [xid, net]
  offers        \* replies on their way: [xid, net]

dhcpVars == <<table, second, seeking, xids, asked, offers>>

(***************************************************************************)
(* The default routes, lowest metric first, and the interface to use with  *)
(* the gateway of its best route that has one.                             *)
(***************************************************************************)
ByMetric(routes) == SortSeq(routes, LAMBDA a, b: a.metric < b.metric)
default_routes == ByMetric(table)

InterfaceOf(s) ==
  IF s.name # Null THEN IF s.name \in Interfaces THEN s.name ELSE Null
  ELSE IF table # <<>> THEN default_routes[1].iface ELSE Null
HasGateway(iface) ==
  \E i \in DOMAIN table: table[i].iface = iface /\ table[i].gateway

(***************************************************************************)
(* The network a discovery reaches: the gateway's, or by broadcast the one *)
(* the system routes it to, the default route's.                           *)
(***************************************************************************)
Reaches(iface) ==
  IF HasGateway(iface) THEN iface
  ELSE IF table # <<>> THEN default_routes[1].iface ELSE Null

Quiet == [pc |-> "idle", left |-> 0, xid |-> 0, until |-> 0, since |-> 0, found |-> Null]

(***************************************************************************)
(* discover_v4 and its attempts.                                           *)
(***************************************************************************)
Seek(s) ==
  /\ seeking[s].pc = "idle"
  /\ seeking' = [seeking EXCEPT ![s] =
       IF InterfaceOf(s) = Null THEN [Quiet EXCEPT !.pc = "failed"]
       ELSE [Quiet EXCEPT !.pc = "send", !.left = RETRIES, !.since = second]]
  /\ UNCHANGED <<table, second, xids, asked, offers>>

SendDiscover(s) ==
  /\ seeking[s].pc = "send"
  /\ xids < MaxXid
  /\ xids' = xids + 1
  /\ seeking' = [seeking EXCEPT ![s].pc = "wait", ![s].xid = xids + 1,
                          ![s].until = second + DHCP_TIMEOUT]
  /\ LET net == Reaches(InterfaceOf(s))
     IN asked' = IF net = Null THEN asked ELSE asked \union {[xid |-> xids + 1, net |-> net]}
  /\ UNCHANGED <<table, second, offers>>

(***************************************************************************)
(* DhcpV4Reply::parse and the loop of exchange(): a reply to another       *)
(* request is passed over, and the attempt goes on waiting.                *)
(***************************************************************************)
IsReplyAny(s, r) == TRUE
IsReplyTo(s, r) == r.xid = seeking[s].xid

nameservers(offer) == IF offer.dns # {} THEN offer.dns ELSE offer.names

UntilPassedOver(s) == seeking[s].until

ReceiveReply(s, r) ==
  /\ seeking[s].pc = "wait"
  /\ seeking' = [seeking EXCEPT ![s] =
       IF IsReplyTo(s, r)
       THEN [@ EXCEPT !.pc = "done", !.found = [net |-> r.net, servers |-> nameservers(Offers[r.net])]]
       ELSE [@ EXCEPT !.until = UntilPassedOver(s)]]
  /\ offers' = offers \ {r}
  /\ UNCHANGED <<table, second, xids, asked>>

(***************************************************************************)
(* The timeout, the pause of a second, the next attempt or the end.        *)
(***************************************************************************)
AttemptFails(s) ==
  /\ seeking[s].pc = "wait"
  /\ second >= seeking[s].until
  /\ seeking' = [seeking EXCEPT ![s] =
       IF @.left = 1 THEN [@ EXCEPT !.pc = "failed", !.left = 0]
       ELSE [@ EXCEPT !.pc = "pause", !.left = seeking[s].left - 1, !.until = second + 1]]
  /\ UNCHANGED <<table, second, xids, asked, offers>>

PauseEnds(s) ==
  /\ seeking[s].pc = "pause"
  /\ second >= seeking[s].until
  /\ seeking' = [seeking EXCEPT ![s].pc = "send"]
  /\ UNCHANGED <<table, second, xids, asked, offers>>

(***************************************************************************)
(* The networks' servers answer what reached them, at any time and more    *)
(* than once; a reply not taken is lost.                                   *)
(***************************************************************************)
ServerOffers(q) ==
  /\ offers' = offers \union {q}
  /\ UNCHANGED <<table, second, seeking, xids, asked>>
OfferLost(r) ==
  /\ offers' = offers \ {r}
  /\ UNCHANGED <<table, second, seeking, xids, asked>>

Overdue(s) == seeking[s].pc \in {"wait", "pause"} /\ second >= seeking[s].until
Prompt(s) == seeking[s].pc = "send" \/ Overdue(s)
SecondPasses ==
  /\ second < DhcpHorizon
  /\ \A s \in DhcpSeekers: ~Prompt(s)
  /\ second' = second + 1
  /\ UNCHANGED <<table, seeking, xids, asked, offers>>

DhcpInit ==
  /\ table \in Tables
  /\ second = 0
  /\ seeking = [s \in DhcpSeekers |-> Quiet]
  /\ xids = 0
  /\ asked = {}
  /\ offers = {}

DhcpNext ==
  \/ \E s \in DhcpSeekers:
       \/ Seek(s) \/ SendDiscover(s) \/ AttemptFails(s) \/ PauseEnds(s)
       \/ \E r \in offers: ReceiveReply(s, r)
  \/ \E q \in asked: ServerOffers(q)
  \/ \E r \in offers: OfferLost(r)
  \/ SecondPasses

DhcpSpec == DhcpInit /\ [][DhcpNext]_dhcpVars

-----------------------------------------------------------------------------
(***************************************************************************)
(* "Use nameservers from DHCP on interface en0": the servers found are the *)
(* ones of the interface's network, though replies to other discoveries    *)
(* and to earlier attempts arrive on the same port.                        *)
(***************************************************************************)
OwnNetworkOnly ==
  \A s \in DhcpSeekers: seeking[s].pc = "done" =>
    (HasGateway(InterfaceOf(s)) => seeking[s].found.net = InterfaceOf(s))

(***************************************************************************)
(* The same without regard to routes (dns_url.rs:28): a server named with  *)
(* an interface takes its name servers from that interface's network.  Not *)
(* so when the interface has no default route.                             *)
(***************************************************************************)
InterfaceHonoured ==
  \A s \in DhcpSeekers: seeking[s].pc = "done" /\ s.name # Null => seeking[s].found.net = s.name
=============================================================================
