------------------------------ MODULE BindLine ------------------------------
(***************************************************************************)
(* `bind` lines: the listeners they describe, the removal of duplicates    *)
(* when the configuration is built, and the sockets that are left.         *)
(*                                                                         *)
(* A line is [keyword, addr, port, device, options]: addr is "none",       *)
(* "localhost", "*" or an address, [family, text]; options are [key,       *)
(* value], as the reader of options delivers them.                         *)
(***************************************************************************)
EXTENDS Integers, Sequences, FiniteSets, Functions, FiniteSetsExt, Absent

CONSTANTS
  BindLines,    \* the lines a configuration can hold
  MaxBinds,     \* bound on the lines of a configuration
  BindPorts,    \* the ports of lines and packets
  BindDevices,  \* the network devices packets come in through
  Destinations  \* the addresses packets are sent to

VARIABLES
  written,     \* the bind lines read so far
  bound,       \* the listeners made of them: [from: index, proto, addr, ...]
  built        \* "reading" or "built"

bindVars == <<written, bound, built>>

(***************************************************************************)
(* The parts of a line.                                                    *)
(***************************************************************************)
BindProtocol(keyword) ==
  CASE keyword \in {"bind", "bind-udp"} -> "udp"
    [] keyword = "bind-tcp" -> "tcp"
    [] keyword = "bind-tls" -> "tls"
    [] keyword = "bind-http" -> "http"
    [] keyword = "bind-https" -> "https"
    [] keyword = "bind-h3" -> "h3"
    [] keyword = "bind-quic" -> "quic"

AddrV4(text) == [family |-> 4, text |-> text]
AddrV6(text) == [family |-> 6, text |-> text]
Localhost == [family |-> 0, text |-> "localhost"]
AllAddrs == [family |-> 0, text |-> "*"]

\* Packets are sent to every address a line can name, to the loopback address
\* and to others of both families.
ASSUME BindAssumption ==
  /\ MaxBinds \in Nat /\ BindDevices # {}
  /\ Null \notin Destinations \cup {Localhost, AllAddrs, AddrV4("0.0.0.0"), AddrV6("::")}
  /\ \A to \in Destinations: to.family \in {4, 6} /\ to \notin {AddrV4("0.0.0.0"), AddrV6("::")}
  /\ AddrV4("127.0.0.1") \in Destinations
  /\ \E to \in Destinations: to.family = 4 /\ to # AddrV4("127.0.0.1")
  /\ \E to \in Destinations: to.family = 6
  /\ \A l \in BindLines:
       /\ l.port \in BindPorts \cup {Null}
       /\ l.addr \in Destinations
                    \cup {Null, Localhost, AllAddrs, AddrV4("0.0.0.0"), AddrV6("::")}

parse_bind_addr(addr) == IF addr = Null THEN AddrV4("0.0.0.0") ELSE addr

\* A set of rules that does not parse rejects the line.
SetKeys == {"ipset", "nftset"}
FlagKeys == {"ddr", "no-rule-addr", "no-rule-nameserver", "no-rule-ipset", "no-speed-check",
             "no-cache", "no-rule-soa", "no-serve-expired", "no-dualstack-selection",
             "force-aaaa-soa", "force-https-soa"}
SslKeys == {"server-name", "ssl-certificate-key", "ssl-certificate", "ssl-certificate-key-pass"}

\* The value of the last option of each name.
LastGiven(options, keys) ==
  [k \in {o.key : o \in Range(options)} \cap keys |->
     options[Max({i \in DOMAIN options: options[i].key = k})].value]

RejectsOptions(options) ==
  \E i \in DOMAIN options: options[i].key \in SetKeys /\ options[i].value \in {Null, "bad"}
parse_server_opts(options) == LastGiven(options, {"group"} \cup SetKeys \cup FlagKeys)
parse_ssl_config(proto, options) ==
  IF proto \in {"tcp", "udp", "http"} THEN LastGiven(<<>>, {}) ELSE LastGiven(options, SslKeys)

Parses(l) == l.port # Null /\ ~RejectsOptions(l.options)

\* The record every protocol's structure shares.
BindConfig(l, from) ==
  LET proto == BindProtocol(l.keyword)
  IN  [from |-> from, proto |-> proto, addr |-> parse_bind_addr(l.addr), port |-> l.port,
       device |-> l.device, opts |-> parse_server_opts(l.options),
       ssl_config |-> parse_ssl_config(proto, l.options)]

UdpDefault ==
  [from |-> 0, proto |-> "udp", addr |-> AddrV6("::"), port |-> 53, device |-> Null,
   opts |-> LastGiven(<<>>, {}), ssl_config |-> LastGiven(<<>>, {})]

(***************************************************************************)
(* The socket of a listener, and the duplicates of a set, last ones kept.  *)
(***************************************************************************)
\* Mutant: the address as it is written.
sock_addr_raw(b) == <<b.addr, b.port>>
sock_addr(b) ==
  CASE b.addr = Localhost -> <<AddrV4("127.0.0.1"), b.port>>
    [] b.addr = AllAddrs -> <<AddrV4("0.0.0.0"), b.port>>
    [] OTHER -> <<b.addr, b.port>>

IsDatagram(b) == b.proto \in {"udp", "quic", "h3"}
SameSocket(a, b) == sock_addr(a) = sock_addr(b) /\ (IsDatagram(a) <=> IsDatagram(b))

RemoveDuplicates(binds) ==
  {b \in binds: ~\E c \in binds: c.from > b.from /\ SameSocket(b, c)}

ReadBind ==
  /\ built = "reading"
  /\ Len(written) < MaxBinds
  /\ \E l \in BindLines:
       /\ written' = Append(written, l)
       /\ bound' = IF Parses(l) THEN bound \cup {BindConfig(l, Len(written) + 1)} ELSE bound
  /\ UNCHANGED built

BuildListeners ==
  /\ built = "reading"
  /\ built' = "built"
  /\ bound' = RemoveDuplicates(IF bound = {} THEN {UdpDefault} ELSE bound)
  /\ UNCHANGED written

\* A reload reads the lines again.
ReadAgain ==
  /\ built = "built"
  /\ built' = "reading" /\ written' = <<>> /\ bound' = {}

BindInit == written = <<>> /\ bound = {} /\ built = "reading"
BindNext == ReadBind \/ BuildListeners \/ ReadAgain
BindSpec == BindInit /\ [][BindNext]_bindVars

(***************************************************************************)
(* What the system delivers to a socket: packets to its address, or to any *)
(* of its family for the unspecified one ([::] takes both), that came in   *)
(* through its device.                                                     *)
(***************************************************************************)
Delivers(datagram, addr, prt, device, packet) ==
  /\ packet.datagram = datagram /\ packet.port = prt
  /\ device # Null => packet.device = device
  /\ \/ addr = packet.to \/ addr = AddrV6("::")
     \/ addr \in {AddrV4("0.0.0.0"), AllAddrs, Null} /\ packet.to.family = 4
     \/ addr = Localhost /\ packet.to = AddrV4("127.0.0.1")

TakesPacket(b, packet) ==
  Delivers(IsDatagram(b), sock_addr(b)[1], sock_addr(b)[2], b.device, packet)

Packets == [datagram : BOOLEAN, port : BindPorts, device : BindDevices, to : Destinations]

AskedBy(l) == {p \in Packets:
               Delivers(BindProtocol(l.keyword) \in {"udp", "quic", "h3"},
                        l.addr, l.port, l.device, p)}
AcceptedLines == {i \in DOMAIN written: Parses(written[i])}

(***************************************************************************)
(* Properties.                                                             *)
(***************************************************************************)
\* However their addresses are written, lines without devices that ask for
\* the same packets leave one listener, the last, whose options decide, and
\* what any accepted line asks for is still served (dns_conf.rs:893-917).
SocketsServedOnce ==
  (built = "built" /\ \A i \in AcceptedLines: written[i].device = Null) =>
    LET kept == {b.from : b \in bound}
    IN  /\ \A i, j \in kept \ {0}: AskedBy(written[i]) = AskedBy(written[j]) => i = j
        /\ \A i \in AcceptedLines:
             \E k \in kept: k >= i /\ AskedBy(written[k]) = AskedBy(written[i])
        /\ AcceptedLines = {} => kept = {0}

\* "On Linux, @device restricts the interface without replacing the bind
\* address", and lines may bind several: what each asks for is served.
\* Not so: a line for another device of the same address is a duplicate.
DevicesServed ==
  built = "built" =>
    \A i \in AcceptedLines: \A p \in AskedBy(written[i]):
      \E b \in bound: TakesPacket(b, p)
=============================================================================
