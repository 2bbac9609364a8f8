----------------------------- MODULE ServerLine -----------------------------
(***************************************************************************)
(* `server` lines: the URL of an upstream server, then the options that    *)
(* change it one after another.                                            *)
(*                                                                         *)
(* A URL is the record of its parts as written: [word, scheme, host: [kind,*)
(* text], port, path, query, fragment], where word is "system" or "dhcp"   *)
(* for the two servers without an address, kind is "v4", "v6", "bare6" (a  *)
(* v6 address without brackets), "domain" or "none", and query and         *)
(* fragment map names to values.  Names and values are model data; the     *)
(* lowering of their case and their decoding are left out.                 *)
(***************************************************************************)
EXTENDS Integers, Sequences, FiniteSets, FiniteSetsExt, Absent

CONSTANTS
  ServerLines,   \* lines: [keyword, url, options: Seq([key, value])]
  BadValues      \* values no option can read

Keywords == {"server", "server-udp", "server-tcp", "server-tls", "server-https", "server-h3",
             "server-quic"}

ASSUME LineAssumption ==
  \A l \in ServerLines:
    /\ l.keyword \in Keywords
    /\ DOMAIN l.url = {"word", "scheme", "host", "port", "path", "query", "fragment"}
    /\ DOMAIN l.url.host = {"kind", "text"}
    /\ l.url.host.kind \in {"v4", "v6", "bare6", "domain", "none"}

VARIABLES
  line,          \* the line being read, or Null
  rest,          \* its options still to be applied
  server,        \* the NameServerInfo built so far, or Null
  stage          \* "between", "url", "options", "accepted" or "rejected"

lineVars == <<line, rest, server, stage>>

(***************************************************************************)
(* Params, and the accessors of DnsUrl.                                    *)
(***************************************************************************)
Params == [k \in {} |-> Null]
get_param(params, k) == IF k \in DOMAIN params THEN params[k] ELSE Null
set_param(params, k, v) ==
  [j \in DOMAIN params \cup {k} |-> IF j = k THEN v ELSE params[j]]
del_param(params, k) == [j \in DOMAIN params \ {k} |-> params[j]]

IsIp(host) == host.kind \in {"v4", "v6"}
HostDomain(text) == [kind |-> "domain", text |-> text]

ip(url) == IF IsIp(url.host) THEN url.host ELSE get_param(url.params, "ip")
has_ip(url) == url.proto.type \in {"system", "dhcp"} \/ ip(url) # Null
set_ip(url, addr) == [url EXCEPT !.params = set_param(@, "ip", addr)]
\* Mutant: the address gives way to the host name.
set_host_only(url, text) == [url EXCEPT !.host = HostDomain(text), !.name = text]
set_host(url, text) ==
  [(IF IsIp(url.host) THEN set_ip(url, url.host) ELSE url)
      EXCEPT !.host = HostDomain(text), !.name = text]
set_sni_off(url) == [url EXCEPT !.params = set_param(@, "sni", "false")]
set_ssl_verify(url, v) == [url EXCEPT !.params = set_param(@, "ssl_verify", v)]

sni_off(url) ==
  LET sni == get_param(url.params, "sni")
  IN  IF sni # Null THEN sni = "false" ELSE get_param(url.params, "enable_sni") = "false"
ssl_verify(url) == get_param(url.params, "ssl_verify") # "false"

default_port(type) ==
  CASE type \in {"udp", "tcp"} -> 53
    [] type \in {"tls", "quic"} -> 853
    [] type \in {"https", "h3"} -> 443
    [] OTHER -> 0
port(url) == IF url.port # Null THEN url.port ELSE default_port(url.proto.type)

\* What a connection takes from the URL.
Endpoint(url) ==
  [known |-> has_ip(url), at |-> ip(url), port |-> port(url), name |-> url.name,
   sni |-> ~sni_off(url), verified |-> ssl_verify(url)]

(***************************************************************************)
(* DnsUrl::from_str; Null is an error.                                     *)
(***************************************************************************)
UrlProtocols == {"udp", "tcp", "tls", "https", "quic", "h3"}
Plain(type) == [type |-> type, path |-> Null, prefer |-> Null, interface |-> Null]

WordServer(word, interface) ==
  [name |-> word, proto |-> [Plain(word) EXCEPT !.interface = interface],
   host |-> HostDomain(word), port |-> Null, params |-> Params]

\* The path "/" counts only when the URL ends with it.
PathOf(u) == IF u.path \in {"", "/ then more"} THEN "/dns-query" ELSE u.path

ProtoOf(u) ==
  CASE u.scheme = "https" ->
         [Plain("https") EXCEPT !.path = PathOf(u),
            !.prefer = IF "h2" \in DOMAIN u.fragment THEN "h2"
                       ELSE IF "h3" \in DOMAIN u.fragment THEN "h3" ELSE "auto"]
    [] u.scheme = "h3" -> [Plain("h3") EXCEPT !.path = PathOf(u)]
    [] OTHER -> Plain(u.scheme)

\* A host given by ?host= replaces the URL's, whose address is kept.
WithHostParam(u) ==
  LET named  == "host" \in DOMAIN u.query
      kept   == del_param(u.query, "host")
  IN  [name   |-> IF IsIp(u.host) /\ named THEN u.query["host"] ELSE u.host.text,
       proto  |-> ProtoOf(u),
       host   |-> IF named THEN HostDomain(u.query["host"]) ELSE u.host,
       port   |-> u.port,
       params |-> IF named /\ IsIp(u.host) THEN set_param(kept, "ip", u.host) ELSE kept]

from_str(u) ==
  IF u.word # Null THEN WordServer(u.word, Null)
  ELSE IF u.host.kind = "bare6" THEN Null
  ELSE IF u.scheme = "dhcp"
  THEN WordServer("dhcp", IF u.host.kind = "none" THEN Null ELSE u.host.text)
  ELSE IF u.scheme \notin UrlProtocols \/ u.host.kind = "none" THEN Null
  ELSE WithHostParam(u)

(***************************************************************************)
(* The URL of a line: the keyword gives the scheme of one without, and one *)
(* that is no URL is tried again inside brackets.                          *)
(***************************************************************************)
default_proto(keyword) ==
  CASE keyword \in {"server", "server-udp"} -> "udp"
    [] keyword = "server-tcp" -> "tcp"
    [] keyword = "server-tls" -> "tls"
    [] keyword = "server-https" -> "https"
    [] keyword = "server-h3" -> "h3"
    [] keyword = "server-quic" -> "quic"

Bracketed(u) ==
  IF u.host.kind = "bare6" /\ u.port = Null /\ u.path = "" /\ DOMAIN u.query = {}
       /\ DOMAIN u.fragment = {}
  THEN [u EXCEPT !.host.kind = "v6"] ELSE u

dns_url(keyword, u) ==
  LET full  == IF u.word = Null /\ u.scheme = Null
               THEN [u EXCEPT !.scheme = default_proto(keyword)] ELSE u
      first == from_str(full)
  IN  IF first # Null THEN first ELSE from_str(Bracketed(full))

\* From<DnsUrl> for NameServerInfo.
NameServerOf(url) ==
  [server |-> url, group |-> <<>>, flags |-> {}, spki_pin |-> Null, so_mark |-> Null,
   proxy |-> Null, interface |-> Null, subnet |-> Null]

(***************************************************************************)
(* options::parse: a value cannot start with "-", and an option written    *)
(* with one is the last that is read, without its value.                   *)
(***************************************************************************)
OptionsRead(options) ==
  LET dashes == {i \in DOMAIN options: options[i].value = "-"}
  IN  IF dashes = {} THEN options
      ELSE [i \in 1..Min(dashes) |->
              IF i = Min(dashes) THEN [options[i] EXCEPT !.value = Null] ELSE options[i]]

Readable(value) == IF value \in BadValues THEN Null ELSE value

Flags == {"exclude-default-group", "blacklist-ip", "whitelist-ip", "check-edns",
          "bootstrap-dns"}

\* tls-host-verify applies to a server given by its address.
TlsHostVerify(url, name) == IF IsIp(url.host) THEN set_host(url, name) ELSE url

Apply(ns, o) ==
  CASE o.key \in Flags -> [ns EXCEPT !.flags = @ \cup {o.key}]
    [] o.key = "spki-pin" -> [ns EXCEPT !.spki_pin = o.value]
    [] o.key = "set-mark" -> IF o.value = Null THEN ns ELSE [ns EXCEPT !.so_mark = Readable(o.value)]
    [] o.key = "group" -> IF o.value = Null THEN ns ELSE [ns EXCEPT !.group = Append(@, o.value)]
    [] o.key = "proxy" -> [ns EXCEPT !.proxy = o.value]
    [] o.key = "interface" -> [ns EXCEPT !.interface = o.value]
    [] o.key = "subnet" -> IF o.value = Null THEN ns ELSE [ns EXCEPT !.subnet = Readable(o.value)]
    [] o.key = "host-name" ->
         CASE o.value = Null -> ns
           [] o.value = "-" -> [ns EXCEPT !.server = set_sni_off(@)]
           [] OTHER -> [ns EXCEPT !.server = set_host(@, o.value)]
    [] o.key = "no-check-certificate" -> [ns EXCEPT !.server = set_ssl_verify(@, "false")]
    [] o.key = "tls-host-verify" ->
         IF o.value = Null THEN ns ELSE [ns EXCEPT !.server = TlsHostVerify(@, o.value)]
    [] OTHER -> ns

Fails(o) == o.key = "spki-pin" /\ (o.value = Null \/ o.value \in BadValues)

(***************************************************************************)
(* Reading a line, and the next one.                                       *)
(***************************************************************************)
ReadUrl ==
  /\ stage = "url"
  /\ LET url == dns_url(line.keyword, line.url)
     IN  IF url = Null
         THEN stage' = "rejected" /\ UNCHANGED <<server, rest>>
         ELSE /\ stage' = "options"
              /\ server' = NameServerOf(url)
              /\ rest' = OptionsRead(line.options)
  /\ UNCHANGED line

ReadOption ==
  /\ stage = "options"
  /\ rest # <<>>
  /\ IF Fails(Head(rest))
     THEN stage' = "rejected" /\ UNCHANGED <<server, rest>>
     ELSE /\ server' = Apply(server, Head(rest))
          /\ rest' = Tail(rest)
          /\ UNCHANGED stage
  /\ UNCHANGED line

EndLine ==
  /\ stage = "options"
  /\ rest = <<>>
  /\ stage' = "accepted"
  /\ UNCHANGED <<line, rest, server>>

BeginLine ==
  /\ stage = "between"
  /\ line' \in ServerLines
  /\ stage' = "url"
  /\ UNCHANGED <<rest, server>>

LeaveLine ==
  /\ stage \in {"accepted", "rejected"}
  /\ stage' = "between" /\ line' = Null /\ rest' = <<>> /\ server' = Null

LineInit == line = Null /\ rest = <<>> /\ server = Null /\ stage = "between"
LineNext == BeginLine \/ ReadUrl \/ ReadOption \/ EndLine \/ LeaveLine
LineSpec == LineInit /\ [][LineNext]_lineVars

(***************************************************************************)
(* Properties.                                                             *)
(***************************************************************************)
\* A server given by its address is dialled at that address and at its own
\* or its protocol's port, whatever names its URL and options give it: every
\* change of the host keeps the address the host had (dns_url.rs:104-112,
\* 221-228).
DialAddressKept ==
  stage = "accepted" =>
    LET given == line.url.host
        found == Endpoint(server.server)
        type  == IF line.url.scheme = Null THEN default_proto(line.keyword) ELSE line.url.scheme
    IN  line.url.word = Null /\ line.url.scheme # "dhcp"
        => /\ found.port = IF line.url.port = Null THEN default_port(type) ELSE line.url.port
           /\ found.known <=> found.at # Null
           /\ found.at = CASE given.kind = "v4" -> given
                           [] given.kind \in {"v6", "bare6"} -> [given EXCEPT !.kind = "v6"]
                           [] OTHER -> get_param(line.url.query, "ip")

\* The name the certificate must carry is the one tls-host-verify gives.
\* Not so when host-name is given too.
VerifyHostHonoured ==
  stage = "accepted"
    => \A i \in DOMAIN line.options:
         LET o == line.options[i]
         IN  (o.key = "tls-host-verify" /\ IsIp(line.url.host)) => server.server.name = o.value
=============================================================================
