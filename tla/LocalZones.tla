------------------------------ MODULE LocalZones ------------------------------
(***************************************************************************)
(* Queries smartdns answers itself (dns_mw_zone.rs): the discovery of its  *)
(* own encrypted listeners (zone/providers/ddr.rs), the server's identity  *)
(* (identity.rs) and the TXT, SRV and HTTPS rules (rule.rs), in the order  *)
(* in which the middleware asks them.  Reverse names are in QueryPath.     *)
(*                                                                         *)
(* A name is the sequence of its labels from the root.  What the answers   *)
(* of the identity provider say is left out, apart from which one it is.   *)
(***************************************************************************)
EXTENDS Naturals, Sequences, FiniteSets, TLC, Absent

CONSTANTS
  ZoneConfigs,  \* [binds, serverName, rules]: see MCQuerySide
  ZoneQueries   \* [name, type, class, local, peer]

VARIABLES
  zoneConf,     \* the configuration
  zoneQuery,    \* the query being handled, or Null
  zoneReply     \* the answer, or Null

ASSUME ZoneAssumption ==
  /\ \A c \in ZoneConfigs : DOMAIN c.rules \subseteq {"TXT", "SRV", "HTTPS"}
  /\ \A q \in ZoneQueries : DOMAIN q = {"name", "type", "class", "local", "peer"}

zoneVars == <<zoneConf, zoneQuery, zoneReply>>

RESERVED == <<"arpa", "resolver">>
DISCOVERY == <<"arpa", "resolver", "_dns">>
ZoneAt(zone, name) == Len(zone) <= Len(name) /\ zone = SubSeq(name, 1, Len(zone))

AddressTypes == {"A", "AAAA"}
FamilyType(ip) == IF ip.family = "v4" THEN "A" ELSE "AAAA"

-----------------------------------------------------------------------------
(* Designated resolvers.                                                   *)

Encrypted == {"dot", "h2", "doq", "h3"}

\* The listeners to announce, by their places in the list.
Bind(i) == zoneConf.binds[i]
Announced == {i \in DOMAIN zoneConf.binds : Bind(i).enabled /\ Bind(i).ddr}

SvcTarget(bind) == IF bind.name # Null THEN bind.name ELSE zoneConf.serverName

\* A listener without a name of its own outside the reserved zone is left out.
Designated(bind) ==
  /\ bind.proto \in Encrypted
  /\ SvcTarget(bind) # <<>>
  /\ ~ZoneAt(RESERVED, SvcTarget(bind))

\* local_ip: the address the query came to, else the one a packet to the
\* client would leave from.
LocalIp(q) ==
  IF q.local # Null /\ ~q.local.any THEN q.local
  ELSE IF q.peer = Null THEN Null
  ELSE q.peer.route

AddressOf(bind, q) == IF bind.ip.any THEN LocalIp(q) ELSE bind.ip

AsksService(bind, q) ==
  q.type = "SVCB" /\ q.name \in {DISCOVERY, Append(SvcTarget(bind), "_dns")}
AsksAddress(bind, q) == q.name = SvcTarget(bind) /\ q.type \in AddressTypes

Matching(q) ==
  {i \in Announced : /\ Designated(Bind(i))
                     /\ AsksService(Bind(i), q) \/ AsksAddress(Bind(i), q)}

\* target_match
TargetMatch(q) == Matching(q) # {}

AddressRecord(bind, ip) == [type |-> FamilyType(ip), name |-> SvcTarget(bind), ip |-> ip]

\* Mutant: every address is given, whatever family was asked for.
AddressAnswersAny(q) ==
  {AddressRecord(Bind(i), AddressOf(Bind(i), q)) :
     i \in {j \in Matching(q) : AsksAddress(Bind(j), q) /\ AddressOf(Bind(j), q) # Null}}

\* The addresses of a target, each once.
AddressAnswers(q) ==
  {AddressRecord(Bind(i), AddressOf(Bind(i), q)) :
     i \in {j \in Matching(q) : /\ AsksAddress(Bind(j), q)
                               /\ AddressOf(Bind(j), q) # Null
                               /\ FamilyType(AddressOf(Bind(j), q)) = q.type}}

\* The services of a discovery, numbered in the order of the list.
Services(q) == {i \in Matching(q) : AsksService(Bind(i), q)}
ServicePriority(i, q) == Cardinality({j \in Services(q) : j <= i})

ServiceAnswers(q) ==
  {[type |-> "SVCB", name |-> q.name, priority |-> ServicePriority(i, q),
    target |-> SvcTarget(Bind(i)), alpn |-> Bind(i).proto, port |-> Bind(i).port,
    hint |-> AddressOf(Bind(i), q), path |-> Bind(i).proto \in {"h2", "h3"}] :
     i \in Services(q)}

Additional(q) ==
  {AddressRecord(Bind(i), AddressOf(Bind(i), q)) :
     i \in {j \in Services(q) : AddressOf(Bind(j), q) # Null}}

\* lookup: Null when the name is none of ours.
DdrLookup(q) ==
  IF ~ZoneAt(RESERVED, q.name) /\ ~TargetMatch(q) THEN Null
  ELSE [by |-> "ddr", answers |-> ServiceAnswers(q) \cup AddressAnswers(q),
        additional |-> Additional(q)]

-----------------------------------------------------------------------------
(* Identity and rules.                                                     *)

\* translate_query_name
IdentityNames ==
  [n \in {<<"server-name">>, <<"bind", "hostname">>} |-> "ServerName"]
  @@ [n \in {<<"version">>, <<"bind", "version">>} |-> "ServerVersion"]
  @@ [n \in {<<"client_ip">>, <<"client-ip">>} |-> "ClientIp"]
  @@ [n \in {<<"client_mac">>, <<"client-mac">>} |-> "ClientMac"]
  @@ [n \in {<<"whoami">>} |-> "WhoAmIRecords"]
  @@ [n \in {<<"json", "whoami">>} |-> "WhoAmIJson"]
  @@ [n \in {<<"smartdns">>, <<"server", "id">>} |-> "ServerRecords"]
  @@ [n \in {<<"json", "smartdns">>} |-> "ServerJson"]

IdentityLookup(q) ==
  IF q.type = "TXT" /\ q.class = "CH" /\ q.name \in DOMAIN IdentityNames
  THEN [by |-> "identity", answers |-> {[type |-> "TXT", name |-> q.name,
                                         text |-> IdentityNames[q.name]]},
        additional |-> {}]
  ELSE Null

\* What an upstream server answers to an HTTPS query.
UpstreamHttps(q) == {[type |-> "HTTPS", name |-> q.name, hints |-> h] :
                       h \in SUBSET {"v4", "v6"}}

\* The rule for a TXT, SRV or HTTPS query; a filter asks upstream first.
RuleLookups(q) ==
  LET rule == IF q.type \in DOMAIN zoneConf.rules THEN zoneConf.rules[q.type] ELSE Null
      reply(by, answers) == [by |-> by, answers |-> answers, additional |-> {}]
  IN  IF rule = Null THEN {}
      ELSE CASE rule.kind = "ignore" -> {}
             [] rule.kind = "data" -> {reply("rule", {[type |-> q.type, name |-> q.name]})}
             [] rule.kind = "soa" -> {reply("rule", {[type |-> "SOA", name |-> q.name]})}
             [] rule.kind = "filter" ->
                  {reply("filtered", {[r EXCEPT !.hints = @ \ rule.remove]}) :
                     r \in UpstreamHttps(q)} \cup {reply("error", {})}

-----------------------------------------------------------------------------
ZonesInit ==
  /\ zoneConf \in ZoneConfigs
  /\ zoneQuery = Null
  /\ zoneReply = Null

AskZone(q) ==
  /\ zoneQuery = Null
  /\ zoneQuery' = q
  /\ UNCHANGED <<zoneConf, zoneReply>>

\* handle: the first that knows the name.
ZoneReplies(q) ==
  IF DdrLookup(q) # Null THEN {DdrLookup(q)}
  ELSE IF IdentityLookup(q) # Null THEN {IdentityLookup(q)}
  ELSE IF RuleLookups(q) # {} THEN RuleLookups(q)
  ELSE {[by |-> "next", answers |-> {}, additional |-> {}]}

HandleZone ==
  /\ zoneQuery # Null /\ zoneReply = Null
  /\ zoneReply' \in ZoneReplies(zoneQuery)
  /\ UNCHANGED <<zoneConf, zoneQuery>>

ReturnZone ==
  /\ zoneReply # Null
  /\ zoneQuery' = Null /\ zoneReply' = Null
  /\ UNCHANGED zoneConf

ZonesNext ==
  \/ \E q \in ZoneQueries : AskZone(q)
  \/ HandleZone
  \/ ReturnZone

ZonesSpec == ZonesInit /\ [][ZonesNext]_zoneVars

-----------------------------------------------------------------------------
(* Properties.                                                             *)

\* What a discovery announces can be looked up: the hint of each service is
\* what an address query of the same client for its target gives.
HintsResolve ==
  zoneReply # Null /\ zoneQuery.type = "SVCB" =>
    \A r \in zoneReply.answers : r.hint # Null =>
      LET followUp(type) == [zoneQuery EXCEPT !.name = r.target, !.type = type]
          given == UNION {DdrLookup(followUp(type)).answers : type \in AddressTypes}
      IN  /\ \E a \in given : a.ip = r.hint /\ a.type = FamilyType(r.hint)
          /\ \E a \in zoneReply.additional : a.ip = r.hint /\ a.name = r.target
          /\ \A type \in AddressTypes :
               \A a \in DdrLookup(followUp(type)).answers : a.type = type

=============================================================================
