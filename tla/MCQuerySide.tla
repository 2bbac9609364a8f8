---------------------------- MODULE MCQuerySide ----------------------------
(***************************************************************************)
(* The components a query passes through, one of them per behaviour: the   *)
(* rules of its name ("rules"), the chain of middlewares ("path"), local   *)
(* zones ("zones"), name server groups ("servers"), the choice between     *)
(* address families ("dual"), the reply and its TTLs ("wire"), and the     *)
(* lifetime of an answer that is saved and loaded ("expiry").              *)
(***************************************************************************)
EXTENDS DomainRules, QueryPath, LocalZones, NameServerMw, DualStack,
        WireReply, CacheExpiry

-----------------------------------------------------------------------------
(* Rules on a root, a zone and a name below it, of every kind of pattern;  *)
(* names are written from the leftmost label.                              *)
N(kind, name) == {RuleKey(kind, name)}
Sub(name, pat) == {[kind |-> "Sub", name |-> name, pat |-> pat]}

SomeDomains ==
    {N("Default", <<>>), N("Default", <<"y">>), N("Suffix", <<"y">>),
     Sub(<<"y">>, {"x", "z"}), N("Default", <<"x", "y">>), N("Full", <<"x", "y">>),
     N("Default", <<"y">>) \cup N("Suffix", <<"x", "y">>)}

C(ns, re, st, ad, tt, mi) ==
    [nameserver |-> ns, recheckNs |-> re, recheckSet |-> st, address |-> ad, ttl |-> tt, ttlMin |-> mi, ttlMax |-> Null]

SomeConfigs ==
    {C("g", "h", "s", Null, Null, Null), C("h", Null, Null, Null, Null, Null),
     C(Null, Null, Null, "a", 1, Null), C(Null, "g", Null, "b", Null, 2)}

SomeQueries == {<<>>, <<"y">>, <<"x", "y">>, <<"w", "x", "y">>, <<"z", "y">>, <<"*", "y">>, <<"q">>}

-----------------------------------------------------------------------------
(* The middleware chain with every subset of the optional middlewares, with*)
(* address rules on a name and on its parent zone, and with local records. *)
(* "n" is the name asked about, "t" the target of its CNAME rule, "p" a    *)
(* private reverse name.                                                   *)
PathAsk(name, types) == {[name |-> name, type |-> type] : type \in types}

NoRules == [x \in {"n", "t", "p"} |-> <<>>]

Base == [on |-> {"cache"}, asks |-> PathAsk("n", {"A", "AAAA"}), redirected |-> {"n"}, address |-> NoRules,
         noSoa |-> FALSE, noAddr |-> FALSE, force |-> {}, noCache |-> {},
         deferred |-> TRUE, ownHosts |-> {},
         local |-> [mw \in {"dnsmasq", "zone", "odhcpd", "hosts"} |-> {}],
         group |-> [x \in {"n", "t", "p"} |-> IF x = "n" THEN "office" ELSE "default"]]

\* Which middlewares are built.
Chains ==
  {[Base EXCEPT !.on = on \cup more] :
     on \in SUBSET {"cname", "dns64", "dualstack"}, more \in {{}, {"cache"}, {"cache", "bogus"}}}
  \cup {[Base EXCEPT !.on = {"cname", "cache"}, !.asks = PathAsk("n", {"A", "AAAA", "CNAME"})]}
  \cup {[Base EXCEPT !.on = on \cup {"cache"}, !.noCache = {"n"}] :
          on \in SUBSET {"cname", "dualstack"}}

\* Address rules on the name and on its parent zone, with the options that
\* turn them off.
PathRules ==
  {[Base EXCEPT !.on = {"dns64"}, !.asks = PathAsk("n", {"A", "AAAA", "HTTPS"}),
                !.redirected = {}, !.deferred = FALSE,
                !.address = [NoRules EXCEPT !["n"] = chain],
                !.noSoa = opts[1], !.noAddr = opts[2], !.force = opts[3]] :
     chain \in {<<a, b>> : a \in {Null, "SOA", "v4", "v6", "SOAv4", "SOAv6",
                                   "IGN", "IGNv4", "IGNv6"},
                          b \in {Null, "SOA", "v4"}},
     opts \in {<<FALSE, FALSE, {}>>, <<TRUE, FALSE, {"AAAA"}>>,
               <<FALSE, TRUE, {"AAAA", "HTTPS"}>>}}

\* Local records.
Locals ==
  {[Base EXCEPT !.on = on, !.deferred = FALSE,
                !.asks = PathAsk("n", {"A", "AAAA", "HTTPS"}) \cup PathAsk("t", {"A", "AAAA"}) \cup PathAsk("p", {"PTR"}),
                !.ownHosts = {[name |-> "t", type |-> "A"]},
                !.local = [mw \in DOMAIN Base.local |->
                             CASE mw = "dnsmasq" -> {[name |-> "n", type |-> "A"]}
                               [] mw = "zone" -> {[name |-> "n", type |-> "HTTPS"]}
                               [] mw = "hosts" -> {[name |-> "t", type |-> "AAAA"]}
                               [] OTHER -> {[name |-> "n", type |-> "AAAA"], [name |-> "p", type |-> "PTR"]}]] :
     on \in SUBSET {"dnsmasq", "odhcpd", "hosts", "cname"}}

MCConfigs == Chains \cup PathRules \cup Locals

-----------------------------------------------------------------------------
(* Designated resolvers of several listeners, service records and zones.   *)
Ip(family, host) == [family |-> family, host |-> host, any |-> host = 0]

DdrBind(proto, enabled, ddr, name, ip, port) ==
  [proto |-> proto, enabled |-> enabled, ddr |-> ddr, name |-> name,
   ip |-> ip, port |-> port]

Dns == <<"home", "dns">>
Box == <<"box">>

BindLists ==
  {<<>>} \cup
  {<<DdrBind(p, e, TRUE, n, ip, 1), DdrBind("udp", TRUE, d, Null, Ip("v4", 0), 2),
     DdrBind("dot", TRUE, d, m, Ip("v6", 0), 3)>> :
   p \in {"h2", "tcp", "doq"}, e, d \in BOOLEAN, n \in {Null, Dns, <<"arpa", "resolver">>},
   m \in {Null, Dns}, ip \in {Ip("v4", 0), Ip("v4", 7)}}

ZoneRules ==
  {[t \in {} |-> Null],
   [t \in {"TXT", "SRV", "HTTPS"} |->
      CASE t = "HTTPS" -> [kind |-> "filter", remove |-> {"v4"}]
        [] OTHER -> [kind |-> "data"]],
   [t \in {"HTTPS"} |-> [kind |-> "soa"]],
   [t \in {"HTTPS"} |-> [kind |-> "ignore"]]}

MCZoneConfigs ==
  {[binds |-> b, serverName |-> s, rules |-> r] :
   b \in BindLists, s \in {Box}, r \in {[t \in {} |-> Null]}} \cup
  {[binds |-> b, serverName |-> s, rules |-> r] :
   b \in {<<>>, <<DdrBind("h3", TRUE, TRUE, Null, Ip("v4", 7), 1)>>},
   s \in {Box, <<>>}, r \in ZoneRules}

Peers == {Null, [route |-> Ip("v4", 8)], [route |-> Ip("v6", 8)]}

MCZoneQueries ==
  {[name |-> n, type |-> t, class |-> "IN", local |-> l, peer |-> p] :
   n \in {DISCOVERY, Dns, Append(Dns, "_dns"), Box, Append(Box, "_dns")},
   t \in {"A", "AAAA", "SVCB"}, l \in {Null, Ip("v4", 0), Ip("v6", 9)}, p \in Peers} \cup
  {[name |-> n, type |-> t, class |-> c, local |-> Null, peer |-> Null] :
   n \in {Box, RESERVED, <<"version">>}, t \in {"TXT", "SRV", "HTTPS"}, c \in {"IN", "CH"}}

-----------------------------------------------------------------------------
(* A name with its own server below a zone that is rechecked, the zone,    *)
(* and a name outside it, asked of one and of several groups of servers.   *)
Ip4(n) == <<"A", n>>
Ip6(n) == <<"AAAA", n>>

Plain == [white |-> FALSE, black |-> FALSE]
Listed == [white |-> TRUE, black |-> TRUE]

NsRule(server, recheck, set) == [server |-> server, recheck |-> recheck, set |-> set]

\* A name with its own server below a zone that is rechecked, the zone, and a
\* name without rules.
NsRules == "own" :> <<NsRule("proxy", Null, Null), NsRule("direct", "proxy", "set")>>
         @@ "zone" :> <<NsRule(Null, Null, Null), NsRule("direct", "proxy", "set")>>
         @@ "none" :> <<>>

Filtering == [rules |-> NsRules,
              groups |-> "default" :> {Plain, Listed} @@ "direct" :> {Listed} @@ "proxy" :> {Plain},
              sets |-> "set" :> {Ip4(1), Ip4(4)}, mdns |-> TRUE, own |-> {},
              white |-> {Ip4(1)}, black |-> {Ip4(1), Ip4(2)}, ignored |-> {Ip4(3)},
              alias |-> Ip4(4) :> <<Ip4(4), Ip6(1)>> @@ Ip4(5) :> <<Ip4(4), Ip6(1)>>]

Unfiltered == [Filtering EXCEPT !.white = {}, !.black = {}, !.ignored = {},
                                !.alias = [ip \in {} |-> <<>>], !.own = {"none"},
                                !.groups = "default" :> {Plain} @@ "mdns" :> {Plain}
                                           @@ "direct" :> {Plain} @@ "empty" :> {}]

MCNsConfigs == {Filtering, Unfiltered}

NsAsk(name, type, group, noRule, defers) ==
    [name |-> name, type |-> type, group |-> group, noRule |-> noRule, defers |-> defers,
     local |-> name = "none"]

MCNsAsks == {NsAsk("own", "A", Null, FALSE, FALSE), NsAsk("zone", "A", Null, FALSE, TRUE),
             NsAsk("zone", "A", "proxy", FALSE, FALSE), NsAsk("none", "A", Null, FALSE, TRUE),
             NsAsk("none", "AAAA", Null, TRUE, FALSE), NsAsk("zone", "TXT", Null, FALSE, TRUE),
             NsAsk("none", "A", "empty", FALSE, TRUE)}

MCReceived == {Null, <<Ip4(1)>>, <<Ip4(2), Ip4(6)>>, <<Ip4(3)>>, <<Ip4(5), Ip4(4)>>, <<Ip6(2)>>}

-----------------------------------------------------------------------------
(* Both families preferred in turn, with and without speed probes, and     *)
(* with the choice forced.                                                 *)
MCSetups == {[prefer |-> TRUE, force |-> FALSE, probes |-> FALSE],
             [prefer |-> FALSE, force |-> TRUE, probes |-> TRUE],
             [prefer |-> TRUE, force |-> FALSE, probes |-> TRUE]}

-----------------------------------------------------------------------------
(* Answers with addresses, a CNAME, no data and a truncated one, under     *)
(* every combination of the TTL bounds of a rule and of the server.        *)
Rr(addr, ttl, of) == [addr |-> addr, ttl |-> ttl, of |-> of]
Msg(ans, auth) == [code |-> 0, tc |-> FALSE, ans |-> ans, auth |-> auth]

MCMessages ==
  {Msg(<<Rr(TRUE, 3, "question"), Rr(TRUE, 1, "question")>>, <<>>),
   Msg(<<Rr(FALSE, 1, "question"), Rr(TRUE, 3, "target"), Rr(TRUE, 3, "target")>>, <<>>),
   Msg(<<Rr(TRUE, 1, "target")>>, <<3>>),
   [Msg(<<>>, <<3>>) EXCEPT !.code = 3],
   [Msg(<<Rr(TRUE, 1, "question")>>, <<>>) EXCEPT !.tc = TRUE]}

Rule(ruleTtl, ruleMin, ruleMax, ttl, min, max, replyMax, maxIps) ==
  [ruleTtl |-> ruleTtl, ruleMin |-> ruleMin, ruleMax |-> ruleMax, ttl |-> ttl,
   min |-> min, max |-> max, replyMax |-> replyMax, maxIps |-> maxIps]

Bounds == {0, 1, 3}

MCConfs ==
  {Rule(0, rmin, rmax, 0, min, max, 0, 0) : rmin \in Bounds, rmax \in Bounds,
                                             min \in Bounds, max \in Bounds}
  \cup {Rule(rt, 0, 2, t, 3, 0, rep, ips) : rt \in {0, 2}, t \in {0, 3},
                                            rep \in 0..2, ips \in 0..2}

-----------------------------------------------------------------------------
(* The sum of the parts.                                                   *)
VARIABLE part

querySideVars == <<part, ruleVars, pathVars, zoneVars, nsVars, dualVars, wireVars, expiryVars>>

AnyOf(S) == CHOOSE x \in S: TRUE

QuerySideInit ==
  /\ part \in {"rules", "path", "zones", "servers", "dual", "wire", "expiry"}
  /\ part # "path" => conf = AnyOf(Configs)
  /\ part # "zones" => zoneConf = AnyOf(ZoneConfigs)
  /\ part # "servers" => nsConf = AnyOf(NsConfigs)
  /\ part # "dual" => setup = AnyOf(Setups) /\ net = AnyOf(Networks)
  /\ part # "wire" => wireConf = AnyOf(Confs)
  /\ part # "expiry" => wall = 0 /\ until = AnyOf(Life)
  /\ RulesInit /\ PathInit /\ ZonesInit /\ NsInit /\ DualInit /\ WireInit /\ ExpiryInit

QuerySideNext ==
  /\ UNCHANGED part
  /\ \/ /\ part = "rules" /\ RulesNext
        /\ UNCHANGED <<pathVars, zoneVars, nsVars, dualVars, wireVars, expiryVars>>
     \/ /\ part = "path" /\ PathNext
        /\ UNCHANGED <<ruleVars, zoneVars, nsVars, dualVars, wireVars, expiryVars>>
     \/ /\ part = "zones" /\ ZonesNext
        /\ UNCHANGED <<ruleVars, pathVars, nsVars, dualVars, wireVars, expiryVars>>
     \/ /\ part = "servers" /\ NsNext
        /\ UNCHANGED <<ruleVars, pathVars, zoneVars, dualVars, wireVars, expiryVars>>
     \/ /\ part = "dual" /\ DualNext
        /\ UNCHANGED <<ruleVars, pathVars, zoneVars, nsVars, wireVars, expiryVars>>
     \/ /\ part = "wire" /\ WireNext
        /\ UNCHANGED <<ruleVars, pathVars, zoneVars, nsVars, dualVars, expiryVars>>
     \/ /\ part = "expiry" /\ ExpiryNext
        /\ UNCHANGED <<ruleVars, pathVars, zoneVars, nsVars, dualVars, wireVars>>
     \* The clock of "expiry" has come to its bound.
     \/ /\ part = "expiry" /\ wall = MaxWall /\ UNCHANGED querySideVars

QuerySideSpec == QuerySideInit /\ [][QuerySideNext]_querySideVars
=============================================================================
