--------------------------- MODULE UpstreamClient ---------------------------
(* The DNS client (src/dns_client.rs, src/own_listeners.rs): the groups    *)
(* DnsClientBuilder::build makes of the configured servers, and a lookup   *)
(* in a group whose servers answer in any order.                           *)
EXTENDS Naturals, FiniteSets, Absent

CONSTANTS
    UpSetups       \* what the client may be built from

VARIABLES
    upSetup,       \* servers, listeners, local addresses, system resolvers
    upClient,      \* DnsClient, Null before build
    upLookup       \* the lookup in hand, Null if none

upVars == <<upSetup, upClient, upLookup>>

-----------------------------------------------------------------------------
(* The server's own listeners.                                             *)

Wildcard(ip) == ip.kind = "any"

\* Only the very address counts.
IsOwnExactly(listeners, url, local) ==
    url.ip # Null /\ \E l \in listeners : l.via = url.via /\ l.port = url.port /\ l.ip = url.ip

\* is_own: an IPv6 wildcard takes IPv4 too.
IsOwn(listeners, url, local) ==
    /\ url.ip # Null
    /\ \E l \in listeners :
         /\ l.via = url.via /\ l.port = url.port
         /\ IF Wildcard(l.ip)
            THEN /\ l.ip.v = 6 \/ url.ip.v = 4
                 /\ url.ip.kind \in {"loopback", "any"} \/ url.ip \in local
            ELSE l.ip = url.ip

WithoutOwn(setup, urls) == {u \in urls : ~IsOwn(setup.listeners, u, setup.local)}

-----------------------------------------------------------------------------
(* DnsClientBuilder::build.                                                *)

\* NameServer::new fails on a bad TLS setting, and on a name it has no
\* resolver for.
Creatable(info, resolver) == info.good /\ (info.ip # Null \/ resolver)
Created(infos, resolver) == {i \in infos : Creatable(i, resolver)}

Presets == {[ip |-> [v |-> 4, kind |-> "public"], port |-> 443, via |-> "Https", good |-> TRUE]}

\* Addresses are of the two families, and none of the public resolvers that
\* are built in is this host.
ASSUME UpAddressAssumption ==
    \A s \in UpSetups :
      /\ \A l \in s.listeners : l.ip # Null /\ l.ip.v \in {4, 6}
      /\ \A u \in s.servers \cup (IF s.system = Null THEN {} ELSE s.system) :
           u.ip # Null => u.ip.v \in {4, 6}
      /\ \A u \in Presets : u.ip # Null /\ ~IsOwn(s.listeners, u, s.local)

\* from_system_conf: the presets stand in when the file cannot be read, and
\* when it names nobody but this server.
FromSystemConf(setup) ==
    LET conf == IF setup.system = Null THEN Presets ELSE setup.system
        urls == WithoutOwn(setup, conf)
    IN Created(IF urls = {} /\ conf # {} THEN Presets ELSE urls, FALSE)

BootstrapServers(infos) ==
    LET marked == {i \in infos : i.bootstrap /\ i.ip # Null}
    IN IF marked # {} THEN marked ELSE {i \in infos : i.ip # Null /\ ~i.proxy}

Build(setup) ==
    LET infos == WithoutOwn(setup, setup.servers)
        boot == BootstrapServers(infos)
        bootstrap == IF boot # {} THEN Created(boot, FALSE) ELSE FromSystemConf(setup)
        named == UNION {i.groups : i \in infos}
        default == {i \in infos : ~i.excluded}
    IN [bootstrap |-> bootstrap,
        default |-> IF default = {} THEN bootstrap ELSE Created(default, TRUE),
        groups |-> [g \in named |-> Created({i \in infos : g \in i.groups}, TRUE)]]

UpInit ==
    /\ upSetup \in UpSetups
    /\ upClient = Null /\ upLookup = Null

BuildClient ==
    /\ upClient = Null
    /\ upClient' = Build(upSetup)
    /\ UNCHANGED <<upSetup, upLookup>>

\* A reload builds another client.
RebuildClient ==
    /\ upClient # Null /\ upLookup = Null
    /\ upClient' = Null
    /\ UNCHANGED <<upSetup, upLookup>>

\* build asserts that there is a bootstrap server.
ClientBuilt(c) == c # Null /\ c.bootstrap # {}

\* get_server_group; the names compare without case, "" and "default" are
\* the default group.
GetServerGroup(g) == IF g = "default" THEN upClient.default ELSE upClient.groups[g]

-----------------------------------------------------------------------------
(* A lookup in a group (NameServerGroup::lookup, select_response).         *)

\* How a server's lookup ends: with records, without any, in a negative
\* response, or in a failure.  check_edns turns a reply without EDNS into a
\* failure.
Endings == {"records", "empty", "negative", "failed"}

GroupLookup(g, isIp) ==
    /\ ClientBuilt(upClient) /\ upLookup = Null
    /\ upLookup' = [tasks |-> GetServerGroup(g), isIp |-> isIp, seen |-> {}, kept |-> {},
                    single |-> Cardinality(GetServerGroup(g)) = 1,
                    outcome |-> IF GetServerGroup(g) = {} THEN "panic" ELSE Null]
    /\ UNCHANGED <<upSetup, upClient>>

\* select_response: what a lookup that just ended decides.  Records are
\* returned at once, as is any answer to a question that is not for
\* addresses; otherwise the better of those kept, when all have ended.
SelectResponse(l, ending) ==
    IF l.single \/ ending = "records" THEN ending
    ELSE IF ~l.isIp /\ ending # "failed" THEN ending
    ELSE IF Cardinality(l.tasks) > 1 THEN Null
    ELSE LET kept == l.kept \cup {ending}
         IN IF "empty" \in kept THEN "empty"
            ELSE IF "negative" \in kept THEN "negative" ELSE "failed"

ServerEnds(s, ending) ==
    /\ upLookup # Null
    /\ upLookup.outcome = Null /\ s \in upLookup.tasks
    /\ upLookup' = [upLookup EXCEPT !.tasks = @ \ {s}, !.kept = @ \cup {ending},
                                    !.seen = @ \cup {ending},
                                    !.outcome = SelectResponse(upLookup, ending)]
    /\ UNCHANGED <<upSetup, upClient>>

LookupReturned ==
    /\ upLookup # Null
    /\ upLookup.outcome # Null
    /\ upLookup' = Null
    /\ UNCHANGED <<upSetup, upClient>>

UpNext ==
    \/ BuildClient \/ RebuildClient
    \/ \E isIp \in BOOLEAN :
         \E g \in {"default"} \cup (IF ClientBuilt(upClient) THEN DOMAIN upClient.groups ELSE {}) :
           GroupLookup(g, isIp)
    \/ \E ending \in Endings :
         \E s \in (IF upLookup # Null THEN upLookup.tasks ELSE {}) : ServerEnds(s, ending)
    \/ LookupReturned

UpSpec == UpInit /\ [][UpNext]_upVars

-----------------------------------------------------------------------------
\* Where a query to an address ends up at one of our own sockets.
ComesBack(setup, url) ==
    \E l \in setup.listeners :
      /\ url.ip # Null /\ l.via = url.via /\ l.port = url.port
      /\ \/ l.ip = url.ip
         \/ /\ l.ip.kind = "any" /\ l.ip.v >= url.ip.v
            /\ url.ip.kind \in {"loopback", "any"} \/ url.ip \in setup.local

\* No query comes back as a new one: no server given by address, in any
\* group or in the bootstrap group, the system's included, is one of the
\* server's own listeners (own_listeners.rs, build, from_system_conf).
NoQueryLoop ==
    ClientBuilt(upClient) =>
      \A u \in upClient.bootstrap \cup upClient.default
               \cup UNION {upClient.groups[g] : g \in DOMAIN upClient.groups} :
        ~ComesBack(upSetup, u)

==============================================================================
