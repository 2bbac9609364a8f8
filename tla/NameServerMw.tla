---------------------------- MODULE NameServerMw ----------------------------
(* NameServerMiddleware (src/dns_mw_ns.rs): which group of upstreams a     *)
(* question goes to, the filters on the addresses each upstream returns,   *)
(* the recheck of an answer by a second group, and the permits that bound  *)
(* the lookups left running behind an early answer.  Which of the group's  *)
(* answers is chosen is the subject of SelectIp; here any may be.          *)
EXTENDS Naturals, Sequences, FiniteSets, Functions, Absent

CONSTANTS
    NsSlots,       \* questions being answered at once
    NsConfigs,     \* the configurations, see NsConf
    NsAsks,        \* the questions: name, type, and the listener's options
    MaxDeferred,   \* MAX_DEFERRED_SPEED_CHECKS
    MaxRests,      \* bound: lookups running behind an answer
    Received       \* what an upstream may return: addresses, or Null for an error

ASSUME NsAssumption == MaxDeferred \in Nat /\ MaxRests \in Nat /\ IsFiniteSet(NsSlots)

VARIABLES
    nsConf,
    nsPermits,     \* deferred_speed_checks
    nsSlot,        \* per slot: the lookup
    nsRests        \* how many rests run in the background, each with a permit

nsVars == <<nsConf, nsPermits, nsSlot, nsRests>>

Family(ip) == ip[1]
IsIp(type) == type \in {"A", "AAAA"}

-----------------------------------------------------------------------------
(* The group and the recheck, from the chain of rules of the name.         *)

WithServer(chain) == {i \in DOMAIN chain : chain[i].server # Null}
NearestServer(chain) == CHOOSE i \in WithServer(chain) : \A j \in WithServer(chain) : i <= j

\* DnsContext::server_group_name: the listener's group, else the nearest rule's.
NameOfGroup(q) ==
    IF q.group # Null THEN q.group
    ELSE LET chain == nsConf.rules[q.name]
         IN IF WithServer(chain) = {} THEN "default" ELSE chain[NearestServer(chain)].server

\* Recheck::find: only the rule that chose the group decides.
RecheckRule(q, group) ==
    LET chain == nsConf.rules[q.name]
        rule == chain[NearestServer(chain)]
    IN IF \/ WithServer(chain) = {} \/ rule.recheck = Null \/ rule.set = Null
          \/ rule.server # group \/ rule.recheck = group
       THEN Null ELSE [group |-> rule.recheck, set |-> rule.set]

HasIpIn(ips, set) == Range(ips) \cap set # {}

-----------------------------------------------------------------------------
(* One upstream's answer (per_nameserver_lookup_ip).                       *)

IpFilter(server, ip) ==
    IF server.white /\ ip \in nsConf.white THEN TRUE
    ELSE IF server.black /\ ip \in nsConf.black THEN FALSE
    ELSE ip \notin nsConf.ignored

\* Every alias list stands once, for the first address that has it; the
\* aliases of the other family move out of the answer.
Aliased(type, ips) ==
    LET earlier(i) == {nsConf.alias[ips[j]] : j \in {k \in 1..(i - 1) : ips[k] \in DOMAIN nsConf.alias}}
        place(i) == IF ips[i] \notin DOMAIN nsConf.alias THEN <<ips[i]>>
                    ELSE IF nsConf.alias[ips[i]] \in earlier(i) THEN <<>>
                    ELSE SelectSeq(nsConf.alias[ips[i]], LAMBDA ip : Family(ip) = type)
        upTo[i \in 0..Len(ips)] == IF i = 0 THEN <<>> ELSE upTo[i - 1] \o place(i)
    IN upTo[Len(ips)]

\* The answer as the selection gets it, Null for an error: NoRecordsFound
\* when nothing is left.
PerNameserverLookupIp(server, type, ips) ==
    LET filtered == Aliased(type, SelectSeq(ips, LAMBDA ip : IpFilter(server, ip)))
    IN IF ips = Null THEN Null
       ELSE IF /\ ~server.white /\ ~server.black
               /\ nsConf.ignored = {} /\ DOMAIN nsConf.alias = {} THEN ips
       ELSE IF filtered = <<>> THEN Null ELSE filtered

\* What a lookup in a group may give: the answer of one of its servers.
GroupAnswers(group, type) ==
    IF nsConf.groups[group] = {} THEN {Null}
    ELSE {[raw |-> ips, server |-> server, ips |-> PerNameserverLookupIp(server, type, ips)] :
            server \in nsConf.groups[group],
            ips \in {r \in Received : r # Null => \A i \in DOMAIN r : Family(r[i]) = type}}

-----------------------------------------------------------------------------
NsIdle == [phase |-> "idle", q |-> Null, asked |-> Null, group |-> Null, recheck |-> Null,
           first |-> Null, answer |-> Null, filed |-> Null, source |-> Null]

NsInit ==
    /\ nsConf \in NsConfigs
    /\ nsPermits = MaxDeferred /\ nsRests = 0
    /\ nsSlot = [s \in NsSlots |-> NsIdle]

NsSet(s, rec) == nsSlot' = [nsSlot EXCEPT ![s] = rec]

\* The handler up to its first lookup.  An upstream's own host name is
\* answered from the bootstrap addresses and kept out of the cache; a
\* listener without the nameserver rules asks the default group, whose lookup
\* has no filters.
NsHandle(s, q) ==
    LET mdns == nsConf.mdns /\ q.local
        group == NameOfGroup(q)
        asked == IF mdns /\ "mdns" \in DOMAIN nsConf.groups THEN "mdns" ELSE group
        recheck == IF mdns THEN Null ELSE RecheckRule(q, group)
        deferred == IsIp(q.type) /\ recheck = Null /\ q.defers /\ nsPermits > 0
        lookup == [NsIdle EXCEPT !.q = q, !.asked = asked, !.group = group,
                                 !.recheck = recheck, !.source = group]
    IN /\ nsSlot[s].phase = "idle"
       /\ IF IsIp(q.type) /\ q.name \in nsConf.own THEN
            /\ NsSet(s, [NsIdle EXCEPT !.phase = "done", !.q = q, !.answer = <<>>])
            /\ UNCHANGED nsPermits
          ELSE IF q.noRule THEN
            /\ NsSet(s, [NsIdle EXCEPT !.phase = "group", !.q = q, !.asked = "default"])
            /\ UNCHANGED nsPermits
          ELSE IF asked \notin DOMAIN nsConf.groups THEN
            /\ NsSet(s, [NsIdle EXCEPT !.phase = "done", !.q = q])
            /\ UNCHANGED nsPermits
          ELSE
            /\ NsSet(s, [lookup EXCEPT !.phase = IF deferred THEN "early" ELSE "group"])
            /\ nsPermits' = IF deferred THEN nsPermits - 1 ELSE nsPermits
       /\ UNCHANGED <<nsConf, nsRests>>

\* The group's answer, when nothing is to be checked behind it.
NsAnswer(s) ==
    /\ nsSlot[s].phase = "group"
    /\ \E a \in GroupAnswers(nsSlot[s].asked, nsSlot[s].q.type) :
         LET r == nsSlot[s].recheck
             ips == IF a = Null THEN Null
                    ELSE IF IsIp(nsSlot[s].q.type) /\ ~nsSlot[s].q.noRule THEN a.ips ELSE a.raw
             rechecks == /\ r # Null /\ ips # Null
                         /\ r.set \in DOMAIN nsConf.sets /\ r.group \in DOMAIN nsConf.groups
                         /\ HasIpIn(ips, nsConf.sets[r.set])
         IN NsSet(s, [nsSlot[s] EXCEPT
                        !.phase = IF rechecks THEN "recheck" ELSE "done",
                        !.first = a, !.answer = ips,
                        !.filed = IF rechecks THEN Null ELSE nsSlot[s].group])
    /\ UNCHANGED <<nsConf, nsPermits, nsRests>>

\* Recheck::lookup once the recheck group has answered, and the end of the
\* handler: the answer is filed under the group the rules chose.
RecheckLookup(lookup, a) ==
    IF a # Null /\ a.ips # Null /\ HasIpIn(a.ips, nsConf.sets[lookup.recheck.set])
    THEN [lookup EXCEPT !.phase = "done", !.answer = a.ips, !.filed = lookup.group,
                        !.source = lookup.recheck.group]
    ELSE [lookup EXCEPT !.phase = "done", !.filed = lookup.group]

NsRecheck(s) ==
    /\ nsSlot[s].phase = "recheck"
    /\ \E a \in GroupAnswers(nsSlot[s].recheck.group, nsSlot[s].q.type) :
         NsSet(s, RecheckLookup(nsSlot[s], a))
    /\ UNCHANGED <<nsConf, nsPermits, nsRests>>

\* The early answer returned with the permit.
NsFirstReleasing(s, a, rest) ==
    /\ NsSet(s, [nsSlot[s] EXCEPT !.phase = IF rest THEN "pending" ELSE "done",
                                  !.first = a, !.answer = IF a = Null THEN Null ELSE a.ips,
                                  !.filed = nsSlot[s].group])
    /\ nsPermits' = nsPermits + 1

\* The early answer.  Its permit moves into the rest of the lookup, and is
\* given back when the lookup ended with its first answer.
NsFirst(s, a, rest) ==
    /\ NsSet(s, [nsSlot[s] EXCEPT !.phase = IF rest THEN "pending" ELSE "done",
                                  !.first = a, !.answer = IF a = Null THEN Null ELSE a.ips,
                                  !.filed = nsSlot[s].group])
    /\ nsPermits' = IF rest THEN nsPermits ELSE nsPermits + 1

NsEarly(s) ==
    /\ nsSlot[s].phase = "early"
    /\ \E a \in GroupAnswers(nsSlot[s].asked, nsSlot[s].q.type), rest \in BOOLEAN :
         (nsConf.groups[nsSlot[s].asked] = {} => ~rest) /\ NsFirst(s, a, rest)
    /\ UNCHANGED <<nsConf, nsRests>>

\* PendingSpeedCheck::take: the cache runs the rest behind an answer it
\* keeps, and drops it with its permit otherwise.
NsTake(s) ==
    /\ nsSlot[s].phase = "pending"
    /\ NsSet(s, [nsSlot[s] EXCEPT !.phase = "done"])
    /\ \/ nsRests < MaxRests /\ nsRests' = nsRests + 1 /\ UNCHANGED nsPermits
       \/ nsPermits' = nsPermits + 1 /\ UNCHANGED nsRests
    /\ UNCHANGED nsConf

NsRestEnds ==
    /\ nsRests > 0
    /\ nsRests' = nsRests - 1 /\ nsPermits' = nsPermits + 1
    /\ UNCHANGED <<nsConf, nsSlot>>

\* The reply is out, or the client's connection ended and its lookup was
\* dropped where it waited.
NsRelease(s) ==
    /\ nsSlot[s].phase # "idle"
    /\ NsSet(s, NsIdle)
    /\ nsPermits' = IF nsSlot[s].phase \in {"early", "pending"} THEN nsPermits + 1 ELSE nsPermits
    /\ UNCHANGED <<nsConf, nsRests>>

NsNext ==
    \/ \E s \in NsSlots : \/ \E q \in NsAsks : NsHandle(s, q)
                          \/ NsAnswer(s) \/ NsRecheck(s) \/ NsEarly(s) \/ NsTake(s)
                          \/ NsRelease(s)
    \/ NsRestEnds

NsSpec == NsInit /\ [][NsNext]_nsVars

-----------------------------------------------------------------------------
\* The lookups going on behind their early answer never exceed the limit of
\* 128, and a permit is out for each: none is lost when a lookup ends with
\* its first answer, when the cache drops the rest, or when the client goes.
DeferredBounded ==
    nsPermits + nsRests + Cardinality({s \in NsSlots : nsSlot[s].phase \in {"early", "pending"}})
      = MaxDeferred

==============================================================================
