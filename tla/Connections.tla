----------------------------- MODULE Connections -----------------------------
(* A connection to an upstream (src/libdns/custom/connection_provider.rs): *)
(* the addresses of the server, found by the bootstrap resolver            *)
(* (src/dns_client.rs) when it has a name, and the race of the connections *)
(* to them.  A connection that is up sends a first query; it waits for     *)
(* PauseTicks before it may win if that query failed, or if it is the      *)
(* HTTP/2 connection of a server where HTTP/3 is preferred.                *)
(*                                                                         *)
(* Two servers may have the same host: each looks the name up for itself,  *)
(* and the resolver keeps the answers of both.                             *)
EXTENDS Naturals, Sequences, FiniteSets, Absent

CONSTANTS
    Dialers,       \* the servers connecting
    Upstreams,     \* per server: how it is given, and the addresses it may have
    PauseTicks,    \* 50 ms
    MaxTicks       \* bound: when the last first query ends

ASSUME ConnAssumption == PauseTicks \in Nat \ {0} /\ MaxTicks \in Nat

ASSUME ConnKindAssumption ==
    \A u \in Upstreams : \A d \in Dialers : {u[d].h3, u[d].prefer} \subseteq BOOLEAN

VARIABLES
    dial,          \* per server: how it is given, and the step it is in
    race,          \* per server: its candidates
    known,         \* ip_store: per family, what the host resolved to
    ticks          \* per server: time since the race began

connVars == <<dial, race, known, ticks>>

\* A candidate: the protocol and address to connect to.
Candidate(address, h2, h3) ==
    [address |-> address, delayed |-> h2 /\ h3, phase |-> "connect", warm |-> FALSE, since |-> 0]

\* new_connection's list: every address once, and twice where HTTP/3 is tried
\* beside HTTP/2.
CandidatesOf(kind, addresses) ==
    IF kind.h3 THEN {Candidate(a, h2, kind.prefer) : a \in addresses, h2 \in BOOLEAN}
    ELSE {Candidate(a, FALSE, FALSE) : a \in addresses}

ConnInit ==
    /\ dial \in {[d \in Dialers |-> [kind |-> u[d], step |-> "idle", won |-> Null]] : u \in Upstreams}
    /\ race = [d \in Dialers |-> {}]
    /\ known = [f \in {} |-> {}]
    /\ ticks = [d \in Dialers |-> 0]

To(d, step) == dial' = [dial EXCEPT ![d].step = step]

\* One address and one protocol: the connection is made without a race.
Begin(d, addresses) ==
    LET all == CandidatesOf(dial[d].kind, addresses)
    IN IF addresses = {} THEN To(d, "failed") /\ UNCHANGED <<race, ticks>>
       ELSE /\ To(d, IF Cardinality(all) = 1 THEN "single" ELSE "race")
            /\ race' = [race EXCEPT ![d] = all]
            /\ ticks' = [ticks EXCEPT ![d] = 0]

\* new_connection: a server given by address connects at once; the system's
\* resolvers and a DHCP server's are looked up when needed, without those
\* that are this server; a host name goes to the bootstrap resolver.
Dial(d) ==
    /\ dial[d].step = "idle"
    /\ IF dial[d].kind.how = "host" THEN
         IF "A" \in DOMAIN known THEN Begin(d, known["A"])
         ELSE To(d, "A") /\ UNCHANGED <<race, ticks>>
       ELSE \E found \in dial[d].kind.finds : Begin(d, found)
    /\ UNCHANGED known

\* BootstrapResolver::lookup keeps every answer, the one without addresses
\* too, in place of the one before.
Remember(f, addresses) ==
    [g \in DOMAIN known \cup {f} |-> IF g = f THEN addresses ELSE known[g]]

\* A lookup of the host ends (lookup_ip, IPv4 first): an answer is used as it is, after an error the
\* other family is looked up, in the store first.
Resolved(d) ==
    \E f \in {"A", "AAAA"} :
      /\ dial[d].step = f
      /\ \/ \E addresses \in dial[d].kind.finds :
              /\ known' = Remember(f, addresses)
              /\ Begin(d, addresses)
         \/ /\ UNCHANGED known
            /\ IF f = "AAAA" THEN To(d, "failed") /\ UNCHANGED <<race, ticks>>
               ELSE IF "AAAA" \in DOMAIN known THEN Begin(d, known["AAAA"])
               ELSE To(d, "AAAA") /\ UNCHANGED <<race, ticks>>

\* The only candidate connects or not; no query is sent on it.
Connects(d) ==
    /\ dial[d].step = "single"
    /\ \E c \in race[d] : \E ok \in BOOLEAN :
         dial' = [dial EXCEPT ![d].step = IF ok THEN "connected" ELSE "failed",
                              ![d].won = IF ok THEN c ELSE Null]
    /\ UNCHANGED <<race, known, ticks>>

Change(d, c, new) == race' = [race EXCEPT ![d] = (@ \ {c}) \cup {new}]

CandidateConnects(d, c) ==
    /\ dial[d].step = "race" /\ c.phase = "connect"
    /\ \/ Change(d, c, [c EXCEPT !.phase = "warm"])
       \/ Change(d, c, [c EXCEPT !.phase = "failed"])
    /\ UNCHANGED <<dial, known, ticks>>

\* The first query's outcome makes no difference.
PausesNever(c, ok) == c.delayed

Pauses(c, ok) == ~ok \/ c.delayed

CandidateWarm(d, c) ==
    /\ dial[d].step = "race" /\ c.phase = "warm"
    /\ \E ok \in BOOLEAN :
         Change(d, c, [c EXCEPT !.phase = IF Pauses(c, ok) THEN "pause" ELSE "ready",
                                !.warm = ok, !.since = ticks[d]])
    /\ UNCHANGED <<dial, known, ticks>>

Due(d, c) == c.phase = "pause" /\ ticks[d] >= c.since + PauseTicks

CandidateRested(d, c) ==
    /\ dial[d].step = "race" /\ Due(d, c)
    /\ Change(d, c, [c EXCEPT !.phase = "ready"])
    /\ UNCHANGED <<dial, known, ticks>>

\* select_ok: the first to be ready; an error only when all have failed.
Settle(d) ==
    \/ \E c \in race[d] : c.phase = "ready"
         /\ dial' = [dial EXCEPT ![d].step = "connected", ![d].won = c]
    \/ /\ \A c \in race[d] : c.phase = "failed"
       /\ To(d, "failed")

RaceEnds(d) ==
    /\ dial[d].step = "race"
    /\ Settle(d)
    /\ UNCHANGED <<race, known, ticks>>

\* Time passes for a race in which nothing is due.
ConnTick(d) ==
    /\ dial[d].step = "race"
    /\ ticks[d] < MaxTicks \/ \E c \in race[d] : c.phase = "pause"
    /\ \A c \in race[d] : ~Due(d, c) /\ c.phase # "ready"
    /\ ticks' = [ticks EXCEPT ![d] = @ + 1]
    /\ UNCHANGED <<dial, race, known>>

\* The connection closes, and the next lookup connects again.
Redial(d) ==
    /\ dial[d].step \in {"connected", "failed"}
    /\ dial' = [dial EXCEPT ![d].step = "idle", ![d].won = Null]
    /\ race' = [race EXCEPT ![d] = {}]
    /\ ticks' = [ticks EXCEPT ![d] = 0]
    /\ UNCHANGED known

ConnNext ==
    \E d \in Dialers :
      \/ Dial(d) \/ Resolved(d) \/ Connects(d) \/ RaceEnds(d) \/ ConnTick(d) \/ Redial(d)
      \/ \E c \in race[d] :
           CandidateConnects(d, c) \/ CandidateWarm(d, c) \/ CandidateRested(d, c)

ConnSpec == ConnInit /\ [][ConnNext]_connVars

-----------------------------------------------------------------------------
\* A connection that did not answer its first query, or one over HTTP/2 where
\* HTTP/3 is preferred, wins only if no other connection of the race had
\* answered, undelayed, by then: those had the whole pause to do so.
ProvenConnectionWins ==
    \A d \in Dialers :
      (/\ dial[d].step = "connected" /\ Cardinality(race[d]) > 1
       /\ ~dial[d].won.warm \/ dial[d].won.delayed) =>
        /\ ticks[d] >= dial[d].won.since + PauseTicks
        /\ \A c \in race[d] : (c.warm /\ ~c.delayed) => c.since >= dial[d].won.since + PauseTicks
==============================================================================
