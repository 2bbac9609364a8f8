----------------------------- MODULE UdpExchange -----------------------------
(* UdpClient (src/libdns/custom/udp_client.rs): queries to one upstream,   *)
(* each on a socket of its own, taken from the idle ones or bound for it.  *)
(* The upstream and the network may answer late, twice, or not at all; the *)
(* socket is connected, so every datagram on it is the upstream's.         *)
EXTENDS Naturals, Sequences, FiniteSets, Absent

CONSTANTS
    UdpSlots,      \* exchanges running at once
    UdpQuestions,
    QueryIds,      \* the 16-bit ids; few, so that they repeat
    MaxIdle,       \* MAX_IDLE_SOCKETS
    MaxQueries,    \* bound: queries sent before the client is built anew
    MaxFlying      \* bound: replies on their way at once

ASSUME UdpAssumption == {MaxIdle, MaxQueries, MaxFlying} \subseteq Nat

VARIABLES
    idle,          \* the idle sockets, last in first out
    exchange,      \* per slot: the exchange, Null if none
    flying,        \* replies on their way, by socket
    queryNo,       \* queries sent; also numbers the sockets bound
    gaveUp         \* history: the queries whose exchange timed out

udpVars == <<idle, exchange, flying, queryNo, gaveUp>>

UdpInit ==
    /\ idle = <<>> /\ flying = {} /\ queryNo = 0 /\ gaveUp = {}
    /\ exchange = [e \in UdpSlots |-> Null]

NoReply == [how |-> "error"]

\* A datagram of the upstream: the query it replies to, and where it goes.
UdpReply ==
    [socket : Nat \cup {Null}, id : QueryIds \cup {Null}, q : UdpQuestions,
     how : {"answer", "garbled", "case"}, no : Nat]

ASSUME UdpNullAssumption == Null \notin UdpReply \cup {NoReply}

Put(e, x) == exchange' = [exchange EXCEPT ![e] = x]

\* idle.pop(), else a new socket.
TakeSocket(s) == IF idle = <<>> THEN s = queryNo + 1 /\ UNCHANGED idle
                 ELSE s = idle[Len(idle)] /\ idle' = SubSeq(idle, 1, Len(idle) - 1)

\* bind tries ten ports, without those to avoid; then the query fails.
BindFails(e, q) ==
    /\ idle = <<>> /\ UNCHANGED idle
    /\ Put(e, [socket |-> Null, id |-> Null, q |-> q, no |-> queryNo + 1, got |-> NoReply])

\* exchange up to the first receive: a socket, a random id, and the query.
SendQuery(e, q) ==
    /\ exchange[e] = Null /\ queryNo < MaxQueries
    /\ queryNo' = queryNo + 1
    /\ \/ \E s \in 1..MaxQueries, id \in QueryIds :
            /\ TakeSocket(s)
            /\ Put(e, [socket |-> s, id |-> id, q |-> q, no |-> queryNo', got |-> Null])
       \/ BindFails(e, q)
    /\ UNCHANGED <<flying, gaveUp>>

Waiting(e) == exchange[e] # Null /\ exchange[e].got = Null

\* The upstream replies to a query, maybe after its exchange is over.
\* "case" is a reply whose question differs in case from the one sent.
UpstreamReplies(e, how) ==
    /\ Waiting(e) /\ Cardinality(flying) < MaxFlying
    /\ flying' = flying \cup {[socket |-> exchange[e].socket, id |-> exchange[e].id,
                               q |-> exchange[e].q, how |-> how, no |-> exchange[e].no]}
    /\ UNCHANGED <<idle, exchange, queryNo, gaveUp>>

\* decode_response: a reply that cannot be read, or to another question, is
\* skipped; one that changed the case of the name is an error.
DecodeResponse(x, r) ==
    IF r.how = "garbled" \/ r.q # x.q THEN "skip"
    ELSE IF r.how = "case" THEN "mismatch" ELSE "answer"

\* An exchange's socket after an answer: kept if there is room.
ReturnSocket(s) == idle' = IF Len(idle) < MaxIdle THEN Append(idle, s) ELSE idle

\* The receive loop: a datagram of the socket, which may come again.
Receive(e, r) ==
    /\ Waiting(e)
    /\ r.socket = exchange[e].socket
    /\ flying' \in {flying, flying \ {r}}
    /\ LET x == exchange[e]
           verdict == IF r.id # x.id THEN "skip" ELSE DecodeResponse(x, r)
       IN CASE verdict = "skip" -> UNCHANGED <<idle, exchange>>
            [] verdict = "mismatch" -> Put(e, [x EXCEPT !.got = NoReply]) /\ UNCHANGED idle
            [] OTHER -> Put(e, [x EXCEPT !.got = r]) /\ ReturnSocket(x.socket)
    /\ UNCHANGED <<queryNo, gaveUp>>

GiveUpKeeping(e) ==
    /\ gaveUp' = gaveUp \cup {exchange[e].no}
    /\ Put(e, Null) /\ ReturnSocket(exchange[e].socket)
    /\ UNCHANGED flying

\* The timeout drops the exchange, and with it the socket; so does a caller
\* that gives up on it.
GiveUp(e) ==
    /\ gaveUp' = gaveUp \cup {exchange[e].no}
    /\ Put(e, Null)
    /\ UNCHANGED <<idle, flying>>

UdpTimeout(e) ==
    /\ Waiting(e)
    /\ GiveUp(e)
    /\ UNCHANGED queryNo

Returned(e) ==
    /\ exchange[e] # Null
    /\ exchange[e].got # Null
    /\ Put(e, Null)
    /\ UNCHANGED <<idle, flying, queryNo, gaveUp>>

\* A reload drops the client.
NewClient ==
    /\ \A e \in UdpSlots : exchange[e] = Null
    /\ queryNo = MaxQueries
    /\ idle' = <<>> /\ flying' = {} /\ queryNo' = 0 /\ gaveUp' = {}
    /\ UNCHANGED exchange

UdpNext ==
    \/ \E e \in UdpSlots :
         \/ \E q \in UdpQuestions : SendQuery(e, q)
         \/ \E how \in {"answer", "garbled", "case"} : UpstreamReplies(e, how)
         \/ \E r \in flying : Receive(e, r)
         \/ UdpTimeout(e) \/ Returned(e)
    \/ NewClient

UdpSpec == UdpInit /\ [][UdpNext]_udpVars

-----------------------------------------------------------------------------
UdpAnswered == {e \in UdpSlots : /\ exchange[e] # Null
                                /\ exchange[e].got # Null
                                /\ exchange[e].got.how # "error"}

\* The reply to a query that was given up reaches nobody: its socket is gone
\* with the exchange, so not even a later query for the same name with the
\* same id takes the stale answer.
GivenUpStaysUnanswered == \A e \in UdpAnswered : exchange[e].got.no \notin gaveUp
==============================================================================
