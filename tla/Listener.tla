------------------------------ MODULE Listener ------------------------------
(* The connections of a listener (src/server): DNS over TCP, TLS, QUIC,     *)
(* HTTP, HTTPS and HTTP/3, and datagrams over UDP, from the client's        *)
(* message to its answer.                                                   *)
(*                                                                          *)
(* A connection is a task of the listener's JoinSet, and over TCP every     *)
(* query is a task of the connection's: a set that is dropped aborts its    *)
(* tasks.  Messages are numbered in the order the client sends them.  An    *)
(* answer is queued, and written when the connection polls its stream.      *)
EXTENDS Naturals, Sequences, FiniteSets, Functions, Absent

CONSTANTS
    Conns,          \* the connections; over UDP, the clients
    ConnKinds,      \* their kinds, of {"udp", "tcp", "tls", "quic", "http", "https", "h3"}
    MaxSent,        \* bound: messages of a client
    MaxRequests     \* requests served on a QUIC connection (100)

ASSUME ListenAssumption == MaxSent \in Nat /\ MaxRequests \in Nat \ {0}

VARIABLES
    open,           \* the listener accepts and serves
    conn,           \* the server's side of every connection
    client          \* what the client has sent, and seen

listenVars == <<open, conn, client>>

NoConn == [kind |-> Null, step |-> "none", busy |-> {}, queued |-> <<>>, served |-> 0, read |-> {},
           ended |-> "no"]

ListenInit ==
    /\ open = TRUE
    /\ conn = [c \in Conns |-> NoConn]
    /\ client = [c \in Conns |-> [sent |-> 0, wire |-> <<>>, side |-> "open", got |-> <<>>]]

\* sanitize_src_address: where an answer can be sent to.  HTTP/3 requests
\* come without their address.
Answerable(kind, source) == source = "host" \/ kind = "h3"

Accept(c, kind) ==
    /\ open /\ conn[c].step = "none"
    /\ \E source \in {"host", "port 0", "unspecified", "broadcast"} : Answerable(kind, source)
    /\ conn' = [conn EXCEPT ![c] = [NoConn EXCEPT !.kind = kind,
                   !.step = IF kind \in {"tls", "https"} THEN "handshake" ELSE "reading"]]
    /\ UNCHANGED <<open, client>>

\* The task of the connection does the TLS handshake.
Handshake(c) ==
    /\ conn[c].step = "handshake"
    /\ \/ conn' = [conn EXCEPT ![c].step = "reading"]
       \/ conn' = [conn EXCEPT ![c].step = "closed", ![c].ended = "broken"]
    /\ UNCHANGED <<open, client>>

ClientSends(c) ==
    /\ conn[c].step # "none" /\ client[c].side = "open" /\ client[c].sent < MaxSent
    /\ client' = [client EXCEPT ![c].sent = @ + 1, ![c].wire = Append(@, client[c].sent + 1)]
    /\ UNCHANGED <<open, conn>>

\* The client will send no more, or the connection breaks.
ClientStops(c, side) ==
    /\ conn[c].step # "none" /\ conn[c].kind # "udp" /\ client[c].side = "open"
    /\ client' = [client EXCEPT ![c].side = side]
    /\ UNCHANGED <<open, conn>>

-----------------------------------------------------------------------------
\* Whether a connection reads on while queries are served: over TLS and QUIC
\* it does not.
Pipelined(kind) == kind \in {"udp", "tcp", "http", "https", "h3"}

CanRead(c) ==
    /\ conn[c].step = "reading"
    /\ Pipelined(conn[c].kind) \/ conn[c].busy = {}

\* What is queued is written before the stream is read.
Polled(c) == client[c].got \o conn[c].queued

\* The next message becomes a query of its own task.
ReadQuery(c) ==
    /\ CanRead(c) /\ client[c].wire # <<>> /\ client[c].side # "broken"
    /\ conn' = [conn EXCEPT ![c].busy = @ \cup {Head(client[c].wire)},
                            ![c].read = @ \cup {Head(client[c].wire)},
                            ![c].queued = <<>>]
    /\ client' = [client EXCEPT ![c].wire = Tail(@), ![c].got = Polled(c)]
    /\ UNCHANGED open

\* handler.send returned.  Over UDP and HTTP the task answers by itself, over
\* QUIC the connection does, and ends after MaxRequests.
Served(c, q) ==
    /\ q \in conn[c].busy
    /\ IF conn[c].kind \in {"tcp", "tls"}
       THEN /\ conn' = [conn EXCEPT ![c].busy = @ \ {q}, ![c].queued = Append(@, q)]
            /\ UNCHANGED client
       ELSE LET full == conn[c].kind = "quic" /\ conn[c].served + 1 = MaxRequests
            IN /\ conn' = [conn EXCEPT ![c].busy = @ \ {q}, ![c].served = IF @ < MaxRequests THEN @ + 1 ELSE @,
                                       ![c].step = IF full THEN "closed" ELSE @,
                                       ![c].ended = IF full THEN "full" ELSE @]
               /\ client' = [client EXCEPT ![c].got = IF client[c].side = "broken" THEN @ ELSE Append(@, q)]
    /\ UNCHANGED open

\* The stream is polled, and nothing has come.
Flush(c) ==
    /\ CanRead(c) /\ conn[c].queued # <<>> /\ client[c].side # "broken"
    /\ conn' = [conn EXCEPT ![c].queued = <<>>]
    /\ client' = [client EXCEPT ![c].got = Polled(c)]
    /\ UNCHANGED open

\* An error of the stream: the task returns, and the queries of its own set
\* end with it.
Broken(c) ==
    /\ CanRead(c) /\ conn[c].kind # "udp" /\ client[c].side = "broken"
    /\ conn' = [conn EXCEPT ![c].step = "closed", ![c].ended = "broken", ![c].busy = {}, ![c].queued = <<>>]
    /\ UNCHANGED <<open, client>>

\* The queries still served are dropped with the connection.
FinishAtOnce(c) ==
    /\ conn' = [conn EXCEPT ![c].step = "closed", ![c].ended = "finished", ![c].busy = {}, ![c].queued = <<>>]
    /\ client' = [client EXCEPT ![c].got = Polled(c)]

\* What follows the end of the loop: over TCP the queries are waited for, the
\* others have none then, and answered what they had.
Finish(c) ==
    IF conn[c].busy # {} THEN
      /\ conn' = [conn EXCEPT ![c].step = "draining", ![c].queued = <<>>]
      /\ client' = [client EXCEPT ![c].got = Polled(c)]
    ELSE
      /\ conn' = [conn EXCEPT ![c].step = "closed", ![c].ended = "finished", ![c].queued = <<>>]
      /\ client' = [client EXCEPT ![c].got = Polled(c)]

\* The client sends no more, or has sent nothing for the idle time; over
\* QUIC there is no idle time here.
LoopEnds(c) ==
    /\ CanRead(c) /\ conn[c].kind # "udp" /\ client[c].wire = <<>>
    /\ client[c].side = "stopped" \/ (client[c].side = "open" /\ conn[c].kind \in {"tcp", "tls"})
    /\ Finish(c)
    /\ UNCHANGED open

\* All are served: the stream is polled once more.  A message that has come
\* meanwhile is taken from it and dropped.
LastPoll(c) ==
    /\ conn[c].step = "draining" /\ conn[c].busy = {}
    /\ conn' = [conn EXCEPT ![c].step = "closed", ![c].queued = <<>>,
                            ![c].ended = IF client[c].side = "broken" THEN "broken" ELSE "finished"]
    /\ client' = [client EXCEPT ![c].got = IF client[c].side = "broken" THEN @ ELSE Polled(c),
                                ![c].wire = IF @ = <<>> THEN @ ELSE Tail(@)]
    /\ UNCHANGED open

\* The token is cancelled: the loop ends, and its set of tasks is dropped.
Cancel ==
    /\ open
    /\ open' = FALSE
    /\ conn' = [c \in Conns |-> IF conn[c].step \in {"none", "closed"} THEN conn[c]
                  ELSE [conn[c] EXCEPT !.step = "closed", !.ended = "cancelled", !.busy = {}, !.queued = <<>>]]
    /\ UNCHANGED client

\* The listener is bound again after a reload.
Reopen ==
    /\ ~open \/ \A c \in Conns : conn[c].step = "closed"
    /\ open' = TRUE
    /\ conn' = [c \in Conns |-> NoConn]
    /\ client' = [c \in Conns |-> [sent |-> 0, wire |-> <<>>, side |-> "open", got |-> <<>>]]

ListenNext ==
    \/ \E c \in Conns :
         \/ \E kind \in ConnKinds : Accept(c, kind)
         \/ \E side \in {"stopped", "broken"} : ClientStops(c, side)
         \/ \E q \in conn[c].busy : Served(c, q)
         \/ Handshake(c) \/ ClientSends(c) \/ ReadQuery(c) \/ Flush(c) \/ Broken(c) \/ LoopEnds(c) \/ LastPoll(c)
    \/ Cancel \/ Reopen

ListenSpec == ListenInit /\ [][ListenNext]_listenVars

-----------------------------------------------------------------------------
\* A connection that ended by itself has answered every query it had read,
\* once each: a client that stops sending, or idles, loses none of them, even
\* if they were still being served.
FinishedMeansAnswered ==
    \A c \in Conns :
      (conn[c].ended \in {"finished", "full"} /\ client[c].side # "broken") =>
        Range(client[c].got) = conn[c].read /\ IsInjective(client[c].got)

==============================================================================
