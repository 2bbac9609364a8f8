--------------------------- MODULE QueryDispatcher ---------------------------
(***************************************************************************)
(* Admission of queries (QueryDispatcher::send and process in app.rs,      *)
(* DnsMiddlewareHandler::search in dns_mw.rs).                             *)
(*                                                                         *)
(* A foreground query puts off the time at which the server counts as      *)
(* idle, and runs if its handler has a permit left.  A background query    *)
(* (a refresh or a prefetch) is refused when the server is idle, and       *)
(* otherwise waits in line for one of the dispatcher's permits.  A reload  *)
(* installs a new handler, with new permits, while queries run; a query    *)
(* may be cancelled wherever it awaits.                                    *)
(***************************************************************************)
EXTENDS Integers, FiniteSets, Sequences

CONSTANTS
    Slot,              \* tasks that may carry a query
    BackgroundLimit,   \* permits of background_concurrency
    QueryLimit,        \* max-query-limit, 0 when there is none
    MaxIdle,           \* MAX_IDLE_MS
    MaxHandlers,       \* bound on the handlers installed
    MaxUptime            \* bound on the clock

ASSUME LimitAssumption ==
    /\ IsFiniteSet(Slot)
    /\ BackgroundLimit \in Nat \ {0} /\ QueryLimit \in Nat /\ MaxIdle \in Nat
    /\ MaxHandlers \in Nat \ {0} /\ MaxUptime \in Nat

VARIABLES
    uptime,
    handler,     \* the number of the current handler
    free,        \* permits left in each handler's query_limit
    bgFree,      \* permits left in background_concurrency
    queue,       \* background queries that wait for one, first come first
    active,      \* active_queries
    deadline,    \* idle_deadline_ms
    query        \* what each task is doing

dispatchVars == <<uptime, handler, free, bgFree, queue, active, deadline, query>>

Handler == 1..MaxHandlers
NoQuery == [pc |-> "idle", background |-> FALSE, at |-> 0, handler |-> 1]
QueryStage == {"idle", "timed", "queued", "granted", "entered", "searching", "leaving"}

DispatchInit ==
    /\ uptime = 0
    /\ handler = 1
    /\ free = [h \in Handler |-> QueryLimit]
    /\ bgFree = BackgroundLimit
    /\ queue = <<>>
    /\ active = 0
    /\ deadline = MaxIdle
    /\ query = [s \in Slot |-> NoQuery]

QueryAt(s, pc) == query[s].pc = pc
LaterOf(a, b) == IF a > b THEN a ELSE b

-----------------------------------------------------------------------------
\* send reads the clock.
Arrive(s, background) ==
    /\ QueryAt(s, "idle")
    /\ query' = [query EXCEPT ![s] = [pc |-> "timed", background |-> background,
                                      at |-> uptime, handler |-> 1]]
    /\ UNCHANGED <<uptime, handler, free, bgFree, queue, active, deadline>>

Extend(s) ==
    /\ QueryAt(s, "timed") /\ ~query[s].background
    /\ deadline' = LaterOf(deadline, query[s].at + MaxIdle)
    /\ query' = [query EXCEPT ![s].pc = "granted"]
    /\ UNCHANGED <<uptime, handler, free, bgFree, queue, active>>

\* A background query is refused on an idle server ...
RefuseIdle(s) ==
    /\ QueryAt(s, "timed") /\ query[s].background
    /\ query[s].at >= deadline
    /\ query' = [query EXCEPT ![s] = NoQuery]
    /\ UNCHANGED <<uptime, handler, free, bgFree, queue, active, deadline>>

\* ... and else joins the queue of the semaphore.
EnqueueFirst(s) ==
    /\ QueryAt(s, "timed") /\ query[s].background
    /\ query[s].at < deadline
    /\ queue' = <<s>> \o queue
    /\ query' = [query EXCEPT ![s].pc = "queued"]
    /\ UNCHANGED <<uptime, handler, free, bgFree, active, deadline>>
Enqueue(s) ==
    /\ QueryAt(s, "timed") /\ query[s].background
    /\ query[s].at < deadline
    /\ queue' = Append(queue, s)
    /\ query' = [query EXCEPT ![s].pc = "queued"]
    /\ UNCHANGED <<uptime, handler, free, bgFree, active, deadline>>

Grant(s) ==
    /\ queue # <<>> /\ s = Head(queue)
    /\ bgFree > 0
    /\ bgFree' = bgFree - 1
    /\ queue' = Tail(queue)
    /\ query' = [query EXCEPT ![s].pc = "granted"]
    /\ UNCHANGED <<uptime, handler, free, active, deadline>>

\* The query is counted and takes the current handler along.
Enter(s) ==
    /\ QueryAt(s, "granted")
    /\ active' = active + 1
    /\ query' = [query EXCEPT ![s].pc = "entered", ![s].handler = handler]
    /\ UNCHANGED <<uptime, handler, free, bgFree, queue, deadline>>

Limited(s) == QueryLimit > 0 /\ ~query[s].background

\* search: a background query needs no permit of the handler ...
SearchFree(s) ==
    /\ QueryAt(s, "entered") /\ ~Limited(s)
    /\ query' = [query EXCEPT ![s].pc = "searching"]
    /\ UNCHANGED <<uptime, handler, free, bgFree, queue, active, deadline>>

\* ... a foreground query takes one ...
SearchLimited(s) ==
    /\ QueryAt(s, "entered") /\ Limited(s)
    /\ free[query[s].handler] > 0
    /\ free' = [free EXCEPT ![query[s].handler] = @ - 1]
    /\ query' = [query EXCEPT ![s].pc = "searching"]
    /\ UNCHANGED <<uptime, handler, bgFree, queue, active, deadline>>

\* ... or is refused.
Refuse(s) ==
    /\ QueryAt(s, "entered") /\ Limited(s)
    /\ free[query[s].handler] = 0
    /\ query' = [query EXCEPT ![s].pc = "leaving"]
    /\ UNCHANGED <<uptime, handler, free, bgFree, queue, active, deadline>>

\* process answers a message that is not a query without a search.
Reject(s) ==
    /\ QueryAt(s, "entered")
    /\ query' = [query EXCEPT ![s].pc = "leaving"]
    /\ UNCHANGED <<uptime, handler, free, bgFree, queue, active, deadline>>

\* The permit goes back to the handler it came from.
Returned(s) ==
    IF QueryAt(s, "searching") /\ Limited(s) THEN [free EXCEPT ![query[s].handler] = @ + 1]
    ELSE free
FinishSearch(s) ==
    /\ QueryAt(s, "searching")
    /\ free' = Returned(s)
    /\ query' = [query EXCEPT ![s].pc = "leaving"]
    /\ UNCHANGED <<uptime, handler, bgFree, queue, active, deadline>>

\* The guards of send are dropped.
Leave(s) ==
    /\ QueryAt(s, "leaving")
    /\ active' = active - 1
    /\ bgFree' = IF query[s].background THEN bgFree + 1 ELSE bgFree
    /\ query' = [query EXCEPT ![s] = NoQuery]
    /\ UNCHANGED <<uptime, handler, free, queue, deadline>>

CancelQueued(s) ==
    /\ QueryAt(s, "queued")
    /\ \E i \in 1..Len(queue) :
         /\ queue[i] = s
         /\ queue' = [k \in 1..(Len(queue) - 1) |-> IF k < i THEN queue[k] ELSE queue[k + 1]]
    /\ query' = [query EXCEPT ![s] = NoQuery]
    /\ UNCHANGED <<uptime, handler, free, bgFree, active, deadline>>

\* ... after it was given its permit, before it goes on ...
CancelGranted(s) ==
    /\ QueryAt(s, "granted") /\ query[s].background
    /\ bgFree' = bgFree + 1
    /\ query' = [query EXCEPT ![s] = NoQuery]
    /\ UNCHANGED <<uptime, handler, free, queue, active, deadline>>

CancelSearch(s) ==
    /\ QueryAt(s, "searching")
    /\ free' = Returned(s)
    /\ active' = active - 1
    /\ bgFree' = IF query[s].background THEN bgFree + 1 ELSE bgFree
    /\ query' = [query EXCEPT ![s] = NoQuery]
    /\ UNCHANGED <<uptime, handler, queue, deadline>>

\* A new handler: update_middleware_handler.
Install ==
    /\ handler < MaxHandlers
    /\ handler' = handler + 1
    /\ UNCHANGED <<uptime, free, bgFree, queue, active, deadline, query>>

DispatchTick ==
    /\ uptime < MaxUptime
    /\ uptime' = uptime + 1
    /\ UNCHANGED <<handler, free, bgFree, queue, active, deadline, query>>

Step(s) ==
    \/ Extend(s) \/ RefuseIdle(s) \/ Enqueue(s) \/ Grant(s) \/ Enter(s)
    \/ SearchFree(s) \/ SearchLimited(s) \/ Refuse(s) \/ Reject(s)
    \/ FinishSearch(s) \/ Leave(s)

DispatchNext ==
    \/ \E s \in Slot :
         \/ \E background \in BOOLEAN : Arrive(s, background)
         \/ Step(s)
         \/ CancelQueued(s)
         \/ CancelGranted(s)
         \/ CancelSearch(s)
    \/ Install
    \/ DispatchTick

DispatchSpec == DispatchInit /\ [][DispatchNext]_dispatchVars

\* The runtime polls every task that can go on, and every search ends, as the
\* lookups behind it have timeouts.
DispatchLiveSpec == DispatchSpec /\ \A s \in Slot : WF_dispatchVars(Step(s))

-----------------------------------------------------------------------------
(* Properties.                                                             *)

Counted == {s \in Slot : query[s].pc \in {"entered", "searching", "leaving"}}
Permitted == {s \in Slot : /\ query[s].background
                           /\ query[s].pc \in {"granted", "entered", "searching", "leaving"}}
Searching(h) == {s \in Slot : /\ QueryAt(s, "searching") /\ ~query[s].background
                              /\ query[s].handler = h}

\* The variables have their types; the counters are unsigned.
DispatchTypeOK ==
    /\ uptime \in Nat /\ handler \in Handler
    /\ free \in [Handler -> Nat] /\ bgFree \in Nat /\ active \in Nat /\ deadline \in Nat
    /\ queue \in Seq(Slot)
    /\ query \in [Slot -> [pc : QueryStage, background : BOOLEAN, at : Nat, handler : Handler]]

\* active_queries is the number of queries past the admission, also when tasks
\* are cancelled.
ActiveCounted == active = Cardinality(Counted)

\* No permit is lost or made up, in the dispatcher or in any handler, when
\* queries are refused, cancelled, or end under another handler than the one
\* that is current: never more than BackgroundLimit background queries run,
\* nor more than QueryLimit foreground queries per handler.
PermitsBalanced ==
    /\ bgFree + Cardinality(Permitted) = BackgroundLimit
    /\ QueryLimit > 0 => \A h \in Handler : free[h] + Cardinality(Searching(h)) = QueryLimit

\* The idle deadline is never earlier than MaxIdle after a foreground query
\* that was admitted, in whatever order concurrent queries store theirs.
DeadlineCovers ==
    \A s \in Slot :
        query[s].pc \in QueryStage \ {"idle", "timed"} /\ ~query[s].background
        => deadline >= query[s].at + MaxIdle

\* The queue of the semaphore has the waiting queries, each once, and these
\* are background queries.
QueueExact ==
    /\ \A s \in Slot : QueryAt(s, "queued") => query[s].background
    /\ \A s \in Slot : QueryAt(s, "queued") <=> \E i \in 1..Len(queue) : queue[i] = s
    /\ \A i, k \in 1..Len(queue) : queue[i] = queue[k] => i = k

\* A background query does not wait for ever, however many others arrive.
BackgroundServed == \A s \in Slot : QueryAt(s, "queued") ~> ~QueryAt(s, "queued")
=============================================================================
