---------------------------- MODULE CacheRefresh ----------------------------
(***************************************************************************)
(* The tasks that refresh the answer cache, running against each other:    *)
(* client queries, the background query behind a stale reply, the deferred *)
(* speed check of a fastest-response query, and the prefetch loop          *)
(* (DnsCacheMiddleware of dns_mw_cache.rs).                                *)
(*                                                                         *)
(* The cache is DnsCache; a task holds its mutex for one operation at a    *)
(* time, so other tasks run between the insert_response, begin_refresh and *)
(* end_refresh of one task.  A client query and its speed check share a    *)
(* slot of Task, since the check is spawned by the query's last step.      *)
(***************************************************************************)
EXTENDS DnsCache

CONSTANTS
    Task,          \* slots for client and background queries and their checks
    BatchSize      \* MAX_PREFETCH_CONCURRENCY

VARIABLES
    task,          \* what each slot is doing
    prefetch       \* where each query is in the prefetch loop's batch

refreshVars == <<now, cache, lru, usage, loaded, reply, task, prefetch>>

Idle == [pc |-> "idle"]

\* A running query or speed check.  "same" says that the entry it marked is
\* still the one in the cache (a history variable; the code has none).
Running ==
    [pc : {"asking", "marking", "checking", "releasing"}, query : Query,
     group : Group, background : BOOLEAN, same : BOOLEAN]

Stage == {"none", "queued", "asking", "finishing"}

ASSUME TaskAssumption == IsFiniteSet(Task) /\ BatchSize \in Nat \ {0}

RefreshInit ==
    /\ Init
    /\ task = [i \in Task |-> Idle]
    /\ prefetch = [q \in Query |-> "none"]

-----------------------------------------------------------------------------
(* Bookkeeping.                                                            *)

On(i, pc) == task[i].pc = pc

\* A step that leaves the cache alone.
Unused == reply' = Null /\ UNCHANGED <<now, cacheVars>>

\* Slot i moves to r.  Tasks lose "same" for the queries in replaced, and for
\* those whose entry this step removes.
Move(i, r, replaced) ==
    task' = [j \in Task |->
               LET s == IF j = i THEN r ELSE task[j]
               IN  IF s.pc = "checking" /\ (s.query \in replaced \/ s.query \notin Live')
                   THEN [s EXCEPT !.same = FALSE] ELSE s]

Asking(q, g, background) ==
    [pc |-> "asking", query |-> q, group |-> g, background |-> background,
     same |-> FALSE]

\* An answer for q enters the cache under group g.
CacheAnswer(q, g, negative) ==
    \E a \in Answer, ttl \in Ttl :
        /\ a.group = g
        /\ a.negative = negative
        /\ negative => ttl > 0
        /\ InsertResponse(q, a, ttl, now)

-----------------------------------------------------------------------------
(* A client query, up to its upstream lookup.                              *)

Hit(q, g) == q \in Live /\ ~MustDrop(cache[q], now) /\ cache[q].group = g

\* The cached answer is valid: the query ends.
ServeValid(q, g) ==
    /\ Hit(q, g)
    /\ IsCurrent(cache[q], now)
    /\ Get(q, now)
    /\ UNCHANGED <<task, prefetch>>

\* It is stale: the client gets it, and a background query is spawned.
ServeStale(i, q, g) ==
    /\ On(i, "idle")
    /\ Hit(q, g)
    /\ ~IsCurrent(cache[q], now)
    /\ Get(q, now)
    /\ Move(i, Asking(q, g, TRUE), {})
    /\ UNCHANGED prefetch

\* A miss, an answer of another group, or a stale one the client may not have
\* (no-serve-expired): the query goes upstream.
AskUpstream(i, q, g) ==
    /\ On(i, "idle")
    /\ ~(Hit(q, g) /\ IsCurrent(cache[q], now))
    /\ Get(q, now)
    /\ Move(i, Asking(q, g, FALSE), {})
    /\ UNCHANGED prefetch

-----------------------------------------------------------------------------
(* The answer from upstream.                                               *)

\* An error, or an answer that is not cached.
LookupFails(i) ==
    /\ On(i, "asking")
    /\ Unused
    /\ Move(i, Idle, {})
    /\ UNCHANGED prefetch

\* A negative answer, or a positive one without a deferred speed check.
LookupCached(i) ==
    /\ On(i, "asking")
    /\ \E negative \in BOOLEAN : CacheAnswer(task[i].query, task[i].group, negative)
    /\ Move(i, Idle, {task[i].query})
    /\ UNCHANGED prefetch

\* The first answer of a fastest-response query; only client queries defer
\* their speed check.
LookupCachedFirst(i) ==
    /\ On(i, "asking")
    /\ ~task[i].background
    /\ CacheAnswer(task[i].query, task[i].group, FALSE)
    /\ Move(i, [task[i] EXCEPT !.pc = "marking"], {task[i].query})
    /\ UNCHANGED prefetch

\* finish_speed_check, when begin_refresh returns true and when it does not.
StartCheck(i) ==
    /\ On(i, "marking")
    /\ BeginRefresh(task[i].query)
    /\ Move(i, [task[i] EXCEPT !.pc = "checking", !.same = TRUE], {})
    /\ UNCHANGED prefetch

SkipCheck(i) ==
    /\ On(i, "marking")
    /\ ~MayBegin(task[i].query)
    /\ Unused
    /\ Move(i, Idle, {})
    /\ UNCHANGED prefetch

\* The check replaces the entry, or fails (also on a bogus address).
CheckStores(i) ==
    /\ On(i, "checking")
    /\ CacheAnswer(task[i].query, task[i].group, FALSE)
    /\ Move(i, [task[i] EXCEPT !.pc = "releasing"], {task[i].query})
    /\ UNCHANGED prefetch

CheckFails(i) ==
    /\ On(i, "checking")
    /\ Unused
    /\ Move(i, [task[i] EXCEPT !.pc = "releasing"], {})
    /\ UNCHANGED prefetch

ReleaseNothing(i) ==
    /\ On(i, "releasing")
    /\ Unused
    /\ Move(i, Idle, {})
    /\ UNCHANGED prefetch
Release(i) ==
    /\ On(i, "releasing")
    /\ EndRefresh(task[i].query)
    /\ Move(i, Idle, {})
    /\ UNCHANGED prefetch

-----------------------------------------------------------------------------
(* The prefetch loop: one batch at a time, in chunks of BatchSize.         *)

In(stages) == {q \in Query : prefetch[q] \in stages}

CheckExpired ==
    /\ In(Stage \ {"none"}) = {}
    /\ GetExpired(now)
    /\ prefetch' = [q \in Query |-> IF q \in Due(now) THEN "queued" ELSE "none"]
    /\ task' = task

AdmitChunk ==
    /\ In({"asking", "finishing"}) = {}
    /\ \E chunk \in SUBSET In({"queued"}) :
          /\ chunk # {}
          /\ Cardinality(chunk) <= BatchSize
          /\ Cardinality(chunk) < BatchSize => chunk = In({"queued"})
          /\ prefetch' = [q \in Query |-> IF q \in chunk THEN "asking" ELSE prefetch[q]]
    /\ Unused
    /\ task' = task

\* The background query of a prefetch: answered and cached, or not.
PrefetchStores(q) ==
    /\ prefetch[q] = "asking"
    /\ \E g \in Group, negative \in BOOLEAN : CacheAnswer(q, g, negative)
    /\ prefetch' = [prefetch EXCEPT ![q] = "finishing"]
    /\ task' = [j \in Task |->
                  IF task[j].pc = "checking" /\ (task[j].query = q \/ task[j].query \notin Live')
                  THEN [task[j] EXCEPT !.same = FALSE] ELSE task[j]]

PrefetchFails(q) ==
    /\ prefetch[q] = "asking"
    /\ prefetch' = [prefetch EXCEPT ![q] = "finishing"]
    /\ Unused
    /\ task' = task

PrefetchDoneMarked(q) ==
    /\ prefetch[q] = "finishing"
    /\ Unused
    /\ prefetch' = [prefetch EXCEPT ![q] = "none"]
    /\ task' = task
PrefetchDone(q) ==
    /\ prefetch[q] = "finishing"
    /\ FinishPrefetch(q, now)
    /\ prefetch' = [prefetch EXCEPT ![q] = "none"]
    /\ task' = task

-----------------------------------------------------------------------------
Elapse == Tick /\ UNCHANGED <<task, prefetch>>

FlushAll ==
    /\ Flush
    /\ task' = [j \in Task |-> IF On(j, "checking") THEN [task[j] EXCEPT !.same = FALSE]
                                                   ELSE task[j]]
    /\ prefetch' = prefetch

LoadSaved ==
    /\ \E S \in SUBSET Query : \E saved \in [S -> Answer \X SavedUntil] :
          /\ Load(saved)
          /\ task' = [j \in Task |->
                        IF On(j, "checking") /\ (task[j].query \in S \/ task[j].query \notin Live')
                        THEN [task[j] EXCEPT !.same = FALSE] ELSE task[j]]
    /\ prefetch' = prefetch

Finish(i) ==
    \/ LookupFails(i) \/ LookupCached(i) \/ LookupCachedFirst(i)
    \/ StartCheck(i) \/ SkipCheck(i)
    \/ CheckStores(i) \/ CheckFails(i) \/ Release(i)

PrefetchStep(q) == PrefetchStores(q) \/ PrefetchFails(q) \/ PrefetchDone(q)

RefreshNext ==
    \/ Elapse
    \/ FlushAll
    \/ LoadSaved
    \/ \E q \in Query, g \in Group : ServeValid(q, g)
    \/ \E i \in Task, q \in Query, g \in Group : ServeStale(i, q, g) \/ AskUpstream(i, q, g)
    \/ \E i \in Task : Finish(i)
    \/ CheckExpired
    \/ AdmitChunk
    \/ \E q \in Query : PrefetchStep(q)

\* Upstream lookups and speed checks end: every one of them has a timeout.
\* Nothing is assumed of the clients, of the clock or of the prefetch timer.
RefreshFairness ==
    /\ \A i \in Task : WF_refreshVars(Finish(i))
    /\ WF_refreshVars(AdmitChunk)
    /\ \A q \in Query : WF_refreshVars(PrefetchStep(q))

RefreshSpec == RefreshInit /\ [][RefreshNext]_refreshVars /\ RefreshFairness

-----------------------------------------------------------------------------
(* Properties.                                                             *)

\* An entry is only marked as being refreshed while some speed check or
\* prefetch of its query is under way: no path leaves the mark behind, which
\* would keep the entry out of prefetching until it is replaced.
MarkOwned ==
    \A q \in Live : cache[q].busy =>
        \/ prefetch[q] # "none"
        \/ \E i \in Task : task[i].pc \in {"checking", "releasing"} /\ task[i].query = q

\* Every mark is eventually released, whichever task fails.
\* Also the entries that wait behind a full chunk of slow or failing lookups.
MarksReleased == \A q \in Query : []<>(q \notin Live \/ ~cache[q].busy)

\* While the refresh that marked the present entry runs, the entry stays
\* marked, so that no second refresh starts for it.
MarkHeld ==
    \A i \in Task : On(i, "checking") /\ task[i].same => cache[task[i].query].busy
=============================================================================
