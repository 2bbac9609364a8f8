------------------------------ MODULE DnsCache ------------------------------
(***************************************************************************)
(* The DNS answer cache (struct DnsCache of dns_mw_cache.rs).              *)
(*                                                                         *)
(* An LRU map from queries to entries, with a bound on the number of       *)
(* entries, an optional bound on the bytes charged for them, stale         *)
(* replies, prepared replies, and the mark that says that an entry is      *)
(* being refreshed.  Every operation of the code runs under the cache's    *)
(* mutex, so each one is a single action here; the callers are left free   *)
(* to issue any operation at any time.                                     *)
(*                                                                         *)
(* Time is counted in seconds.  The code reads the clock before it waits   *)
(* for the mutex, so an operation may work with a reading that is up to    *)
(* Lag seconds old, and readings may arrive out of order.  An answer       *)
(* is abstracted to its name server group, to whether it is negative       *)
(* (negative_response_ttl is Some) and to the bytes the code charges for   *)
(* it.  The TTL of a reply is the cap that get puts on the TTLs of its     *)
(* records.  Hit counters, which only order a batch of prefetches, are     *)
(* left out.                                                               *)
(***************************************************************************)
EXTENDS Integers, FiniteSets, Sequences, Absent

CONSTANTS
    Query,            \* the questions that may be asked
    IpQuery,          \* those of type A or AAAA
    Group,            \* name server groups
    Answer,           \* the answers upstream may give
    Ttl,              \* lifetimes an answer may be stored with
    SavedUntil,       \* deadlines the entries of the cache file may have
    ReplySize,        \* bytes charged for a prepared reply (TtlReply)
    Capacity,         \* cache-size
    MemoryLimit,      \* cache-mem-size, 0 when unlimited
    ServeExpired,     \* serve-expired
    ExpiredTtl,       \* serve-expired-ttl, 0 when unlimited
    ExpiredReplyTtl,  \* serve-expired-reply-ttl
    PrefetchTime,     \* prefetch_time
    Ahead,            \* how far get_expired looks ahead
    ClockFloor,       \* the earliest time an Instant can represent
    Lag,              \* how old a clock reading may be when the mutex is taken
    MaxTime           \* bound on the clock

VARIABLES
    now,     \* the clock
    cache,   \* the entry of each query, Null when there is none
    lru,     \* the cached queries, most recently used first
    usage,   \* memory_usage
    loaded,  \* the persist task has loaded the cache file
    reply    \* what the last operation returned, when it was a lookup

cacheVars == <<cache, lru, usage, loaded>>
vars == <<now, cache, lru, usage, loaded, reply>>

Entry == [group : Group, negative : BOOLEAN,
          until : Nat,                  \* valid_until
          mem : Nat,                    \* memory_usage
          busy : BOOLEAN,               \* is_in_prefetching
          retry : Nat,                  \* retry_prefetch_at, 0 when None
          replyTtl : Nat \cup {Null},   \* reply_ttl
          preparedTtl : Nat,            \* the TTL in ttl_reply's message
          preparedMem : Nat]            \* ttl_reply's charge, 0 when None

\* What matters of an entry to a client.
Fact == [group : Group, negative : BOOLEAN, until : Nat]

Reply == [query : Query, status : {"Valid", "Expired"}, ttl : Nat,
          negative : BOOLEAN, until : Nat, at : Nat]

ASSUME QueryAssumption == IsFiniteSet(Query) /\ IpQuery \subseteq Query
ASSUME NullAssumption == Null \notin Entry \cup Fact \cup Reply \cup Nat
ASSUME NumberAssumption ==
    /\ Ttl \subseteq Nat /\ SavedUntil \subseteq Nat
    /\ Answer \subseteq [group : Group, negative : BOOLEAN,
                         size : Nat \ {0}]    \* bytes charged (measure_memory)
    /\ ReplySize \in Nat \ {0}
    /\ Capacity \in Nat \ {0}
    /\ MemoryLimit \in Nat /\ ExpiredTtl \in Nat /\ ExpiredReplyTtl \in Nat
    /\ PrefetchTime \in Nat /\ Ahead \in Nat
    /\ Lag \in Nat /\ MaxTime \in Nat
    /\ ClockFloor \in Int
    /\ ServeExpired \in BOOLEAN

-----------------------------------------------------------------------------
(* The LRU list, and the bytes charged for a set of entries.               *)

SatSub(a, b) == IF a > b THEN a - b ELSE 0
Larger(a, b) == IF a > b THEN a ELSE b

Elems(s) == {s[i] : i \in 1..Len(s)}

\* s without its i-th element.
Without(s, i) == SubSeq(s, 1, i - 1) \o SubSeq(s, i + 1, Len(s))

Position(s, q) == CHOOSE i \in 1..Len(s) : s[i] = q
Distinct(s) == \A i, j \in 1..Len(s) : s[i] = s[j] => i = j

Promote(s, q) ==
    IF q \in Elems(s)
    THEN <<q>> \o Without(s, Position(s, q))
    ELSE <<q>> \o s

Held(c) == {q \in Query : c[q] # Null}
Live == Held(cache)

\* The bytes charged for the entries that c has for the queries in S, each
\* byte numbered within its entry.
Bytes(c, S) == UNION {{q} \X (1..c[q].mem) : q \in S}
Memory(c, S) == Cardinality(Bytes(c, S))

\* c restricted to the queries in S.
KeepOnly(c, S) == [q \in Query |-> IF q \in S THEN c[q] ELSE Null]

-----------------------------------------------------------------------------
(* One entry.                                                              *)

NewEntry(a, until) ==
    [group |-> a.group, negative |-> a.negative, until |-> until,
     mem |-> a.size, busy |-> FALSE, retry |-> 0, replyTtl |-> Null,
     preparedTtl |-> 0, preparedMem |-> 0]

IsCurrent(e, t) == t <= e.until
TtlAt(e, t) == SatSub(e.until, t)

\* get drops an expired entry that may not be served stale.
MustDrop(e, t) ==
    /\ ~IsCurrent(e, t)
    /\ \/ e.negative
       \/ ~ServeExpired
       \/ ExpiredTtl > 0 /\ t - e.until > ExpiredTtl

Status(e, t) == IF IsCurrent(e, t) THEN "Valid" ELSE "Expired"
ReplyTtl(e, t) == IF IsCurrent(e, t) THEN TtlAt(e, t) ELSE ExpiredReplyTtl

\* The clock readings an operation may work with.
Readings == {t \in 0..now : now - t <= Lag}

-----------------------------------------------------------------------------
Init ==
    /\ now = 0
    /\ cache = [q \in Query |-> Null]
    /\ lru = <<>>
    /\ usage = 0
    /\ loaded = FALSE
    /\ reply = Null

Tick ==
    /\ now < MaxTime
    /\ now' = now + 1
    /\ reply' = Null
    /\ UNCHANGED cacheVars

\* The loop "while usage > memory_limit { pop_lru }" over the list l of c's
\* entries, entered with u bytes in use: it stops with the n most recently
\* used entries.
LeftAfterPops(c, l, u, n) == SatSub(u, Memory(c, Elems(l) \ Elems(SubSeq(l, 1, n))))

PopLruUntilItFits(c, l, u) ==
    LET over(n) == MemoryLimit > 0 /\ LeftAfterPops(c, l, u, n) > MemoryLimit
    IN  \E n \in 0..Len(l) :
          /\ n = 0 \/ ~over(n)
          /\ \A m \in (n + 1)..Len(l) : over(m)
          /\ lru' = SubSeq(l, 1, n)
          /\ cache' = KeepOnly(c, Elems(SubSeq(l, 1, n)))
          /\ usage' = LeftAfterPops(c, l, u, n)

Replace(q, e) ==
    /\ q \in Live
    /\ PopLruUntilItFits([cache EXCEPT ![q] = e], Promote(lru, q),
                         SatSub(usage, cache[q].mem) + e.mem)

\* insert_response for a new query, with room for it.
PushFree(q, e) ==
    /\ q \notin Live
    /\ Len(lru) < Capacity
    /\ PopLruUntilItFits([cache EXCEPT ![q] = e], Promote(lru, q), usage + e.mem)

PushFull(q, e) ==
    /\ q \notin Live
    /\ Len(lru) >= Capacity
    /\ LET last == lru[Len(lru)]
       IN  PopLruUntilItFits([cache EXCEPT ![q] = e, ![last] = Null],
                             <<q>> \o SubSeq(lru, 1, Len(lru) - 1),
                             SatSub(usage + e.mem, cache[last].mem))

InsertResponse(q, a, ttl, t) ==
    LET e == NewEntry(a, t + ttl)
    IN  /\ Replace(q, e) \/ PushFree(q, e) \/ PushFull(q, e)
        /\ reply' = Null
        /\ UNCHANGED <<now, loaded>>

GetMiss(q) ==
    /\ q \notin Live
    /\ reply' = Null
    /\ UNCHANGED <<now, cacheVars>>

GetDropUncharged(q, t) ==
    /\ q \in Live
    /\ MustDrop(cache[q], t)
    /\ cache' = [cache EXCEPT ![q] = Null]
    /\ lru' = Without(lru, Position(lru, q))
    /\ reply' = Null
    /\ UNCHANGED <<now, usage, loaded>>
GetDrop(q, t) ==
    /\ q \in Live
    /\ MustDrop(cache[q], t)
    /\ cache' = [cache EXCEPT ![q] = Null]
    /\ lru' = Without(lru, Position(lru, q))
    /\ usage' = usage - cache[q].mem
    /\ reply' = Null
    /\ UNCHANGED <<now, loaded>>

ReplyTo(q, ttl, t) ==
    [query |-> q, status |-> Status(cache[q], t), ttl |-> ttl,
     negative |-> cache[q].negative, until |-> cache[q].until, at |-> t]

\* A repeated hit at the same TTL reuses the prepared reply.
ReusableAlways(e, ttl) == e.preparedMem > 0
Reusable(e, ttl) == e.replyTtl = ttl /\ e.preparedMem > 0

GetPrepared(q, t) ==
    /\ q \in Live
    /\ ~MustDrop(cache[q], t)
    /\ Reusable(cache[q], ReplyTtl(cache[q], t))
    /\ lru' = Promote(lru, q)
    /\ cache' = [cache EXCEPT ![q] = [@ EXCEPT !.replyTtl = ReplyTtl(cache[q], t)]]
    /\ reply' = ReplyTo(q, cache[q].preparedTtl, t)
    /\ UNCHANGED <<now, usage, loaded>>

Fits(total) == MemoryLimit = 0 \/ total + ReplySize <= MemoryLimit

RebuiltSliding(e, ttl, kept) ==
    [e EXCEPT !.replyTtl = ttl,
              !.until = e.until + 1,
              !.mem = e.mem - e.preparedMem + kept,
              !.preparedTtl = IF kept > 0 THEN ttl ELSE 0,
              !.preparedMem = kept]
Rebuilt(e, ttl, kept) ==
    [e EXCEPT !.replyTtl = ttl,
              !.mem = e.mem - e.preparedMem + kept,
              !.preparedTtl = IF kept > 0 THEN ttl ELSE 0,
              !.preparedMem = kept]

GetBuilt(q, t) ==
    LET e == cache[q]
        ttl == ReplyTtl(e, t)
        total == usage - e.preparedMem
        kept == IF e.replyTtl = ttl /\ Fits(total) THEN ReplySize ELSE 0
    IN  /\ q \in Live
        /\ ~MustDrop(e, t)
        /\ ~Reusable(e, ttl)
        /\ lru' = Promote(lru, q)
        /\ cache' = [cache EXCEPT ![q] = Rebuilt(e, ttl, kept)]
        /\ usage' = total + kept
        /\ reply' = ReplyTo(q, ttl, t)
        /\ UNCHANGED <<now, loaded>>

Get(q, t) == GetMiss(q) \/ GetDrop(q, t) \/ GetPrepared(q, t) \/ GetBuilt(q, t)

\* flush without its trailing save of the empty cache (module CachePersist).
Flush ==
    /\ cache' = [q \in Query |-> Null]
    /\ lru' = <<>>
    /\ usage' = 0
    /\ reply' = Null
    /\ UNCHANGED <<now, loaded>>

-----------------------------------------------------------------------------
(* Refresh marks and prefetching.                                          *)

\* The time get_expired compares lifetimes with.
CheckTime(t) ==
    LET delay == IF ServeExpired THEN PrefetchTime ELSE 0
    IN  (IF t - delay >= ClockFloor THEN t - delay ELSE t) + Ahead

Waiting(e, t) == e.retry > t

\* The entries get_expired selects, and marks.
Due(t) ==
    {q \in Live \cap IpQuery :
        /\ ~cache[q].negative
        /\ ~cache[q].busy
        /\ ~Waiting(cache[q], t)
        /\ ~IsCurrent(cache[q], CheckTime(t))}

GetExpired(t) ==
    /\ cache' = [q \in Query |-> IF q \in Due(t) THEN [cache[q] EXCEPT !.busy = TRUE]
                                              ELSE cache[q]]
    /\ reply' = Null
    /\ UNCHANGED <<now, lru, usage, loaded>>

FinishPrefetch(q, t) ==
    /\ cache' = IF q \in Live /\ cache[q].busy
                THEN [cache EXCEPT ![q] =
                        [@ EXCEPT !.busy = FALSE,
                                  !.retry = t + Larger(PrefetchTime, 1)]]
                ELSE cache
    /\ reply' = Null
    /\ UNCHANGED <<now, lru, usage, loaded>>

\* begin_refresh when it returns true; it changes nothing when it returns false.
MayBegin(q) == q \in Live /\ ~cache[q].busy

BeginRefresh(q) ==
    /\ MayBegin(q)
    /\ cache' = [cache EXCEPT ![q] = [@ EXCEPT !.busy = TRUE]]
    /\ reply' = Null
    /\ UNCHANGED <<now, lru, usage, loaded>>

EndRefresh(q) ==
    /\ cache' = IF q \in Live THEN [cache EXCEPT ![q] = [@ EXCEPT !.busy = FALSE]]
                              ELSE cache
    /\ reply' = Null
    /\ UNCHANGED <<now, lru, usage, loaded>>

-----------------------------------------------------------------------------
(* The persist task's load of the cache file, once, whenever the runtime   *)
(* first polls the task: other operations may have filled the cache by     *)
(* then.  The whole load holds the mutex.  The file has an entry for each  *)
(* query of the domain of saved, in any order.                             *)

\* The recency lists that putting the queries in S one after the other may
\* leave, before the capacity cuts them: those of S in front.
AfterPuts(S) ==
    {l \in [1..Cardinality(Live \cup S) -> Live \cup S] :
        /\ Elems(l) = Live \cup S
        /\ Distinct(l)
        /\ \A i, j \in 1..Len(l) :
              i < j => \/ l[i] \in S
                       \/ l[j] \notin S /\ Position(lru, l[i]) < Position(lru, l[j])}

\* put evicts the least recently used entry of a full cache.
Cut(l) == SubSeq(l, 1, IF Len(l) < Capacity THEN Len(l) ELSE Capacity)

WithSaved(saved) ==
    [q \in Query |-> IF q \in DOMAIN saved THEN NewEntry(saved[q][1], saved[q][2]) ELSE cache[q]]

Load(saved) ==
    /\ ~loaded
    /\ \E l \in AfterPuts(DOMAIN saved) :
          LET c == KeepOnly(WithSaved(saved), Elems(Cut(l)))
          IN  PopLruUntilItFits(c, Cut(l), Memory(c, Elems(Cut(l))))
    /\ loaded' = TRUE
    /\ reply' = Null
    /\ now' = now

-----------------------------------------------------------------------------
Next ==
    \/ Tick
    \/ \E q \in Query, a \in Answer, ttl \in Ttl, t \in Readings :
          InsertResponse(q, a, ttl, t)
    \/ \E q \in Query, t \in Readings : Get(q, t)
    \/ Flush
    \/ \E t \in Readings : GetExpired(t)
    \/ \E q \in Query, t \in Readings : FinishPrefetch(q, t)
    \/ \E q \in Query : BeginRefresh(q)
    \/ \E q \in Query : EndRefresh(q)
    \/ \E S \in SUBSET Query : \E saved \in [S -> Answer \X SavedUntil] : Load(saved)

Spec == Init /\ [][Next]_vars

-----------------------------------------------------------------------------
(* Properties.                                                             *)

\* Every variable has its type, and no subtraction of the byte counter goes
\* below zero (get uses unchecked subtractions).
TypeOK ==
    /\ now \in Nat
    /\ cache \in [Query -> Entry \cup {Null}]
    /\ lru \in Seq(Query)
    /\ usage \in Nat
    /\ loaded \in BOOLEAN
    /\ reply \in Reply \cup {Null}

\* The recency list holds exactly the cached queries, each once.
LruCoherent ==
    /\ Elems(lru) = Live
    /\ Distinct(lru)

\* memory_usage is exactly the sum of what the entries are charged, prepared
\* replies included, whatever mixture of inserts, evictions, hits, expiries,
\* flushes and a late load of the cache file came before.
UsageIsSum == usage = Memory(cache, Live)

\* The cache never holds more than cache-size entries, nor charges more than
\* cache-mem-size bytes.
WithinLimits ==
    /\ Len(lru) <= Capacity
    /\ MemoryLimit > 0 => usage <= MemoryLimit

\* A prepared reply carries the TTL of the last hit, and its bytes are part
\* of what its entry is charged.
PreparedCoherent ==
    \A q \in Live :
        /\ cache[q].preparedMem < cache[q].mem
        /\ cache[q].preparedMem > 0 => cache[q].preparedTtl = cache[q].replyTtl

\* A client told that an answer is valid is told exactly the lifetime it has
\* left, also when the reply was prepared by an earlier hit; a stale answer is
\* positive, carries serve-expired-reply-ttl, and is within serve-expired-ttl.
RepliesHonest ==
    reply # Null =>
        /\ reply.status = "Valid" =>
              reply.at <= reply.until /\ reply.ttl = reply.until - reply.at
        /\ reply.status = "Expired" =>
              /\ ServeExpired
              /\ ~reply.negative
              /\ reply.until < reply.at
              /\ ExpiredTtl > 0 => reply.at - reply.until <= ExpiredTtl
              /\ reply.ttl = ExpiredReplyTtl

\* What the cache knows, without its machinery: for each cached query, the
\* group, sign and lifetime of its answer.
Known == [q \in Query |->
            IF cache[q] = Null THEN Null
            ELSE [group |-> cache[q].group, negative |-> cache[q].negative,
                  until |-> cache[q].until]]
Store == INSTANCE AnswerStore WITH store <- Known

\* The cache implements AnswerStore: an answer comes from the last insertion
\* for its query, or from the load, and keeps the lifetime it came with,
\* whatever hits, prepared replies, marks and evictions happen in between.
ImplementsAnswerStore == Store!Spec

=============================================================================
