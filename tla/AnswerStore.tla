---------------------------- MODULE AnswerStore -----------------------------
(***************************************************************************)
(* What the answer cache promises its callers, with none of its machinery: *)
(* a store that knows at most one answer per query, the last one it was    *)
(* given, that may forget any answer at any time, may recall saved answers *)
(* once, and answers a lookup from what it knows, with a lifetime and a    *)
(* status that are right at the moment the lookup read the clock.          *)
(***************************************************************************)
EXTENDS Integers

CONSTANTS Query, Answer, Ttl, SavedUntil, ServeExpired, ExpiredTtl, ExpiredReplyTtl,
          Lag, Null

VARIABLES now, store, loaded, reply

vars == <<now, store, loaded, reply>>

Init ==
    /\ now = 0
    /\ store = [q \in Query |-> Null]
    /\ loaded = FALSE
    /\ reply = Null

Readings == {t \in 0..now : now - t <= Lag}

Elapse ==
    /\ now' = now + 1
    /\ reply' = Null
    /\ UNCHANGED <<store, loaded>>

\* Each query of S keeps its answer or loses it.
MayForget(S) == \A p \in S : store'[p] \in {store[p], Null}

\* The store is given the answer a to q, valid for ttl seconds from t; it may
\* not even keep that one.
Learn(q, a, ttl, t) ==
    /\ store' \in [Query -> {store[p] : p \in Query} \cup {Null} \cup
                     {[group |-> a.group, negative |-> a.negative, until |-> t + ttl]}]
    /\ store'[q] \in
         {Null, [group |-> a.group, negative |-> a.negative, until |-> t + ttl]}
    /\ MayForget(Query \ {q})
    /\ reply' = Null
    /\ UNCHANGED <<now, loaded>>

Forget ==
    /\ store' \in [Query -> {store[p] : p \in Query} \cup {Null}]
    /\ MayForget(Query)
    /\ reply' = Null
    /\ UNCHANGED <<now, loaded>>

\* Answers saved by an earlier process come back, in place of what is known.
SavedFact ==
    {[group |-> a.group, negative |-> a.negative, until |-> u] : a \in Answer, u \in SavedUntil}

Recall ==
    /\ ~loaded
    /\ loaded' = TRUE
    /\ store' \in [Query -> {store[p] : p \in Query} \cup {Null} \cup SavedFact]
    /\ \A p \in Query : store'[p] \in {store[p], Null} \cup SavedFact
    /\ reply' = Null
    /\ now' = now

\* What a lookup of q at time t may be told.
ValidReply(q, t) ==
    [query |-> q, status |-> "Valid", ttl |-> store[q].until - t,
     negative |-> store[q].negative, until |-> store[q].until, at |-> t]
StaleReply(q, t) ==
    [query |-> q, status |-> "Expired", ttl |-> ExpiredReplyTtl,
     negative |-> FALSE, until |-> store[q].until, at |-> t]

LookupValid(q, t) ==
    /\ store[q] # Null
    /\ t <= store[q].until
    /\ reply' = ValidReply(q, t)
    /\ UNCHANGED <<now, store, loaded>>

LookupStale(q, t) ==
    /\ store[q] # Null
    /\ ServeExpired
    /\ ~store[q].negative
    /\ store[q].until < t
    /\ ExpiredTtl > 0 => t - store[q].until <= ExpiredTtl
    /\ reply' = StaleReply(q, t)
    /\ UNCHANGED <<now, store, loaded>>

Next ==
    \/ Elapse
    \/ \E q \in Query, a \in Answer, ttl \in Ttl, t \in Readings : Learn(q, a, ttl, t)
    \/ Forget
    \/ Recall
    \/ \E q \in Query, t \in Readings : LookupValid(q, t) \/ LookupStale(q, t)

Spec == Init /\ [][Next]_vars
=============================================================================
