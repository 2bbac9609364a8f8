--------------------------- MODULE PrefetchNotify ---------------------------
(***************************************************************************)
(* When the prefetch loop wakes up (start_prefetching, get_expired and     *)
(* DomainPrefetchingNotify of dns_mw_cache.rs).                            *)
(*                                                                         *)
(* The loop sleeps on a Notify, which keeps one permit.  Everybody who     *)
(* stores an answer, and the loop itself after each round, calls           *)
(* notify_after: it reads the time of the next wakeup, gives up when that  *)
(* is soon enough, and otherwise overwrites it and spawns a task that      *)
(* sleeps and then notifies.  Other tasks run between the read and the     *)
(* write, and no sleeper is ever cancelled.                                *)
(*                                                                         *)
(* An answer may be served before its speed check is over.  The check's    *)
(* task then marks the entry, which get_expired passes over while it is    *)
(* marked, and ends with a better answer or with nothing.                  *)
(*                                                                         *)
(* Time passes only when no task can run: tasks are scheduled promptly,    *)
(* and a batch of prefetches takes at most MaxBatch; a speed check takes   *)
(* any time.  An entry is reduced to what get_expired looks at; Other      *)
(* stands for entries it passes over (negative answers and record types    *)
(* that are not prefetched).                                               *)
(***************************************************************************)
EXTENDS Integers, FiniteSets, Functions, Absent

CONSTANTS
    NotifyQuery,    \* questions whose answers are prefetched
    Other,          \* no such question
    Caller,         \* tasks that store answers
    Checker,        \* tasks of speed checks that outlive their query
    Ttl,            \* lifetimes
    Delay,          \* prefetch_time with serve-expired, else 0
    ClockFloor,     \* the earliest time an Instant can represent
    Ahead,          \* how far the check looks ahead
    Retry,          \* what a failed prefetch waits, prefetch_time.max(1)
    MinInterval,    \* PREFETCH_MIN_INTERVAL, at least 1 here
    MaxTtl,         \* MAX_TTL
    MaxBatch,       \* bound on the time a batch takes
    MaxSleepers,    \* bound on the sleeping tasks
    MaxTime         \* bound on the clock

VARIABLES
    now,
    entry,          \* the answers in the cache; asked and freed are for the properties
    tick,           \* when the next wakeup is thought to happen
    permit,         \* the Notify's permit
    sleepers,       \* wakeup times of the spawned tasks
    caller,         \* where each task is in notify_after
    probe,          \* the speed check of each of its tasks
    loop,           \* where the prefetch loop is
    batch           \* what it is prefetching

notifyVars == <<now, entry, tick, permit, sleepers, caller, probe, loop, batch>>

Larger(x, y) == IF x > y THEN x ELSE y
Least(S) == CHOOSE x \in S : \A y \in S : x <= y

\* The sleeping tasks, counted by the time they wake up at: one more, one less.
OneMore(tasks, t) ==
    [x \in DOMAIN tasks \cup {t} |->
        (IF x \in DOMAIN tasks THEN tasks[x] ELSE 0) + (IF x = t THEN 1 ELSE 0)]
OneLess(tasks, t) ==
    [x \in {y \in DOMAIN tasks : y # t \/ tasks[y] > 1} |->
        tasks[x] - (IF x = t THEN 1 ELSE 0)]

NoCall == [pc |-> "idle", wait |-> 0, next |-> 0]
Call(wait) == [pc |-> "reading", wait |-> wait, next |-> 0]

ASSUME PrefetchAssumption ==
    /\ Ttl \subseteq Nat /\ {Delay, Ahead, MaxTtl, MaxBatch, MaxSleepers, MaxTime} \subseteq Nat
    /\ Retry \in Nat \ {0} /\ MinInterval \in Nat \ {0} /\ ClockFloor \in Int
    /\ Other \notin NotifyQuery /\ Null \notin Checker /\ Caller \cap Checker = {}

NotifyInit ==
    /\ now = 0
    /\ entry = [q \in NotifyQuery |-> Null]
    /\ tick = 0
    /\ permit = FALSE
    /\ sleepers = [t \in {} |-> 0]
    /\ caller = [c \in Caller \cup Checker |-> NoCall]
    /\ probe = [k \in Checker |-> Null]
    /\ loop = [call |-> NoCall, pc |-> "waiting", lastCheck |-> 0, recent |-> 0, until |-> 0]
    /\ batch = {}

-----------------------------------------------------------------------------
(* notify_after, in the segments between which other tasks run.            *)

NotifiesAtOnce(call) == call.pc = "reading" /\ call.wait = 0

\* A wakeup is pending, and no later than this call wants it.
CoveredIfPending(call) == tick > now
Covered(call) == tick > now /\ now + call.wait > tick

Reads(call) == call.pc = "reading" /\ call.wait > 0
AfterRead(call) ==
    IF Covered(call) THEN NoCall
    ELSE [call EXCEPT !.pc = "writing", !.next = now + call.wait]

Writes(call) ==
    /\ call.pc = "writing"
    /\ tick' = call.next
    /\ sleepers' = OneMore(sleepers, now + call.wait)

-----------------------------------------------------------------------------
(* Tasks that store answers: insert_response, then begin_refresh when the  *)
(* speed check goes on, then notify_after.                                 *)

\* The speed check to go on with, if any.
NewProbe(q) == {Null} \cup {k \in Checker : q # Other /\ probe[k] = Null}

MayStore == FoldFunction(LAMBDA n, m : n + m, 0, sleepers) < MaxSleepers

\* insert_response, and begin_refresh, which finds the new entry unmarked.
Stores(q, ttl, k, asks) ==
    /\ entry' = IF q = Other THEN entry
                ELSE [entry EXCEPT ![q] = [until |-> now + ttl, busy |-> k # Null, retry |-> 0,
                                           asked |-> asks, freed |-> 0]]
    /\ probe' = IF k = Null THEN probe
                ELSE [probe EXCEPT ![k] = [query |-> q, stored |-> FALSE]]

NotifyInsert(c, q, ttl, k) ==
    /\ caller[c].pc = "idle"
    /\ MayStore
    /\ Stores(q, ttl, k, TRUE)
    /\ caller' = [caller EXCEPT ![c] = Call(ttl)]
    /\ UNCHANGED <<now, tick, permit, sleepers, loop, batch>>

\* An answer nobody asks a wakeup for: one loaded from the file, or one whose
\* query is dropped while it waits for a lock of notify_after.
StoreUnasked(q, ttl, k) ==
    /\ Stores(q, ttl, k, FALSE)
    /\ UNCHANGED <<now, tick, permit, sleepers, caller, loop, batch>>

\* The speed check ends with an answer, for which it asks a wakeup too ...
CheckStores(k, ttl) ==
    /\ probe[k] # Null /\ ~probe[k].stored
    /\ MayStore
    /\ entry' = [entry EXCEPT ![probe[k].query] =
                   [until |-> now + ttl, busy |-> FALSE, retry |-> 0, asked |-> TRUE, freed |-> 0]]
    /\ probe' = [probe EXCEPT ![k].stored = TRUE]
    /\ caller' = [caller EXCEPT ![k] = Call(ttl)]
    /\ UNCHANGED <<now, tick, permit, sleepers, loop, batch>>

\* ... or without one; either way, end_refresh clears the mark, whoever set it.
EndRefresh(k) ==
    /\ probe[k] # Null /\ caller[k].pc = "idle"
    /\ LET q == probe[k].query
       IN  entry' = IF entry[q] # Null /\ entry[q].busy
                    THEN [entry EXCEPT ![q].busy = FALSE, ![q].freed = now]
                    ELSE entry
    /\ probe' = [probe EXCEPT ![k] = Null]
    /\ UNCHANGED <<now, tick, permit, sleepers, caller, loop, batch>>

CallerNotifies(c) ==
    /\ NotifiesAtOnce(caller[c])
    /\ permit' = TRUE
    /\ caller' = [caller EXCEPT ![c] = NoCall]
    /\ UNCHANGED <<now, entry, tick, sleepers, loop, batch, probe>>

CallerReads(c) ==
    /\ Reads(caller[c])
    /\ caller' = [caller EXCEPT ![c] = AfterRead(@)]
    /\ UNCHANGED <<now, entry, tick, permit, sleepers, loop, batch, probe>>

CallerWrites(c) ==
    /\ Writes(caller[c])
    /\ caller' = [caller EXCEPT ![c] = NoCall]
    /\ UNCHANGED <<now, entry, permit, loop, batch, probe>>

\* An entry is evicted, dropped or flushed.
ForgetOne(q) ==
    /\ entry[q] # Null
    /\ entry' = [entry EXCEPT ![q] = Null]
    /\ UNCHANGED <<now, tick, permit, sleepers, caller, probe, loop, batch>>

\* A sleeper's time has come: notify_one.
Wake(t) ==
    /\ t \in DOMAIN sleepers
    /\ t <= now
    /\ sleepers' = OneLess(sleepers, t)
    /\ permit' = TRUE
    /\ UNCHANGED <<now, entry, tick, caller, probe, loop, batch>>

-----------------------------------------------------------------------------
(* The prefetch loop.                                                      *)

CheckTime == (IF now - Delay >= ClockFloor THEN now - Delay ELSE now) + Ahead

Waiting(q) == entry[q] # Null /\ ~entry[q].busy
Retrying(q) == Waiting(q) /\ entry[q].retry > now
Current(q) == Waiting(q) /\ ~Retrying(q) /\ CheckTime <= entry[q].until
Expired == {q \in NotifyQuery : Waiting(q) /\ ~Retrying(q) /\ ~Current(q)}

\* most_recent: how long the loop may sleep for the entries it passes over.
MostRecent ==
    Least({MaxTtl} \cup {entry[q].retry - now : q \in {p \in NotifyQuery : Retrying(p)}}
                   \cup {entry[q].until - CheckTime : q \in {p \in NotifyQuery : Current(p)}})

\* It is notified, long enough after the last check: get_expired.
Check ==
    /\ loop.pc = "waiting" /\ loop.call.pc = "idle"
    /\ permit
    /\ permit' = FALSE
    /\ now - loop.lastCheck > MinInterval
    /\ batch' = Expired
    /\ entry' = [q \in NotifyQuery |->
                   CASE entry[q] = Null -> Null
                     [] q \in Expired -> [entry[q] EXCEPT !.busy = TRUE, !.asked = TRUE]
                     [] OTHER -> [entry[q] EXCEPT !.asked = TRUE]]
    /\ loop' = [loop EXCEPT !.pc = "prefetching", !.lastCheck = now,
                            !.recent = MostRecent, !.until = now + MaxBatch]
    /\ UNCHANGED <<now, tick, sleepers, caller, probe>>

\* It is notified too soon.
SkipCheck ==
    /\ loop.pc = "waiting" /\ loop.call.pc = "idle"
    /\ permit
    /\ permit' = FALSE
    /\ now - loop.lastCheck <= MinInterval
    /\ loop' = [loop EXCEPT !.call = Call(MinInterval)]
    /\ UNCHANGED <<now, entry, tick, sleepers, caller, probe, batch>>

\* One prefetch is over; if it stored no answer, it waits for its next try.
FinishPrefetch(q) ==
    /\ q \in batch
    /\ batch' = batch \ {q}
    /\ entry' = IF entry[q] # Null /\ entry[q].busy
                THEN [entry EXCEPT ![q].busy = FALSE, ![q].retry = now + Retry]
                ELSE entry
    /\ UNCHANGED <<now, tick, permit, sleepers, caller, probe, loop>>

BatchDone ==
    /\ loop.pc = "prefetching"
    /\ batch = {}
    /\ loop' = [loop EXCEPT !.pc = "waiting", !.call = Call(Larger(loop.recent, MinInterval)),
                            !.recent = 0, !.until = 0]
    /\ UNCHANGED <<now, entry, tick, permit, sleepers, caller, probe, batch>>

LoopReads ==
    /\ Reads(loop.call)
    /\ loop' = [loop EXCEPT !.call = AfterRead(@)]
    /\ UNCHANGED <<now, entry, tick, permit, sleepers, caller, probe, batch>>

LoopWrites ==
    /\ Writes(loop.call)
    /\ loop' = [loop EXCEPT !.call = NoCall]
    /\ UNCHANGED <<now, entry, permit, caller, probe, batch>>

-----------------------------------------------------------------------------
\* Nobody can run: the clock moves on.
Tick ==
    /\ now < MaxTime
    /\ \A c \in Caller \cup Checker : caller[c].pc = "idle"
    /\ \A k \in Checker : probe[k] # Null => ~probe[k].stored
    /\ loop.call.pc = "idle"
    /\ \A t \in DOMAIN sleepers : t > now
    /\ loop.pc = "waiting" => ~permit
    /\ loop.pc = "prefetching" => batch # {} /\ now < loop.until
    /\ now' = now + 1
    /\ UNCHANGED <<entry, tick, permit, sleepers, caller, probe, loop, batch>>

NotifyNext ==
    \/ \E q \in NotifyQuery \cup {Other}, ttl \in Ttl :
         \E k \in NewProbe(q), c \in Caller : NotifyInsert(c, q, ttl, k)
    \/ \E q \in NotifyQuery, ttl \in Ttl : \E k \in NewProbe(q) : StoreUnasked(q, ttl, k)
    \/ \E k \in Checker : EndRefresh(k) \/ \E ttl \in Ttl : CheckStores(k, ttl)
    \/ \E c \in Caller \cup Checker : CallerNotifies(c) \/ CallerReads(c) \/ CallerWrites(c)
    \/ \E q \in NotifyQuery : ForgetOne(q) \/ FinishPrefetch(q)
    \/ \E t \in DOMAIN sleepers : Wake(t)
    \/ Check \/ SkipCheck \/ BatchDone
    \/ LoopReads \/ LoopWrites
    \/ Tick

NotifySpec == NotifyInit /\ [][NotifyNext]_notifyVars

-----------------------------------------------------------------------------
(* Properties.                                                             *)

Slack == MaxBatch + 2 * MinInterval

\* An entry falls due Delay after it expires, less what the check looks ahead,
\* but not before it expires, for which time its insertion asked.
Ripe(q) == entry[q].until + Larger(Delay - Ahead, 0)
RetriedBy(q) == IF entry[q].retry = 0 THEN 0
                ELSE entry[q].retry - Retry + Larger(MaxTtl, Retry)
FreedBy(q) == IF entry[q].freed = 0 THEN 0 ELSE entry[q].freed + MaxTtl

\* Every answer that is to be prefetched is selected by a check in time: at
\* most Slack after it falls due, however the wakeups asked for by the tasks
\* that store answers and by the loop itself get merged.  This is so from the
\* time somebody has asked for a wakeup, or the loop has looked at it.  Nobody
\* asks for one when a prefetch fails or a speed check ends without an answer:
\* the entry may then wait until MAX_TTL after that, but no longer.
SelectedInTime ==
    \A q \in DOMAIN entry : Waiting(q) /\ entry[q].asked =>
        now <= Larger(Ripe(q), Larger(RetriedBy(q), FreedBy(q))) + Slack

\* As the comment of end_refresh has it, a speed check that ends without an
\* answer does not delay the next prefetch: an entry that is due by then is
\* selected at most Slack later.
FailedCheckDelaysNothing ==
    \A q \in DOMAIN entry : Waiting(q) /\ entry[q].asked /\ entry[q].retry = 0 =>
        now <= Larger(Ripe(q), entry[q].freed) + Slack
=============================================================================
