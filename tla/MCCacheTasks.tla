---------------------------- MODULE MCCacheTasks ----------------------------
(***************************************************************************)
(* The tasks behind the cache, in two specifications.  PersistSpec has the *)
(* persist task of one handler through two starts of the process ("one"),  *)
(* or those of two handlers that share the file ("two").  WakeupSpec has   *)
(* the wakeups of the prefetch loop, for two questions ("pair") or for one *)
(* with a speed check that goes on and a lifetime that is longer than the  *)
(* loop sleeps ("checks").                                                 *)
(***************************************************************************)
EXTENDS CachePersist, PrefetchNotify, TLC

CONSTANTS a, b, x, y, z, k1

VARIABLE part

Two == INSTANCE CachePersist WITH
         Query <- {a, b}, Capacity <- 2, MemoryLimit <- 0,
         MaxHandlers <- 2, MaxInserts <- 2, MaxStarts <- 2, Job <- {}
Checks == INSTANCE PrefetchNotify WITH
            NotifyQuery <- {z}, Checker <- {k1}, Ttl <- {1, 6}, MaxTime <- 6

PersistInit ==
    /\ NotifyInit
    /\ \/ part = "one" /\ Init
       \/ part = "two" /\ Two!Init

PersistNext ==
    /\ UNCHANGED <<part, notifyVars>>
    /\ \/ part = "one" /\ Next
       \/ part = "two" /\ Two!Next

PersistSpec == PersistInit /\ [][PersistNext]_<<part, vars, notifyVars>>

WakeupInit ==
    /\ Init
    /\ \/ part = "pair" /\ NotifyInit
       \/ part = "checks" /\ Checks!NotifyInit

WakeupNext ==
    /\ UNCHANGED <<part, vars>>
    /\ \/ part = "pair" /\ NotifyNext
       \/ part = "checks" /\ Checks!NotifyNext

WakeupSpec == WakeupInit /\ [][WakeupNext]_<<part, vars, notifyVars>>

\* Two of the questions of each kind are interchangeable.
Symmetry == Permutations({a, b}) \cup Permutations({x, y})

\* While a process has one handler, a flush that found no checkpoint being
\* written has emptied the saved copy for good, restarts included.
OneHandlerFlushSticks == part = "one" => QuietFlushSticks
=============================================================================
