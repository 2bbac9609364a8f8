--------------------------- MODULE MCCacheRefresh ---------------------------
(***************************************************************************)
(* Small instances of the answer cache, one part at a time: its operations *)
(* in any order, called by nobody in particular, with late readings of the *)
(* clock and room for one entry ("alone"); the same with little memory     *)
(* ("memory": the large answer never fits, a small one does with its       *)
(* prepared reply or with a second one); and the tasks that refresh the    *)
(* cache ("tasks": two of them and the prefetch loop).                     *)
(***************************************************************************)
EXTENDS CacheRefresh, TLC

CONSTANT g

A(n, s) == [group |-> g, negative |-> n, size |-> s]
BothSigns == {A(FALSE, 1), A(TRUE, 1)}
OnePositive == {A(FALSE, 1)}

VARIABLE part

Small == INSTANCE DnsCache WITH
           Answer <- {A(FALSE, 1), A(FALSE, 4)}, Ttl <- {0}, Capacity <- 2,
           MemoryLimit <- 3, Lag <- 0, MaxTime <- 2
Tasks == INSTANCE CacheRefresh WITH
           ReplySize <- 1, MemoryLimit <- 1, PrefetchTime <- 0, MaxTime <- 2

\* The marks of a cache without tasks belong to its free callers, a prefetch of
\* every question that never ends: MarkOwned is about "tasks".
CachesInit ==
    \/ part = "tasks" /\ RefreshInit
    \/ /\ part \in {"alone", "memory"} /\ Init
       /\ task = [i \in Task |-> Idle]
       /\ prefetch = [q \in Query |-> "asking"]

CachesNext ==
    /\ UNCHANGED part
    /\ \/ part = "alone" /\ Next /\ UNCHANGED <<task, prefetch>>
       \/ part = "memory" /\ Small!Next /\ UNCHANGED <<task, prefetch>>
       \/ part = "tasks" /\ Tasks!RefreshNext

CachesSpec == CachesInit /\ [][CachesNext]_<<part, refreshVars>>

\* The tasks with the constants as they are.
TasksSpec ==
    part = "tasks" /\ RefreshInit /\ [][RefreshNext /\ UNCHANGED part]_<<part, refreshVars>>

\* The questions are interchangeable, and so are the tasks.
Symmetry == Permutations(Query) \cup Permutations(Task)
=============================================================================
