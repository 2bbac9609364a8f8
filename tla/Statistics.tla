----------------------------- MODULE Statistics -----------------------------
(***************************************************************************)
(* The counters of upstream servers and the list of them that the web      *)
(* interface shows.                                                        *)
(*                                                                         *)
(* Lookups count with separate atomic additions, readers load the counters *)
(* one after another, a reload makes new servers before the old ones go,   *)
(* and an old one goes only when the last lookup through it is over.       *)
(***************************************************************************)
EXTENDS Integers, FiniteSets

CONSTANTS
  Generations,   \* servers, one per (re)load: 1..n
  LookupTasks,   \* lookups that can run at once
  Viewers,       \* requests for the statistics
  MaxCount       \* bound on the lookups counted per server

ASSUME StatisticsAssumption == Generations \in Nat \ {0} /\ MaxCount \in Nat

VARIABLES
  newest,        \* the server of the client in use
  upstream,      \* server -> [total, received, success, alive, registered, weak]
  lookups,       \* task -> [pc, server]
  view           \* viewer -> [pc, servers]

statVars == <<newest, upstream, lookups, view>>

Servers == 1..Generations
NoStats == [total |-> 0, received |-> 0, success |-> 0, alive |-> FALSE,
            registered |-> FALSE, weak |-> FALSE]
NewStats == [NoStats EXCEPT !.alive = TRUE, !.registered = TRUE, !.weak = TRUE]
Away == [pc |-> "away", server |-> 0]
Blank == [pc |-> "blank", servers |-> {}]

\* The Arcs of a server's statistics: its NameServer's, which the client in
\* use and the lookups through it keep, and those of the viewers.
InUse(s) == s = newest \/ \E t \in LookupTasks: lookups[t].server = s
Strong(s) == InUse(s) \/ \E v \in Viewers: s \in view[v].servers

Begins(u) == [u EXCEPT !.total = @ + 1]

StartLookup(t) ==
  /\ lookups[t].pc = "away"
  /\ upstream[newest].total < MaxCount
  /\ upstream' = [upstream EXCEPT ![newest] = Begins(@)]
  /\ lookups' = [lookups EXCEPT ![t] = [pc |-> "waiting", server |-> newest]]
  /\ UNCHANGED <<newest, view>>

\* The server answers, with addresses or without, or it cannot be reached.
Complete(t, reachable) ==
  /\ lookups[t].pc = "waiting"
  /\ upstream' = [upstream EXCEPT ![lookups[t].server].alive = reachable]
  /\ lookups' = [lookups EXCEPT ![t].pc = IF reachable THEN "received" ELSE "done"]
  /\ UNCHANGED <<newest, view>>

CountReceived(t) ==
  /\ lookups[t].pc = "received"
  /\ upstream' = [upstream EXCEPT ![lookups[t].server].received = @ + 1]
  /\ lookups' = [lookups EXCEPT ![t].pc = "success"]
  /\ UNCHANGED <<newest, view>>

CountSuccess(t) ==
  /\ lookups[t].pc = "success"
  /\ upstream' = [upstream EXCEPT ![lookups[t].server].success = @ + 1]
  /\ lookups' = [lookups EXCEPT ![t].pc = "done"]
  /\ UNCHANGED <<newest, view>>

(***************************************************************************)
(* A server that goes, and the new one of a reload.                        *)
(***************************************************************************)
\* Mutant: only the weak reference tells that a server is gone.
DroppedSilently(u) == u
Dropped(u) == [u EXCEPT !.registered = FALSE, !.alive = FALSE]

\* A lookup ends, dropping its server when it was the last to use it.
EndLookup(t) ==
  /\ lookups[t].pc = "done"
  /\ lookups' = [lookups EXCEPT ![t] = Away]
  /\ LET s == lookups[t].server
         last == s # newest /\ \A o \in LookupTasks \ {t}: lookups[o].server # s
     IN  upstream' = IF last THEN [upstream EXCEPT ![s] = Dropped(@)] ELSE upstream
  /\ UNCHANGED <<newest, view>>

\* Upstream::new, which forgets the servers nobody holds, and the exchange of
\* the client; the old one goes with it unless lookups still use it.
Replace ==
  /\ newest < Generations
  /\ newest' = newest + 1
  /\ upstream' = [s \in Servers |->
       CASE s = newest + 1 -> NewStats
         [] s = newest /\ ~\E t \in LookupTasks: lookups[t].server = s -> Dropped(upstream[s])
         [] OTHER -> [upstream[s] EXCEPT !.weak = @ /\ Strong(s)]]
  /\ UNCHANGED <<lookups, view>>

(***************************************************************************)
(* snapshot of the web interface.                                          *)
(***************************************************************************)
ListUpstreams(v) ==
  /\ view[v].pc = "blank"
  /\ view' = [view EXCEPT ![v] = [pc |-> "reading",
       servers |-> {s \in Servers: upstream[s].weak /\ Strong(s) /\ upstream[s].registered}]]
  /\ UNCHANGED <<newest, upstream, lookups>>

\* The counters are loaded one by one and the references let go.
EndView(v) ==
  /\ view[v].pc = "reading"
  /\ view' = [view EXCEPT ![v] = Blank]
  /\ UNCHANGED <<newest, upstream, lookups>>

StatInit ==
  /\ newest = 1
  /\ upstream = [s \in Servers |-> IF s = 1 THEN NewStats ELSE NoStats]
  /\ lookups = [t \in LookupTasks |-> Away]
  /\ view = [v \in Viewers |-> Blank]

StatNext ==
  \/ Replace
  \/ \E t \in LookupTasks:
       \/ StartLookup(t) \/ CountReceived(t) \/ CountSuccess(t) \/ EndLookup(t)
       \/ \E r \in BOOLEAN: Complete(t, r)
  \/ \E v \in Viewers:
       ListUpstreams(v) \/ EndView(v)

StatSpec == StatInit /\ [][StatNext]_statVars

(***************************************************************************)
(* Properties.                                                             *)
\* A view lists a server only while the client in use, or a lookup begun
\* before the reload, uses it, even if an earlier view still holds it.
ListedInUse ==
  [][\A v \in Viewers: ListUpstreams(v)
       => \A s \in view'[v].servers: InUse(s)]_statVars
=============================================================================
