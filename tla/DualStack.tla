------------------------------ MODULE DualStack ------------------------------
(***************************************************************************)
(* Dual-stack selection (dns_mw_dualstack.rs).  A client asks for a name's  *)
(* A and AAAA records.  Each question looks up both families at once; if    *)
(* the other family is reached faster by more than the threshold, or is     *)
(* preferred, the question is answered "no records" (suppressed) so that    *)
(* the client uses the other family.  The two questions decide on their     *)
(* own, from lookups and probes that end in any order.                      *)
(*                                                                         *)
(* Time is counted in ticks; a tick passes only when no timer is due.  The  *)
(* network is stable while a pair of questions is answered: every probe of  *)
(* a family by one mode gives the same result.                              *)
(***************************************************************************)
EXTENDS Integers, FiniteSets, FiniteSetsExt, Absent

CONSTANTS
  Threshold,    \* dualstack-ip-selection-threshold, in ticks
  Window,       \* how long one probe mode is waited for
  Latencies,    \* round-trip times in ticks, below Window
  Modes,        \* the number of configured speed-check modes
  Setups        \* the configurations

ASSUME DualAssumption ==
  /\ Threshold \in Nat /\ Window \in Nat \ {0} /\ Modes \in Nat
  /\ Latencies \subseteq 1..(Window - 1)
  /\ Null # "none"

Refused == 0          \* the probe fails at once
Silent == Window      \* nothing comes back within the window

Families == {"A", "AAAA"}
Other(f) == IF f = "A" THEN "AAAA" ELSE "A"

VARIABLES
  setup,        \* prefer: dualstack-ip-prefer-ipv4; force: allow-force-AAAA;
                \* probes: some speed-check mode is usable
  net,          \* per family and mode: a latency, Refused or Silent
  step,         \* per question: where its handler stands
  own,          \* per question: the answer to it, Null before it arrives
  that,         \* per question: the answer of the other family's lookup
  wait,         \* per question: ticks left on its timer or its probes
  out           \* per question: "answer", "none" or "error" once replied

dualVars == <<setup, net, step, own, that, wait, out>>

-----------------------------------------------------------------------------
(* Probing (multi_mode_ping_fastest).                                      *)

\* The modes are tried in turn: an error moves on at once, silence after the
\* window, and the first reply ends it.
Probe(f) ==
  LET hits == {m \in 1..Modes : net[f][m] \in Latencies}
      silence(k) == Window * Cardinality({m \in 1..k : net[f][m] = Silent})
  IN  IF hits = {} THEN [rtt |-> Null, took |-> silence(Modes)]
      ELSE [rtt |-> net[f][Min(hits)], took |-> silence(Min(hits)) + net[f][Min(hits)]]

Unprobed == [rtt |-> Null, took |-> 0]

\* The probe of an answer: no addresses, nothing to wait for.
ProbeOf(f, a) == IF a.addrs THEN Probe(f) ELSE Unprobed

\* The answers a lookup may end with.  An upstream group that checks speed
\* itself has already measured the addresses it returns.
Results(f) ==
  {[ok |-> FALSE, addrs |-> FALSE, probe |-> "unchecked"],
   [ok |-> TRUE, addrs |-> FALSE, probe |-> "unchecked"],
   [ok |-> TRUE, addrs |-> TRUE, probe |-> "unchecked"],
   [ok |-> TRUE, addrs |-> TRUE,
    probe |-> IF Probe(f).rtt = Null THEN "failed" ELSE "measured"]}

-----------------------------------------------------------------------------
(* which_faster.                                                           *)

\* Mutant: the difference is taken either way round.
SlowerEitherWay(a, b) == a - b > Threshold \/ b - a > Threshold

Slower(a, b) == a - b > Threshold

\* [other, took]: whether the other family is faster, and how long it takes
\* to find out.  Without both results at hand, both are probed; the one that
\* finishes first decides whether the other is waited for.
WhichFaster(f) ==
  LET mine == own[f].probe
      theirs == that[f].probe
      p == ProbeOf(f, own[f])
      q == ProbeOf(Other(f), that[f])
  IN  CASE mine = "measured" /\ theirs = "measured" ->
             [other |-> Slower(p.rtt, q.rtt), took |-> 0]
        [] mine = "failed" /\ theirs = "measured" -> [other |-> TRUE, took |-> 0]
        [] mine = "measured" /\ theirs = "failed" -> [other |-> FALSE, took |-> 0]
        [] OTHER ->
             IF q.took < p.took /\ q.rtt # Null
             THEN [other |-> p.rtt = Null \/ Slower(p.rtt, q.rtt), took |-> p.took]
             ELSE [other |-> FALSE,
                   took |-> IF p.took <= q.took THEN p.took ELSE q.took]

\* ipv4_usable, and the probe it takes.
Ipv4Usable(a) ==
  IF ~a.ok \/ ~a.addrs \/ a.probe = "failed" THEN [is |-> FALSE, took |-> 0]
  ELSE IF a.probe = "unchecked" /\ setup.probes
  THEN [is |-> Probe("A").rtt # Null, took |-> Probe("A").took]
  ELSE [is |-> TRUE, took |-> 0]

-----------------------------------------------------------------------------
\* A mode behind one that is answered is never tried, and counts as Refused.
\* A refused mode takes no time, so it may as well come last.
Networks ==
  LET Path == {p \in [1..Modes -> Latencies \cup {Refused, Silent}] :
                 \A m \in 1..Modes : p[m] # Silent =>
                   \A k \in (m + 1)..Modes : p[k] = Refused}
  IN  [Families -> Path]

\* handle: which questions are selected at all.
Selects(f) ==
  IF setup.prefer THEN f = "AAAA"
  ELSE setup.probes /\ (f = "AAAA" \/ setup.force)

DualInit ==
  /\ setup \in Setups
  /\ net \in Networks
  /\ step = [f \in Families |-> "race"]
  /\ own = [f \in Families |-> Null]
  /\ that = [f \in Families |-> Null]
  /\ wait = [f \in Families |-> 0]
  /\ out = [f \in Families |-> Null]

Finish(f, what) ==
  /\ out' = [out EXCEPT ![f] = what]
  /\ step' = [step EXCEPT ![f] = "done"]
  /\ wait' = [wait EXCEPT ![f] = 0]

Sleep(f, where, ticks) ==
  /\ step' = [step EXCEPT ![f] = where]
  /\ wait' = [wait EXCEPT ![f] = ticks]
  /\ UNCHANGED out

\* The lookup of the family asked for ends.
ThisEnds(f) ==
  /\ step[f] \in {"race", "own"} /\ own[f] = Null
  /\ \E a \in Results(f) :
       /\ own' = [own EXCEPT ![f] = a]
       /\ IF ~Selects(f) \/ (setup.prefer /\ step[f] = "own")   \* the A answer is unusable
          THEN Finish(f, IF a.ok THEN "answer" ELSE "error")
          ELSE IF setup.prefer THEN Sleep(f, "race", 0)         \* waits for the A task
          ELSE IF ~a.ok THEN Finish(f, "error")
          ELSE IF step[f] = "race" THEN Sleep(f, "grace", Threshold)
          ELSE IF that[f].ok THEN Sleep(f, "compare", 0)
          ELSE Finish(f, "answer")
  /\ UNCHANGED <<setup, net, that>>

\* The lookup of the other family ends.
ThatEnds(f) ==
  /\ Selects(f)
  /\ step[f] \in {"race", "grace"} /\ that[f] = Null
  /\ \E a \in Results(Other(f)) :
       /\ that' = [that EXCEPT ![f] = a]
       /\ IF setup.prefer THEN Sleep(f, "usable", Ipv4Usable(a).took)
          ELSE IF step[f] = "race" THEN Sleep(f, "own", 0)
          ELSE IF a.ok THEN Sleep(f, "compare", 0)
          ELSE Finish(f, "answer")
  /\ UNCHANGED <<setup, net, own>>

\* Both are here: the probes start, and the result is due when they end.
Compare(f) ==
  /\ step[f] = "compare"
  /\ Sleep(f, "probe", WhichFaster(f).took)
  /\ UNCHANGED <<setup, net, own, that>>

Compared(f) ==
  /\ step[f] = "probe" /\ wait[f] = 0
  /\ Finish(f, IF WhichFaster(f).other THEN "none" ELSE "answer")
  /\ UNCHANGED <<setup, net, own, that>>

\* that.timeout(selection_threshold) gives up on the other family.
Expire(f) ==
  /\ step[f] = "grace" /\ wait[f] = 0
  /\ Finish(f, "answer")
  /\ UNCHANGED <<setup, net, own, that>>

\* prefer_ipv4: the A task ends with a usable answer or without one; the AAAA
\* answer may be here already.  An AAAA error is returned in its place.
UsableKnown(f) ==
  /\ step[f] = "usable" /\ wait[f] = 0
  /\ IF Ipv4Usable(that[f]).is THEN Finish(f, "none")
     ELSE IF own[f] = Null THEN Sleep(f, "own", 0)
     ELSE Finish(f, IF own[f].ok THEN "answer" ELSE "error")
  /\ UNCHANGED <<setup, net, own, that>>

\* A AAAA answer may still arrive while the A addresses are probed.
ThisEndsWhileProbing(f) ==
  /\ step[f] = "usable" /\ own[f] = Null
  /\ \E a \in Results(f) : own' = [own EXCEPT ![f] = a]
  /\ UNCHANGED <<setup, net, step, that, wait, out>>

Timed == {"grace", "probe", "usable"}

DualTick ==
  /\ \E f \in Families : step[f] \in Timed
  /\ \A f \in Families :
       /\ step[f] \in Timed => wait[f] > 0
       /\ step[f] # "compare"
  /\ wait' = [f \in Families |-> IF step[f] \in Timed THEN wait[f] - 1 ELSE wait[f]]
  /\ UNCHANGED <<setup, net, step, own, that, out>>

\* The client asks both questions again.
Again ==
  /\ \A f \in Families : step[f] = "done"
  /\ step' = [f \in Families |-> "race"]
  /\ own' = [f \in Families |-> Null]
  /\ that' = [f \in Families |-> Null]
  /\ wait' = [f \in Families |-> 0]
  /\ out' = [f \in Families |-> Null]
  /\ UNCHANGED <<setup, net>>

DualNext ==
  \/ Again
  \/ DualTick
  \/ \E f \in Families :
    \/ ThisEnds(f) \/ ThatEnds(f)
    \/ Compare(f) \/ Compared(f) \/ Expire(f)
    \/ UsableKnown(f) \/ ThisEndsWhileProbing(f)

DualSpec == DualInit /\ [][DualNext]_dualVars

-----------------------------------------------------------------------------
(* Properties.                                                             *)

\* A client that asks for both families is never told that neither has
\* records: over a stable network the two decisions, made apart and from
\* probes that end in different orders, do not both point to the other family.
NeverBothSuppressed == ~(out["A"] = "none" /\ out["AAAA"] = "none")

=============================================================================
