----------------------------- MODULE SpeedCheck -----------------------------
(* A speed check: the addresses of an answer are probed with one mode       *)
(* after the other until one of them answers (multi_mode_ping_fastest in    *)
(* src/dns_mw_ns.rs and src/dns_mw_dualstack.rs; src/infra/ping.rs).  The   *)
(* probes of a mode run together; an address is probed `times` times, one   *)
(* probe after the other, and each is given up after ProbeTimeout.  The     *)
(* whole mode is given up after ModeWindow.                                 *)
EXTENDS Naturals, Sequences, FiniteSets, Functions, Absent

CONSTANTS
    Hosts,          \* the addresses
    Checks,         \* what may be asked for, see Check
    ProbeTimeout,   \* PingOptions::timeout
    ModeWindow      \* 200 ms

Modes == {"none", "ping", "tcp", "tcp-syn", "http", "https"}

\* The modes, and PingOptions.
Check == [modes : Seq(Modes), times : Nat, allSuccess : BOOLEAN, agg : {"Min", "Mean", "Max"}]

ASSUME PingAssumption ==
    /\ Checks \subseteq Check /\ IsFiniteSet(Hosts)
    /\ ProbeTimeout \in Nat \ {0} /\ ModeWindow \in Nat \ {0}

VARIABLES
    check,
    modeNo,      \* the mode tried
    pinger,      \* per address: its series of probes
    now,         \* since the mode began
    fastestIp    \* what the check returns

pingVars == <<check, modeNo, pinger, now, fastestIp>>

-----------------------------------------------------------------------------
\* What the address does with a probe, and whether the probe succeeds: the
\* half-open probe takes a reset for an answer and skips packets that are not
\* replies to it; what an HTTP server answers does not matter.
Reactions == {"answers", "resets", "other service", "stray packet"}

Alive(mode, reaction) ==
    \/ reaction = "answers"
    \/ reaction = "resets" /\ mode = "tcp-syn"
    \/ reaction = "other service" /\ mode \in {"tcp", "tcp-syn", "http"}

Ignored(mode, reaction) ==
    \/ reaction = "stray packet"
    \/ reaction \in {"resets", "other service"} /\ mode = "ping"

Total(durations) ==
    LET upTo[n \in 0..Len(durations)] == IF n = 0 THEN 0 ELSE upTo[n - 1] + durations[n]
    IN upTo[Len(durations)]

\* do_agg, of a series with an answer.
DoAgg(durations, agg) ==
    CASE agg = "Min"  -> CHOOSE x \in Range(durations) : \A y \in Range(durations) : x <= y
      [] agg = "Max"  -> CHOOSE x \in Range(durations) : \A y \in Range(durations) : x >= y
      [] agg = "Mean" -> Total(durations) \div Len(durations)

-----------------------------------------------------------------------------
\* to_ping_addrs: the mode "none" has no destination.
Dests(n) == IF check.modes[n] = "none" THEN {} ELSE Hosts

Fresh == [left |-> check.times, started |-> 0, durations |-> <<>>, ended |-> FALSE]

\* A failed probe ends the series if all must succeed.
NextProbe(p, duration) ==
    LET failed == duration = 0
        rest   == [p EXCEPT !.left = @ - 1, !.started = now,
                            !.durations = IF failed THEN @ ELSE Append(@, duration)]
    IN IF failed /\ check.allSuccess THEN [rest EXCEPT !.ended = TRUE, !.durations = <<>>]
       ELSE [rest EXCEPT !.ended = (rest.left = 0)]

Running == fastestIp = Null /\ modeNo <= Len(check.modes)

\* The address reacts to the probe under way.
HostReacts(h) ==
    /\ Running /\ h \in Dests(modeNo) /\ ~pinger[h].ended /\ now > pinger[h].started
    /\ \E reaction \in Reactions :
         /\ ~Ignored(check.modes[modeNo], reaction)
         /\ pinger' = [pinger EXCEPT ![h] =
              NextProbe(@, IF Alive(check.modes[modeNo], reaction) THEN now - @.started ELSE 0)]
    /\ UNCHANGED <<check, modeNo, now, fastestIp>>

ProbeDue(h) == h \in Dests(modeNo) /\ ~pinger[h].ended /\ now = pinger[h].started + ProbeTimeout

ProbeTimesOut(h) ==
    /\ Running /\ ProbeDue(h)
    /\ pinger' = [pinger EXCEPT ![h] = NextProbe(@, 0)]
    /\ UNCHANGED <<check, modeNo, now, fastestIp>>

\* The series are waited for together.
SucceededTogether(h) ==
    /\ h \in Dests(modeNo) /\ pinger[h].durations # <<>>
    /\ \A g \in Hosts : pinger[g].ended

Succeeded(h) == h \in Dests(modeNo) /\ pinger[h].ended /\ pinger[h].durations # <<>>

\* select_ok: the first series to end with an answer.
PingFastest ==
    /\ Running
    /\ \E h \in Hosts :
         /\ Succeeded(h)
         /\ fastestIp' = [host |-> h, elapsed |-> DoAgg(pinger[h].durations, check.agg)]
    /\ UNCHANGED <<check, modeNo, pinger, now>>

\* Nothing is waited for once the window has passed.
GivesUp == now >= ModeWindow \/ \A h \in Dests(modeNo) : pinger[h].ended

\* The mode failed, or its window has passed: the next one.
NextMode ==
    /\ Running /\ GivesUp
    /\ \A h \in Hosts : ~Succeeded(h)
    /\ modeNo' = modeNo + 1 /\ now' = 0
    /\ pinger' = [h \in Hosts |-> Fresh]
    /\ UNCHANGED <<check, fastestIp>>

PingTick ==
    /\ Running /\ ~GivesUp
    /\ \A h \in Hosts : ~Succeeded(h) /\ ~ProbeDue(h)
    /\ now' = now + 1
    /\ UNCHANGED <<check, modeNo, pinger, fastestIp>>

PingInit ==
    /\ check \in Checks /\ modeNo = 1 /\ now = 0
    /\ pinger = [h \in Hosts |-> Fresh]
    /\ fastestIp = Null

\* The next answer is checked.
NextCheck ==
    /\ ~Running
    /\ modeNo' = 1 /\ now' = 0 /\ fastestIp' = Null
    /\ pinger' = [h \in Hosts |-> Fresh]
    /\ UNCHANGED check

PingNext ==
    \/ \E h \in Hosts : HostReacts(h) \/ ProbeTimesOut(h)
    \/ PingFastest \/ NextMode \/ PingTick \/ NextCheck

PingSpec == PingInit /\ [][PingNext]_pingVars

-----------------------------------------------------------------------------
\* Of single probes the fastest wins: an address that answered sooner, in
\* this mode, is never passed over.  A mode takes no longer than its window,
\* whatever is still running.
FastestWins ==
    /\ now <= ModeWindow
    /\ (fastestIp # Null /\ check.times = 1) =>
         \A h \in Hosts : pinger[h].durations # <<>> => fastestIp.elapsed <= pinger[h].durations[1]
==============================================================================
