------------------------------ MODULE SelectIp ------------------------------
(* The choice among the answers of a server group (src/dns_mw_ns.rs):      *)
(* lookup_ip, lookup_ip_answering_first and                                *)
(* select_ip_response_reporting_first, with the lookups of the group's     *)
(* servers and the probes of the addresses racing each other.              *)
(*                                                                         *)
(* The clock moves when no task is due.  A lookup ends at the latest at    *)
(* NetTimeout, the network timeout of the client; a probe mode is given up *)
(* after ProbeWindow, as are the lookups still running that long after     *)
(* the first valid answer (200 ms in both cases).                          *)
EXTENDS Integers, Sequences, FiniteSets, Functions, Absent

CONSTANTS GroupServers, Ip,
          Responses,     \* what a lookup may end in, see Response
          Options,       \* the options of a lookup, see LookupOptions
          ProbeWindow, NetTimeout,
          CountLimit,    \* the counter of an address is a u8: 256
          MaxPause       \* how long the rest of a lookup may wait to be polled

\* Result<DnsResponse, LookupError> as far as the selection looks at it: the
\* kind, the response code, and the addresses in the order of the answer.
Response == [ok : BOOLEAN, code : {"NoError", "NXDomain", "Other"}, ips : Seq(Ip)]

LookupOptions == [strategy : {"FirstPing", "FastestIp", "FastestResponse"},
                  noSpeedCheck : BOOLEAN,
                  modes : {Null} \cup Seq({"none", "probe"}),
                  reports : BOOLEAN]

ASSUME SelectAssumption ==
    /\ IsFiniteSet(GroupServers) /\ GroupServers # {}
    /\ Responses \subseteq Response
    /\ Options \subseteq LookupOptions
    /\ ProbeWindow \in Nat \ {0} /\ NetTimeout \in Nat \ {0}
    /\ CountLimit \in Nat \ {0} /\ MaxPause \in Nat

TimedOut == [ok |-> FALSE, code |-> "Other", ips |-> <<>>]

VARIABLES
    strategy, modes, reports,  \* as lookup_ip settled them
    queries,    \* the servers whose lookup is running (query_tasks)
    pings,      \* the running probes (ping_tasks)
    received,   \* received_response
    giveUpAt,   \* when the remaining lookups are given up, Null: no limit
    okTasks, errTasks,
    stats,      \* ip_addr_stats: the counter of every address met
    fastest,    \* the best probe so far
    early,      \* the answer reported to the caller of the lookup
    inHand,     \* the answer in hand while the lookup yields
    phase, chosen,
    time,
    arrived                    \* history: the answers and failures so far

selectOpts == <<strategy, modes, reports>>
selectVars == <<selectOpts, queries, pings, received, giveUpAt, okTasks, errTasks, stats, fastest,
          early, inHand, phase, chosen, time, arrived>>

-----------------------------------------------------------------------------
\* is_valid_response: an answer, NODATA or NXDOMAIN rather than a failure.
Valid(r) == r.code \in {"NoError", "NXDomain"}

\* lookup_ip: without probes the first response decides.
LookupIp(o) ==
    LET skip == o.noSpeedCheck \/ o.modes = Null \/ (o.modes # Null /\ "none" \in Range(o.modes))
    IN [strategy |-> IF skip THEN "FastestResponse" ELSE o.strategy,
        modes |-> IF o.modes = Null \/ (o.modes # Null /\ "none" \in Range(o.modes))
                  THEN 0 ELSE Len(o.modes)]

\* deferred_speed_check_mode: who asks for the early answer.
Defers(o) ==
    /\ o.strategy = "FastestResponse" /\ ~o.noSpeedCheck
    /\ o.modes # Null /\ o.modes # <<>> /\ "none" \notin Range(o.modes)

SelectInit ==
    /\ strategy = "FirstPing" /\ modes = 0 /\ reports = FALSE
    /\ queries = GroupServers /\ pings = {}
    /\ received = FALSE /\ giveUpAt = Null
    /\ okTasks = <<>> /\ errTasks = <<>> /\ stats = [ip \in {} |-> 0]
    /\ fastest = Null /\ early = Null /\ inHand = Null
    /\ phase = "idle" /\ chosen = Null
    /\ time = 0 /\ arrived = <<>>

\* lookup_ip, or lookup_ip_answering_first, with the options of a query.
BeginSelect(o) ==
    /\ phase = "idle"
    /\ o.reports => Defers(o)
    /\ strategy' = IF o.reports THEN "FastestIp" ELSE LookupIp(o).strategy
    /\ modes' = LookupIp(o).modes
    /\ reports' = o.reports
    /\ phase' = "select"
    /\ UNCHANGED <<queries, pings, received, giveUpAt, okTasks, errTasks, stats, fastest,
                   early, inHand, chosen, time, arrived>>

-----------------------------------------------------------------------------
(* The end of the selection.                                               *)

Conclude(res) == phase' = "done" /\ chosen' = res

AnswerWithNewest(answers, ip, probe) ==
    IF answers # <<>> /\ ip \in Range(answers[Len(answers)].ips)
    THEN Conclude([ok |-> TRUE, ips |-> <<ip>>, probe |-> probe])
    ELSE phase' = "unreachable" /\ UNCHANGED chosen

\* The record of the selected address, from the first answer that has it.
AnswerWith(answers, ip, probe) ==
    IF \E i \in DOMAIN answers : ip \in Range(answers[i].ips)
    THEN Conclude([ok |-> TRUE, ips |-> <<ip>>, probe |-> probe])
    ELSE phase' = "unreachable" /\ UNCHANGED chosen

\* No address at all: the first answer, else the first error.
AnswerWithout(answers, errors) ==
    IF answers # <<>> THEN Conclude([ok |-> TRUE, ips |-> answers[1].ips, probe |-> Null])
    ELSE IF errors # <<>> THEN Conclude([ok |-> FALSE, ips |-> <<>>, probe |-> Null])
    ELSE phase' = "unreachable" /\ UNCHANGED chosen

Occurrences(seq, x) == Cardinality({i \in DOMAIN seq : seq[i] = x})

\* FirstPing counts the addresses at the end, in a usize.
TotalOf(answers, ip) ==
    FoldFunction(LAMBDA n, m : n + m, 0, [i \in DOMAIN answers |-> Occurrences(answers[i].ips, ip)])

CountedProbed(answers) ==
    [ip \in (IF fastest = Null THEN {} ELSE {fastest.ip}) |-> TotalOf(answers, ip)]
SelectCounted(answers) ==
    IF strategy = "FastestIp" THEN stats
    ELSE [ip \in UNION {Range(answers[i].ips) : i \in DOMAIN answers} |-> TotalOf(answers, ip)]

\* max_by_key over a HashMap: any address with the highest count.
Commonest(count) == {ip \in DOMAIN count : \A other \in DOMAIN count : count[other] <= count[ip]}

FinishSelect ==
    /\ phase = "select" /\ strategy # "FastestResponse"
    /\ queries = {} /\ pings = {}
    /\ \/ /\ fastest # Null
          /\ AnswerWith(okTasks, fastest.ip, fastest.elapsed)
       \/ /\ fastest = Null
          /\ \E ip \in Commonest(SelectCounted(okTasks)) : AnswerWith(okTasks, ip, "Failed")
       \/ /\ fastest = Null /\ DOMAIN SelectCounted(okTasks) = {}
          /\ AnswerWithout(okTasks, errTasks)
    /\ UNCHANGED <<selectOpts, queries, pings, received, giveUpAt, okTasks, errTasks, stats, fastest,
                   early, inHand, time, arrived>>

-----------------------------------------------------------------------------
(* A lookup ends.                                                          *)

\* limit_remaining_queries: once, at the first valid response.
LimitRemaining(r) ==
    IF received \/ ~Valid(r) THEN UNCHANGED <<received, giveUpAt>>
    ELSE received' = TRUE /\ giveUpAt' = time + ProbeWindow

\* A probe: of one address (FastestIp), or of the addresses of an answer
\* (FirstPing); mode is the mode it is in, since when.
ProbeTask(of, ips) == [of |-> of, ips |-> ips, mode |-> 1, since |-> time]

Count(r) ==
    [ip \in DOMAIN stats \cup Range(r.ips) |->
        ((IF ip \in DOMAIN stats THEN stats[ip] ELSE 0) + Occurrences(r.ips, ip)) % CountLimit]

\* The loop body for a response: keep it, count its addresses and probe them.
KeepResponse(s, r) ==
    \/ /\ ~r.ok
       /\ errTasks' = Append(errTasks, r)
       /\ UNCHANGED <<okTasks, pings, stats>>
    \/ /\ r.ok /\ strategy = "FirstPing"
       /\ okTasks' = Append(okTasks, r)
       /\ pings' = pings \cup (IF r.ips = <<>> THEN {} ELSE {ProbeTask(s, Range(r.ips))})
       /\ UNCHANGED <<errTasks, stats>>
    \/ /\ r.ok /\ strategy = "FastestIp"
       /\ okTasks' = Append(okTasks, r)
       /\ pings' = pings \cup {ProbeTask(ip, {ip}) : ip \in Range(r.ips) \ DOMAIN stats}
       /\ stats' = Count(r)
       /\ UNCHANGED errTasks

\* The answer is reported when it is the first valid one or the last of all.
ReportsNow(r) == reports /\ early = Null /\ (received \/ Valid(r) \/ Cardinality(queries) = 1)

\* FastestResponse: return the first valid response, or the last.
RespondFastest(s, r) ==
    /\ queries' = queries \ {s}
    /\ IF Valid(r) \/ queries = {s}
       THEN Conclude(r)
       ELSE UNCHANGED <<phase, chosen>>
    /\ UNCHANGED <<pings, received, giveUpAt, okTasks, errTasks, stats, early, inHand>>

Respond(s, r) ==
    /\ queries' = queries \ {s}
    /\ IF reports
       THEN received' = (received \/ Valid(r)) /\ UNCHANGED giveUpAt
       ELSE LimitRemaining(r)
    /\ IF ReportsNow(r)
       THEN \* report it and yield, with the response still in hand
            /\ early' = r /\ inHand' = [s |-> s, r |-> r, at |-> time] /\ phase' = "yielded"
            /\ UNCHANGED <<okTasks, errTasks, pings, stats, chosen>>
       ELSE /\ KeepResponse(s, r)
            /\ UNCHANGED <<early, inHand, phase, chosen>>

LookupEnds(s, r) ==
    /\ phase = "select" /\ s \in queries
    /\ IF strategy = "FastestResponse" THEN RespondFastest(s, r) ELSE Respond(s, r)
    /\ arrived' = Append(arrived, r)
    /\ UNCHANGED <<selectOpts, fastest, time>>

\* The server answers or fails before anyone gives up.
LookupAnswered(s) ==
    /\ giveUpAt # Null => time <= giveUpAt
    /\ \E r \in Responses : LookupEnds(s, r)

\* The lookup is given up: at the network's timeout or after the window.
LookupGivenUp(s) ==
    /\ time >= NetTimeout \/ (giveUpAt # Null /\ time >= giveUpAt)
    /\ LookupEnds(s, TimedOut)

\* The rest of the lookup is polled again after the caller has the answer.
ResumeSelect ==
    /\ phase = "yielded"
    /\ KeepResponse(inHand.s, inHand.r)
    /\ phase' = "select" /\ inHand' = Null
    /\ UNCHANGED <<selectOpts, queries, received, giveUpAt, fastest, early, chosen, time, arrived>>

\* Or it is dropped, with its lookups: a cache that does not want it.
DropRest ==
    /\ phase = "yielded"
    /\ phase' = "dropped"
    /\ UNCHANGED <<selectOpts, queries, pings, received, giveUpAt, okTasks, errTasks, stats, fastest,
                   early, inHand, chosen, time, arrived>>

-----------------------------------------------------------------------------
(* A probe moves on: multi_mode_ping, multi_mode_ping_fastest.             *)

SameMode(p) == UNCHANGED pings
\* The probe is out of modes or its mode is given up.
NextMode(p) ==
    pings' = (pings \ {p}) \cup
        (IF p.mode < modes THEN {[p EXCEPT !.mode = p.mode + 1, !.since = time]} ELSE {})

ProbeFails(p) ==
    /\ phase = "select" /\ p \in pings
    /\ NextMode(p)
    /\ UNCHANGED <<selectOpts, queries, received, giveUpAt, okTasks, errTasks, stats, fastest, early,
                   inHand, phase, chosen, time, arrived>>

\* An address answers within the window.  FirstPing ends the selection;
\* FastestIp keeps the smallest time.
Better(out) == fastest = Null \/ (fastest # Null /\ out.elapsed < fastest.elapsed)

ProbeAnswers(p, ip) ==
    LET out == [ip |-> ip, elapsed |-> time - p.since]
    IN /\ phase = "select" /\ p \in pings /\ ip \in p.ips
       /\ p.mode <= modes /\ time <= p.since + ProbeWindow
       /\ pings' = pings \ {p}
       /\ fastest' = IF Better(out) THEN out ELSE fastest
       /\ IF strategy = "FirstPing"
          THEN AnswerWith(okTasks, ip, out.elapsed)
          ELSE UNCHANGED <<phase, chosen>>
       /\ UNCHANGED <<selectOpts, queries, received, giveUpAt, okTasks, errTasks, stats, early, inHand,
                      time, arrived>>

-----------------------------------------------------------------------------
\* Time passes only when nothing is due: no lookup past its limit, no probe
\* past its window or without a mode to try.
SelectDue ==
    \/ queries # {} /\ (time >= NetTimeout \/ (giveUpAt # Null /\ time >= giveUpAt))
    \/ \E p \in pings : time >= p.since + ProbeWindow \/ p.mode > modes
    \/ queries = {} /\ pings = {}

SelectTick ==
    /\ \/ phase = "select" /\ ~SelectDue
       \/ phase = "yielded" /\ time < inHand.at + MaxPause
    /\ time' = time + 1
    /\ UNCHANGED <<selectOpts, queries, pings, received, giveUpAt, okTasks, errTasks, stats, fastest,
                   early, inHand, phase, chosen, arrived>>

SelectEnded == phase \in {"done", "dropped", "unreachable"} /\ UNCHANGED selectVars

SelectNext ==
    \/ \E o \in Options : BeginSelect(o)
    \/ \E s \in GroupServers : LookupAnswered(s) \/ LookupGivenUp(s)
    \/ ResumeSelect \/ DropRest
    \/ \E p \in pings : ProbeFails(p) \/ \E ip \in p.ips : ProbeAnswers(p, ip)
    \/ FinishSelect \/ SelectTick
    \/ SelectEnded

SelectSpec == SelectInit /\ [][SelectNext]_selectVars

\* A task that is due is polled, time passes, and what was deferred is either
\* polled again or dropped.
SelectFairness ==
    /\ WF_selectVars(SelectTick) /\ WF_selectVars(FinishSelect) /\ WF_selectVars(ResumeSelect \/ DropRest)
    /\ WF_selectVars(\E s \in GroupServers : LookupGivenUp(s))
    /\ WF_selectVars(\E p \in pings : ProbeFails(p) /\ (time >= p.since + ProbeWindow \/ p.mode > modes))

SelectLiveSpec == SelectSpec /\ SelectFairness

-----------------------------------------------------------------------------
(* Properties.                                                             *)

\* Neither unreachable!() of select_ip_response_reporting_first is reached: the
\* selected address is in a kept answer, and there is an answer or an error.
NeverUnreachable == phase # "unreachable"

KnownIps == UNION {Range(arrived[i].ips) : i \in {j \in DOMAIN arrived : arrived[j].ok}}

\* If any upstream returned an address by the time the selection ends, the
\* probing modes answer with exactly one of the addresses returned, whatever
\* order answers, errors and probes come in and even if every probe fails.
AddressPreferred ==
    phase = "done" /\ strategy # "FastestResponse" /\ KnownIps # {} =>
        chosen.ok /\ Len(chosen.ips) = 1 /\ chosen.ips[1] \in KnownIps

\* Every selection ends.
SelectionEnds == phase = "select" ~> phase \in {"done", "dropped"}
=============================================================================
