----------------------------- MODULE MCProgress -----------------------------
(***************************************************************************)
(* What must eventually happen, one part at a time: refresh marks are      *)
(* released ("refresh": two entries that are due at once, one client task  *)
(* and a chunk size of one), background queries get their turn             *)
(* ("dispatch": three tasks, one background permit and a reload), and a    *)
(* race of servers and probes ends ("select": three servers and two        *)
(* addresses).                                                             *)
(***************************************************************************)
EXTENDS MCCacheRefresh, QueryDispatcher, SelectIp

-----------------------------------------------------------------------------
(* Instances of SelectIp for TLC.                                          *)
CONSTANTS ip1, ip2

R(ok, code, ips) == [ok |-> ok, code |-> code, ips |-> ips]

\* Addresses, one of them twice; NODATA as an answer and as an error; an answer
\* with another response code; a failure.
SomeResponses ==
    {R(TRUE, "NoError", <<ip1>>), R(TRUE, "NoError", <<ip2, ip2>>), R(TRUE, "NoError", <<>>),
     R(FALSE, "NXDomain", <<>>), R(TRUE, "Other", <<>>), TimedOut}

O(strat, ms, rep) == [strategy |-> strat, noSpeedCheck |-> FALSE, modes |-> ms, reports |-> rep]

AllOptions ==
    {O("FirstPing", <<"probe">>, FALSE), O("FastestIp", <<"probe">>, FALSE),
     O("FastestIp", <<>>, FALSE), O("FastestResponse", <<"probe">>, TRUE),
     O("FastestIp", <<"probe", "none">>, FALSE)}

-----------------------------------------------------------------------------
(* The sum of the parts.                                                   *)


progressVars == <<part, refreshVars, dispatchVars, selectVars>>

ProgressInit ==
    /\ part \in {"refresh", "dispatch", "select"}
    /\ RefreshInit /\ DispatchInit /\ SelectInit

ProgressNext ==
    /\ UNCHANGED part
    /\ \/ part = "refresh" /\ RefreshNext /\ UNCHANGED <<dispatchVars, selectVars>>
       \/ part = "dispatch" /\ DispatchNext /\ UNCHANGED <<refreshVars, selectVars>>
       \/ part = "select" /\ SelectNext /\ UNCHANGED <<refreshVars, dispatchVars>>

\* The fairness of each part, in RefreshFairness, DispatchLiveSpec and
\* SelectFairness: the runtime polls what can run, and lookups and probes end.
\* A chunk of one has one lookup, so the loop and its lookup take turns.
Progress ==
    /\ \A i \in Task : WF_refreshVars(part = "refresh" /\ Finish(i))
    /\ WF_refreshVars(part = "refresh" /\ (AdmitChunk \/ \E q \in Query : PrefetchStep(q)))
    /\ \A s \in Slot : WF_dispatchVars(part = "dispatch" /\ Step(s))
    /\ WF_selectVars(part = "select" /\ SelectTick)
    /\ WF_selectVars(part = "select" /\ FinishSelect)
    /\ WF_selectVars(part = "select" /\ (ResumeSelect \/ DropRest))
    /\ WF_selectVars(part = "select" /\ \E s \in GroupServers : LookupGivenUp(s))
    /\ WF_selectVars(part = "select" /\ \E p \in pings :
          ProbeFails(p) /\ (time >= p.since + ProbeWindow \/ p.mode > modes))

ProgressSpec == ProgressInit /\ [][ProgressNext]_progressVars /\ Progress
=============================================================================
