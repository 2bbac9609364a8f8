------------------------ MODULE QueryDispatcherProofs ------------------------
(***************************************************************************)
(* Proofs about QueryDispatcher, for every number of tasks, permits and    *)
(* handlers.                                                               *)
(***************************************************************************)
EXTENDS QueryDispatcher, FiniteSetTheorems, TLAPS

\* The inductive invariant.  QueueExact is there for Grant and CancelQueued:
\* a query that is given a permit is a background query, and leaves the queue.
Inv == DispatchTypeOK /\ ActiveCounted /\ PermitsBalanced /\ DeadlineCovers /\ QueueExact

\* What a task may be doing.
Carried == [pc : QueryStage, background : BOOLEAN, at : Nat, handler : Handler]

\* Counting one element more, or one less.
LEMMA CountUp ==
    ASSUME NEW S \in SUBSET Slot, NEW T, NEW x \in Slot, x \notin S, T = S \cup {x}
    PROVE  Cardinality(T) = Cardinality(S) + 1 /\ Cardinality(S) \in Nat
<1>1. IsFiniteSet(S)
  BY LimitAssumption, FS_Subset
<1> QED BY <1>1, FS_AddElement, FS_CardinalityType

\* ... and taking one away.
LEMMA CountDown ==
    ASSUME NEW S \in SUBSET Slot, NEW T, NEW x \in S, T = S \ {x}
    PROVE  /\ Cardinality(T) = Cardinality(S) - 1
           /\ Cardinality(S) \in Nat /\ Cardinality(S) > 0
<1>1. IsFiniteSet(S)
  BY LimitAssumption, FS_Subset
<1>2. Cardinality(T) = Cardinality(S) - 1
  BY <1>1, FS_RemoveElement
<1>3. IsFiniteSet(T) /\ Cardinality(T) \in Nat /\ Cardinality(S) \in Nat
  BY <1>1, FS_Subset, FS_CardinalityType
<1> QED BY <1>2, <1>3

\* The sets of the invariant are sets of tasks.
LEMMA SetsOfSlots ==
    /\ Counted \in SUBSET Slot /\ Permitted \in SUBSET Slot
    /\ \A h \in Handler : Searching(h) \in SUBSET Slot
BY DEF Counted, Permitted, Searching

\* At first no task is counted and all permits are free.
LEMMA InitInv == DispatchInit => Inv
<1> SUFFICES ASSUME DispatchInit PROVE Inv
  OBVIOUS
<1>1. DispatchTypeOK
  <2>1. NoQuery \in Carried
    BY LimitAssumption DEF NoQuery, Carried, QueryStage, Handler
  <2>2. query \in [Slot -> Carried]
    BY <2>1 DEF DispatchInit
  <2>3. queue \in Seq(Slot)
    BY DEF DispatchInit
  <2> QED BY <2>2, <2>3, LimitAssumption DEF DispatchInit, DispatchTypeOK, Carried, Handler
<1>2. Counted = {} /\ Permitted = {} /\ \A h \in Handler : Searching(h) = {}
  BY DEF DispatchInit, Counted, Permitted, Searching, QueryAt, NoQuery
<1>3. Cardinality({}) = 0
  BY FS_EmptySet
<1>4. ActiveCounted
  BY <1>2, <1>3 DEF DispatchInit, ActiveCounted
<1>5. PermitsBalanced
  <2>1. bgFree + Cardinality(Permitted) = BackgroundLimit
    <3>1. Cardinality(Permitted) = 0
      BY <1>2, <1>3
    <3> QED BY <3>1, LimitAssumption DEF DispatchInit
  <2>2. ASSUME NEW h \in Handler
        PROVE  free[h] + Cardinality(Searching(h)) = QueryLimit
    <3>1. Cardinality(Searching(h)) = 0
      BY <1>2, <1>3
    <3> QED BY <3>1, LimitAssumption DEF DispatchInit
  <2> QED BY <2>1, <2>2 DEF PermitsBalanced
<1>6. DeadlineCovers
  BY DEF DispatchInit, DeadlineCovers, NoQuery
<1>7. QueueExact
  BY DEF DispatchInit, QueueExact, QueryAt, NoQuery
<1> QED BY <1>1, <1>4, <1>5, <1>6, <1>7 DEF Inv

Inside == {"entered", "searching", "leaving"}

\* What a step of task s that leaves it at r does to the tasks and to the sets
\* of the invariant.
LEMMA Moved ==
    ASSUME DispatchTypeOK, NEW s \in Slot, NEW r \in Carried, query' = [query EXCEPT ![s] = r]
    PROVE  /\ query' \in [Slot -> Carried]
           /\ query'[s] = r
           /\ \A x \in Slot \ {s} : query'[x] = query[x]
           /\ Counted' = IF r.pc \in Inside THEN Counted \cup {s} ELSE Counted \ {s}
           /\ Permitted' = IF r.background /\ r.pc \in Inside \cup {"granted"}
                           THEN Permitted \cup {s} ELSE Permitted \ {s}
           /\ \A h \in Handler :
                Searching(h)' = IF r.pc = "searching" /\ ~r.background /\ r.handler = h
                                THEN Searching(h) \cup {s} ELSE Searching(h) \ {s}
<1>1. query \in [Slot -> Carried]
  BY DEF DispatchTypeOK, Carried
<1>2. query' \in [Slot -> Carried]
  BY <1>1
<1>3. query'[s] = r /\ \A x \in Slot \ {s} : query'[x] = query[x]
  BY <1>1
<1>4. Counted' = IF r.pc \in Inside THEN Counted \cup {s} ELSE Counted \ {s}
  BY <1>3 DEF Counted, Inside
<1>5. Permitted' = IF r.background /\ r.pc \in Inside \cup {"granted"}
                   THEN Permitted \cup {s} ELSE Permitted \ {s}
  BY <1>3 DEF Permitted, Inside
<1>6. \A h \in Handler :
        Searching(h)' = IF r.pc = "searching" /\ ~r.background /\ r.handler = h
                        THEN Searching(h) \cup {s} ELSE Searching(h) \ {s}
  BY <1>3 DEF Searching, QueryAt
<1> QED BY <1>2, <1>3, <1>4, <1>5, <1>6

\* The parts of the invariant that a step of task s has to keep besides the
\* counts, when it leaves the queue alone and s is not queued before or after.
LEMMA KeepsQueue ==
    ASSUME QueueExact, NEW s \in Slot, query[s].pc # "queued", query'[s].pc # "queued",
           \A x \in Slot \ {s} : query'[x] = query[x], queue' = queue
    PROVE  QueueExact'
BY DEF QueueExact, QueryAt

\* Likewise, when the idle deadline does not go back and covers s.
LEMMA KeepsDeadline ==
    ASSUME DispatchTypeOK, DispatchTypeOK', DeadlineCovers, NEW s \in Slot,
           \A x \in Slot \ {s} : query'[x] = query[x],
           deadline' >= deadline,
           \/ query'[s].pc \in {"idle", "timed"}
           \/ query'[s].background
           \/ deadline' >= query'[s].at + MaxIdle
    PROVE  DeadlineCovers'
<1> SUFFICES ASSUME NEW x \in Slot,
                    query'[x].pc \in QueryStage \ {"idle", "timed"}, ~query'[x].background
             PROVE  deadline' >= query'[x].at + MaxIdle
  BY DEF DeadlineCovers
<1>1. CASE x = s
  BY <1>1, Zenon
<1>2. CASE x # s
  <2>1. query'[x] = query[x]
    BY <1>2
  <2>2. deadline >= query[x].at + MaxIdle
    BY <2>1, Zenon DEF DeadlineCovers
  <2>3. query[x].at \in Nat /\ deadline \in Nat /\ deadline' \in Nat
    BY DEF DispatchTypeOK
  <2> QED BY <2>1, <2>2, <2>3, LimitAssumption
<1> QED BY <1>1, <1>2

\* A step that none of the sets of the invariant sees keeps the counts.
LEMMA SameCounts ==
    ASSUME Inv, Counted' = Counted, Permitted' = Permitted,
           \A h \in Handler : Searching(h)' = Searching(h),
           UNCHANGED <<free, bgFree, active>>
    PROVE  ActiveCounted' /\ PermitsBalanced'
BY DEF Inv, ActiveCounted, PermitsBalanced

\* A step of task s that does not touch the queue keeps the invariant if it
\* keeps the counts.
LEMMA StepKeepsInv ==
    ASSUME Inv, NEW s \in Slot, NEW r \in Carried, query' = [query EXCEPT ![s] = r],
           query[s].pc # "queued", r.pc # "queued", queue' = queue,
           uptime' \in Nat, handler' \in Handler, free' \in [Handler -> Nat],
           bgFree' \in Nat, active' \in Nat, deadline' \in Nat, deadline' >= deadline,
           \/ r.pc \in {"idle", "timed"}
           \/ r.background
           \/ deadline' >= r.at + MaxIdle,
           ActiveCounted', PermitsBalanced'
    PROVE  Inv'
<1>1. DispatchTypeOK /\ DeadlineCovers /\ QueueExact
  BY DEF Inv
<1>2. /\ query' \in [Slot -> Carried]
      /\ query'[s] = r
      /\ \A x \in Slot \ {s} : query'[x] = query[x]
  BY <1>1, Moved
<1>3. DispatchTypeOK'
  BY <1>1, <1>2 DEF DispatchTypeOK, Carried
<1>4. DeadlineCovers'
  BY <1>1, <1>2, <1>3, KeepsDeadline
<1>5. QueueExact'
  BY <1>1, <1>2, KeepsQueue
<1> QED BY <1>3, <1>4, <1>5 DEF Inv

\* What the invariant says of a task that has been admitted.
LEMMA TaskFacts ==
    ASSUME Inv, NEW s \in Slot
    PROVE  /\ query[s] \in Carried
           /\ \A pc \in QueryStage : [query[s] EXCEPT !.pc = pc] \in Carried
           /\ NoQuery \in Carried
           /\ query[s].pc \in QueryStage \ {"idle", "timed"} /\ ~query[s].background
              => deadline >= query[s].at + MaxIdle
           /\ s \in Counted <=> query[s].pc \in Inside
           /\ s \in Permitted <=> query[s].background /\ query[s].pc \in Inside \cup {"granted"}
           /\ \A h \in Handler : s \in Searching(h)
                <=> query[s].pc = "searching" /\ ~query[s].background /\ query[s].handler = h
<1>1. query[s] \in Carried
  BY DEF Inv, DispatchTypeOK, Carried
<1>2. \A pc \in QueryStage : [query[s] EXCEPT !.pc = pc] \in Carried
  BY <1>1 DEF Carried
<1>3. NoQuery \in Carried
  BY LimitAssumption DEF NoQuery, Carried, QueryStage, Handler
<1>4. query[s].pc \in QueryStage \ {"idle", "timed"} /\ ~query[s].background
      => deadline >= query[s].at + MaxIdle
  BY DEF Inv, DeadlineCovers
<1>5. s \in Counted <=> query[s].pc \in Inside
  BY DEF Counted, Inside
<1>6. s \in Permitted <=> query[s].background /\ query[s].pc \in Inside \cup {"granted"}
  BY DEF Permitted, Inside
<1>7. \A h \in Handler : s \in Searching(h)
         <=> query[s].pc = "searching" /\ ~query[s].background /\ query[s].handler = h
  BY DEF Searching, QueryAt
<1> QED BY <1>1, <1>2, <1>3, <1>4, <1>5, <1>6, <1>7

\* The invariant in the form the counting steps use.
LEMMA Counts ==
    ASSUME Inv
    PROVE  /\ active = Cardinality(Counted)
           /\ bgFree + Cardinality(Permitted) = BackgroundLimit
           /\ QueryLimit > 0 =>
                \A h \in Handler : free[h] + Cardinality(Searching(h)) = QueryLimit
           /\ active \in Nat /\ bgFree \in Nat /\ free \in [Handler -> Nat]
           /\ uptime \in Nat /\ deadline \in Nat /\ handler \in Handler
BY DEF Inv, DispatchTypeOK, ActiveCounted, PermitsBalanced

\* A step of task s that no count sees.
LEMMA QuietStep ==
    ASSUME Inv, NEW s \in Slot, NEW r \in Carried, query' = [query EXCEPT ![s] = r],
           query[s].pc # "queued", r.pc # "queued",
           UNCHANGED <<uptime, handler, free, bgFree, queue, active>>,
           deadline' \in Nat, deadline' >= deadline,
           \/ r.pc \in {"idle", "timed"}
           \/ r.background
           \/ deadline' >= r.at + MaxIdle,
           r.pc \in Inside <=> s \in Counted,
           (r.background /\ r.pc \in Inside \cup {"granted"}) <=> s \in Permitted,
           QueryLimit > 0 =>
             \A h \in Handler : (r.pc = "searching" /\ ~r.background /\ r.handler = h)
                                <=> s \in Searching(h)
    PROVE  Inv'
<1>1. DispatchTypeOK
  BY DEF Inv
<1>2. Counted' = Counted
  <2>1. Counted' = IF r.pc \in Inside THEN Counted \cup {s} ELSE Counted \ {s}
    BY <1>1, Moved
  <2> QED BY <2>1
<1>3. Permitted' = Permitted
  <2>1. Permitted' = IF r.background /\ r.pc \in Inside \cup {"granted"}
                     THEN Permitted \cup {s} ELSE Permitted \ {s}
    BY <1>1, Moved
  <2> QED BY <2>1
<1>4. ASSUME QueryLimit > 0, NEW h \in Handler
      PROVE  Searching(h)' = Searching(h)
  <2>1. Searching(h)' = IF r.pc = "searching" /\ ~r.background /\ r.handler = h
                        THEN Searching(h) \cup {s} ELSE Searching(h) \ {s}
    BY <1>1, Moved
  <2> QED BY <1>4, <2>1
<1>5. ActiveCounted'
  BY <1>2, Counts DEF ActiveCounted
<1>6. PermitsBalanced'
  BY <1>3, <1>4, Counts DEF PermitsBalanced
<1> QED BY <1>5, <1>6, Counts, StepKeepsInv

\* One step per action of a task that leaves the queue and the counts alone.
LEMMA QuietActionsKeepInv ==
    ASSUME Inv, NEW s \in Slot,
           \/ \E b \in BOOLEAN : Arrive(s, b)
           \/ Extend(s) \/ RefuseIdle(s) \/ SearchFree(s) \/ Refuse(s) \/ Reject(s)
    PROVE  Inv'
<1>1. CASE \E b \in BOOLEAN : Arrive(s, b)
  <2>1. PICK b \in BOOLEAN : Arrive(s, b)
    BY <1>1
  <2> DEFINE r == [pc |-> "timed", background |-> b, at |-> uptime, handler |-> 1]
  <2>2. r \in Carried /\ query' = [query EXCEPT ![s] = r] /\ r.pc = "timed"
    BY <2>1, LimitAssumption DEF Arrive, Carried, QueryStage, Handler, Inv, DispatchTypeOK
  <2> HIDE DEF r
  <2>3. /\ query[s].pc = "idle" /\ deadline' = deadline
        /\ UNCHANGED <<uptime, handler, free, bgFree, queue, active>>
    BY <2>1 DEF Arrive, QueryAt
  <2>4. s \notin Counted /\ s \notin Permitted /\ \A h \in Handler : s \notin Searching(h)
    BY <2>3, TaskFacts DEF Inside
  <2>5. r.pc \notin Inside \cup {"granted", "searching", "queued"}
    BY <2>2 DEF Inside
  <2>6. deadline' \in Nat /\ deadline' >= deadline
    BY <2>3, Counts
  <2> QED BY <2>2, <2>3, <2>4, <2>5, <2>6, QuietStep DEF Inside
<1>2. CASE Extend(s)
  <2> DEFINE r == [query[s] EXCEPT !.pc = "granted"]
  <2>1. r \in Carried /\ query[s] \in Carried
    BY TaskFacts DEF QueryStage
  <2>2. /\ query' = [query EXCEPT ![s] = r] /\ r.pc = "granted"
        /\ r.background = query[s].background /\ r.at = query[s].at
    BY <1>2, <2>1 DEF Extend, Carried
  <2> HIDE DEF r
  <2>3. /\ query[s].pc = "timed" /\ ~query[s].background
        /\ UNCHANGED <<uptime, handler, free, bgFree, queue, active>>
    BY <1>2 DEF Extend, QueryAt
  <2>4. s \notin Counted /\ s \notin Permitted /\ \A h \in Handler : s \notin Searching(h)
    BY <2>3, TaskFacts DEF Inside
  <2>5. deadline' \in Nat /\ deadline' >= deadline /\ deadline' >= r.at + MaxIdle
    BY <1>2, <2>1, <2>2, Counts, LimitAssumption DEF Extend, LaterOf, Carried
  <2>6. r.pc \notin Inside /\ r.pc # "searching" /\ r.pc # "queued" /\ ~r.background
    BY <2>2, <2>3 DEF Inside
  <2> QED BY <2>1, <2>2, <2>3, <2>4, <2>5, <2>6, QuietStep
<1>3. CASE RefuseIdle(s)
  <2>1. NoQuery \in Carried /\ NoQuery.pc = "idle" /\ query' = [query EXCEPT ![s] = NoQuery]
    BY <1>3, TaskFacts DEF RefuseIdle, NoQuery
  <2>2. /\ query[s].pc = "timed" /\ deadline' = deadline
        /\ UNCHANGED <<uptime, handler, free, bgFree, queue, active>>
    BY <1>3 DEF RefuseIdle, QueryAt
  <2>3. s \notin Counted /\ s \notin Permitted /\ \A h \in Handler : s \notin Searching(h)
    BY <2>2, TaskFacts DEF Inside
  <2>4. deadline' \in Nat /\ deadline' >= deadline
    BY <2>2, Counts
  <2>5. NoQuery.pc \notin Inside \cup {"granted", "searching", "queued"}
    BY <2>1 DEF Inside
  <2> HIDE DEF NoQuery
  <2> QED BY <2>1, <2>2, <2>3, <2>4, <2>5, QuietStep
<1>4. CASE SearchFree(s)
  <2> DEFINE r == [query[s] EXCEPT !.pc = "searching"]
  <2>1. r \in Carried /\ query[s] \in Carried
    BY TaskFacts DEF QueryStage
  <2>2. /\ query' = [query EXCEPT ![s] = r] /\ r.pc = "searching"
        /\ r.background = query[s].background /\ r.at = query[s].at
    BY <1>4, <2>1 DEF SearchFree, Carried
  <2> HIDE DEF r
  <2>3. /\ query[s].pc = "entered" /\ (QueryLimit > 0 => query[s].background)
        /\ deadline' = deadline /\ UNCHANGED <<uptime, handler, free, bgFree, queue, active>>
    BY <1>4 DEF SearchFree, QueryAt, Limited
  <2>4. /\ s \in Counted /\ (s \in Permitted <=> query[s].background)
        /\ \A h \in Handler : s \notin Searching(h)
    BY <2>3, TaskFacts DEF Inside
  <2>5. deadline' \in Nat /\ deadline' >= deadline
    BY <2>3, Counts
  <2>6. r.background \/ deadline' >= r.at + MaxIdle
    <3>1. query[s].pc \in QueryStage \ {"idle", "timed"}
      BY <2>3 DEF QueryStage
    <3>2. query[s].background \/ deadline >= query[s].at + MaxIdle
      BY <3>1, TaskFacts, Zenon
    <3> QED BY <2>2, <2>3, <3>2, Zenon
  <2>7. r.pc \in Inside
    BY <2>2 DEF Inside
  <2> QED BY <2>1, <2>2, <2>3, <2>4, <2>5, <2>6, <2>7, QuietStep
<1>5. CASE Refuse(s) \/ Reject(s)
  <2> DEFINE r == [query[s] EXCEPT !.pc = "leaving"]
  <2>1. r \in Carried /\ query[s] \in Carried
    BY TaskFacts DEF QueryStage
  <2>2. /\ query' = [query EXCEPT ![s] = r] /\ r.pc = "leaving"
        /\ r.background = query[s].background /\ r.at = query[s].at
    BY <1>5, <2>1 DEF Refuse, Reject, Carried
  <2> HIDE DEF r
  <2>3. /\ query[s].pc = "entered"
        /\ deadline' = deadline /\ UNCHANGED <<uptime, handler, free, bgFree, queue, active>>
    BY <1>5 DEF Refuse, Reject, QueryAt
  <2>4. /\ s \in Counted /\ (s \in Permitted <=> query[s].background)
        /\ \A h \in Handler : s \notin Searching(h)
    BY <2>3, TaskFacts DEF Inside
  <2>5. deadline' \in Nat /\ deadline' >= deadline
    BY <2>3, Counts
  <2>6. r.background \/ deadline' >= r.at + MaxIdle
    <3>1. query[s].pc \in QueryStage \ {"idle", "timed"}
      BY <2>3 DEF QueryStage
    <3>2. query[s].background \/ deadline >= query[s].at + MaxIdle
      BY <3>1, TaskFacts, Zenon
    <3> QED BY <2>2, <2>3, <3>2, Zenon
  <2>7. r.pc \in Inside
    BY <2>2 DEF Inside
  <2> QED BY <2>1, <2>2, <2>3, <2>4, <2>5, <2>6, <2>7, QuietStep
<1> QED BY <1>1, <1>2, <1>3, <1>4, <1>5
\* The query is counted.
LEMMA EnterKeepsInv ==
    ASSUME Inv, NEW s \in Slot, Enter(s)
    PROVE  Inv'
<1> DEFINE r == [query[s] EXCEPT !.pc = "entered", !.handler = handler]
<1>1. query[s] \in Carried /\ DispatchTypeOK /\ handler \in Handler
  BY TaskFacts, Counts DEF Inv
<1>2. /\ r \in Carried /\ query' = [query EXCEPT ![s] = r] /\ r.pc = "entered"
      /\ r.background = query[s].background /\ r.at = query[s].at
  BY <1>1 DEF Enter, Carried, QueryStage
<1> HIDE DEF r
<1>3. /\ query[s].pc = "granted" /\ active' = active + 1
      /\ UNCHANGED <<uptime, handler, free, bgFree, queue, deadline>>
  BY DEF Enter, QueryAt
<1>4. /\ s \notin Counted /\ (s \in Permitted <=> query[s].background)
      /\ \A h \in Handler : s \notin Searching(h)
  BY <1>3, TaskFacts DEF Inside
<1>5. Counted' = Counted \cup {s}
  BY <1>1, <1>2, Moved DEF Inside
<1>6. Permitted' = Permitted
  <2>1. Permitted' = IF r.background THEN Permitted \cup {s} ELSE Permitted \ {s}
    BY <1>1, <1>2, Moved DEF Inside
  <2> QED BY <1>2, <1>4, <2>1
<1>7. ASSUME NEW h \in Handler
      PROVE  Searching(h)' = Searching(h)
  <2>1. Searching(h)' = Searching(h) \ {s}
    BY <1>1, <1>2, Moved
  <2> QED BY <1>4, <2>1
<1>8. ActiveCounted'
  BY <1>3, <1>4, <1>5, CountUp, SetsOfSlots, Counts DEF ActiveCounted
<1>9. PermitsBalanced'
  BY <1>3, <1>6, <1>7, Counts DEF PermitsBalanced
<1>10. r.background \/ deadline' >= r.at + MaxIdle
  <2>1. query[s].pc \in QueryStage \ {"idle", "timed"}
    BY <1>3 DEF QueryStage
  <2>2. query[s].background \/ deadline >= query[s].at + MaxIdle
    BY <2>1, TaskFacts, Zenon
  <2> QED BY <1>2, <1>3, <2>2, Zenon
<1>11. active' \in Nat /\ deadline' \in Nat /\ deadline' >= deadline
  BY <1>3, Counts
<1> QED BY <1>2, <1>3, <1>8, <1>9, <1>10, <1>11, Counts, StepKeepsInv

\* A foreground query takes a permit of its handler.
LEMMA SearchLimitedKeepsInv ==
    ASSUME Inv, NEW s \in Slot, SearchLimited(s)
    PROVE  Inv'
<1> DEFINE r == [query[s] EXCEPT !.pc = "searching"]
<1>0. PICK k \in Handler : k = query[s].handler
  BY TaskFacts DEF Carried
<1>1. query[s] \in Carried /\ DispatchTypeOK
  BY TaskFacts DEF Inv
<1>2. /\ r \in Carried /\ query' = [query EXCEPT ![s] = r] /\ r.pc = "searching"
      /\ r.background = query[s].background /\ r.at = query[s].at /\ r.handler = k
  BY <1>0, <1>1 DEF SearchLimited, Carried, QueryStage
<1>3. /\ query[s].pc = "entered" /\ ~query[s].background /\ QueryLimit > 0
      /\ free[k] > 0 /\ free' = [free EXCEPT ![k] = free[k] - 1]
      /\ UNCHANGED <<uptime, handler, bgFree, queue, active, deadline>>
  BY <1>0 DEF SearchLimited, QueryAt, Limited
<1> HIDE DEF r
<1>4. s \in Counted /\ s \notin Permitted /\ \A h \in Handler : s \notin Searching(h)
  BY <1>3, TaskFacts DEF Inside
<1>5. Counted' = Counted
  <2>1. Counted' = Counted \cup {s}
    BY <1>1, <1>2, Moved DEF Inside
  <2> QED BY <1>4, <2>1
<1>6. Permitted' = Permitted
  <2>1. Permitted' = Permitted \ {s}
    BY <1>1, <1>2, <1>3, Moved
  <2> QED BY <1>4, <2>1
<1>7. Searching(k)' = Searching(k) \cup {s}
  BY <1>1, <1>2, <1>3, Moved
<1>8. ASSUME NEW h \in Handler, h # k
      PROVE  Searching(h)' = Searching(h)
  <2>1. r.handler # h
    BY <1>2, <1>8
  <2>2. \A g \in Handler :
          Searching(g)' = IF r.pc = "searching" /\ ~r.background /\ r.handler = g
                          THEN Searching(g) \cup {s} ELSE Searching(g) \ {s}
    BY <1>1, <1>2, Moved, Zenon
  <2>3. Searching(h)' = Searching(h) \ {s}
    BY <2>1, <2>2
  <2> QED BY <1>4, <2>3
<1>9. free' \in [Handler -> Nat]
  BY <1>1, <1>3, Counts
<1>10. ASSUME NEW h \in Handler
       PROVE  free'[h] + Cardinality(Searching(h)') = QueryLimit
  <2>1. CASE h = k
    <3>1. free'[k] = free[k] - 1
      BY <1>1, <1>3, Counts
    <3>2. /\ Cardinality(Searching(k)') = Cardinality(Searching(k)) + 1
          /\ Cardinality(Searching(k)) \in Nat
      BY <1>1, <1>4, <1>7, CountUp, SetsOfSlots
    <3>3. free[k] + Cardinality(Searching(k)) = QueryLimit /\ free[k] \in Nat
      BY <1>1, <1>3, Counts
    <3>4. free'[k] + Cardinality(Searching(k)') = QueryLimit
      BY <3>1, <3>2, <3>3
    <3> QED BY <2>1, <3>4
  <2>2. CASE h # k
    BY <1>1, <1>3, <1>8, <2>2, Counts
  <2> QED BY <2>1, <2>2
<1>11. ActiveCounted'
  BY <1>3, <1>5, Counts DEF ActiveCounted
<1>12. PermitsBalanced'
  BY <1>3, <1>6, <1>10, Counts DEF PermitsBalanced
<1>13. deadline' >= r.at + MaxIdle
  <2>1. query[s].pc \in QueryStage \ {"idle", "timed"}
    BY <1>3 DEF QueryStage
  <2>2. deadline >= query[s].at + MaxIdle
    BY <1>3, <2>1, TaskFacts, Zenon
  <2> QED BY <1>2, <1>3, <2>2
<1>14. deadline' \in Nat /\ deadline' >= deadline
  BY <1>3, Counts
<1> QED BY <1>2, <1>3, <1>9, <1>11, <1>12, <1>13, <1>14, Counts, StepKeepsInv

\* Returned gives a searching foreground query's permit back to its handler.
LEMMA ReturnedBalanced ==
    ASSUME Inv, NEW s \in Slot, query[s].pc = "searching", free' = Returned(s),
           \A h \in Handler : Searching(h)' = Searching(h) \ {s}
    PROVE  /\ free' \in [Handler -> Nat]
           /\ QueryLimit > 0 =>
                \A h \in Handler : free'[h] + Cardinality(Searching(h)') = QueryLimit
<1>1. PICK k \in Handler : k = query[s].handler
  BY TaskFacts DEF Carried
<1>2. CASE Limited(s)
  <2>1. free' = [free EXCEPT ![k] = free[k] + 1] /\ ~query[s].background /\ QueryLimit > 0
    BY <1>1, <1>2 DEF Returned, QueryAt, Limited
  <2>2. /\ s \in Searching(k)
        /\ \A h \in Handler \ {k} : s \notin Searching(h)
    BY <1>1, <2>1, TaskFacts
  <2>3. /\ Cardinality(Searching(k)') = Cardinality(Searching(k)) - 1
        /\ Cardinality(Searching(k)) \in Nat
    <3>1. Searching(k)' = Searching(k) \ {s} /\ Searching(k) \in SUBSET Slot
      BY <1>1, SetsOfSlots
    <3> QED BY <2>2, <3>1, CountDown
  <2>4. ASSUME NEW h \in Handler
        PROVE  free'[h] + Cardinality(Searching(h)') = QueryLimit
    <3>1. CASE h = k
      <4>1. free'[k] = free[k] + 1 /\ free[k] \in Nat
        BY <1>1, <2>1, Counts
      <4>2. free[k] + Cardinality(Searching(k)) = QueryLimit
        BY <1>1, <2>1, Counts
      <4>3. free'[k] + Cardinality(Searching(k)') = QueryLimit
        BY <2>3, <4>1, <4>2
      <4> QED BY <3>1, <4>3
    <3>2. CASE h # k
      <4>1. Searching(h)' = Searching(h)
        BY <2>2, <3>2
      <4> QED BY <1>1, <2>1, <3>2, <4>1, Counts
    <3> QED BY <3>1, <3>2
  <2> QED BY <1>1, <2>1, <2>4, Counts
<1>3. CASE ~Limited(s)
  <2>1. free' = free
    BY <1>3 DEF Returned
  <2>2. ASSUME QueryLimit > 0, NEW h \in Handler
        PROVE  Searching(h)' = Searching(h)
    <3>1. query[s].background
      BY <1>3, <2>2 DEF Limited
    <3>2. s \notin Searching(h)
      BY <3>1, TaskFacts
    <3> QED BY <3>2
  <2> QED BY <2>1, <2>2, Counts
<1> QED BY <1>2, <1>3
\* The search ends.
LEMMA FinishSearchKeepsInv ==
    ASSUME Inv, NEW s \in Slot, FinishSearch(s)
    PROVE  Inv'
<1> DEFINE r == [query[s] EXCEPT !.pc = "leaving"]
<1>1. query[s] \in Carried /\ DispatchTypeOK
  BY TaskFacts DEF Inv
<1>2. /\ r \in Carried /\ query' = [query EXCEPT ![s] = r] /\ r.pc = "leaving"
      /\ r.background = query[s].background /\ r.at = query[s].at
  BY <1>1 DEF FinishSearch, Carried, QueryStage
<1>3. /\ query[s].pc = "searching" /\ free' = Returned(s)
      /\ UNCHANGED <<uptime, handler, bgFree, queue, active, deadline>>
  BY DEF FinishSearch, QueryAt
<1> HIDE DEF r
<1>4. s \in Counted /\ (s \in Permitted <=> query[s].background)
  BY <1>3, TaskFacts DEF Inside
<1>5. Counted' = Counted
  <2>1. Counted' = Counted \cup {s}
    BY <1>1, <1>2, Moved DEF Inside
  <2> QED BY <1>4, <2>1
<1>6. Permitted' = Permitted
  <2>1. Permitted' = IF r.background THEN Permitted \cup {s} ELSE Permitted \ {s}
    BY <1>1, <1>2, Moved DEF Inside
  <2> QED BY <1>2, <1>4, <2>1
<1>7. \A h \in Handler : Searching(h)' = Searching(h) \ {s}
  BY <1>1, <1>2, Moved
<1>8. /\ free' \in [Handler -> Nat]
      /\ QueryLimit > 0 =>
           \A h \in Handler : free'[h] + Cardinality(Searching(h)') = QueryLimit
  BY <1>3, <1>7, ReturnedBalanced
<1>9. ActiveCounted'
  BY <1>3, <1>5, Counts DEF ActiveCounted
<1>10. PermitsBalanced'
  BY <1>3, <1>6, <1>8, Counts DEF PermitsBalanced
<1>11. r.background \/ deadline' >= r.at + MaxIdle
  <2>1. query[s].pc \in QueryStage \ {"idle", "timed"}
    BY <1>3 DEF QueryStage
  <2>2. query[s].background \/ deadline >= query[s].at + MaxIdle
    BY <2>1, TaskFacts, Zenon
  <2> QED BY <1>2, <1>3, <2>2, Zenon
<1>12. deadline' \in Nat /\ deadline' >= deadline
  BY <1>3, Counts
<1> QED BY <1>2, <1>3, <1>8, <1>9, <1>10, <1>11, <1>12, Counts, StepKeepsInv

\* The query is over, in its last step or because its search is cancelled.
LEMMA LeaveKeepsInv ==
    ASSUME Inv, NEW s \in Slot, Leave(s) \/ CancelSearch(s)
    PROVE  Inv'
<1>1. DispatchTypeOK /\ NoQuery \in Carried /\ NoQuery.pc = "idle"
  BY TaskFacts DEF Inv, NoQuery
<1>2. /\ query' = [query EXCEPT ![s] = NoQuery]
      /\ query[s].pc \in {"leaving", "searching"} /\ query[s].pc \in Inside
      /\ active' = active - 1
      /\ bgFree' = IF query[s].background THEN bgFree + 1 ELSE bgFree
      /\ UNCHANGED <<uptime, handler, queue, deadline>>
  BY DEF Leave, CancelSearch, QueryAt, Inside
<1>3. s \in Counted /\ (s \in Permitted <=> query[s].background)
  BY <1>2, TaskFacts
<1>4. Counted' = Counted \ {s} /\ Permitted' = Permitted \ {s}
  BY <1>1, <1>2, Moved DEF Inside
<1>5. \A h \in Handler : Searching(h)' = Searching(h) \ {s}
  BY <1>1, <1>2, Moved
<1>6. active' = Cardinality(Counted') /\ active' \in Nat
  <2>1. /\ Cardinality(Counted') = Cardinality(Counted) - 1
        /\ Cardinality(Counted) \in Nat /\ Cardinality(Counted) > 0
    BY <1>3, <1>4, CountDown, SetsOfSlots
  <2> QED BY <1>2, <2>1, Counts
<1>7. bgFree' + Cardinality(Permitted') = BackgroundLimit /\ bgFree' \in Nat
  <2>1. CASE query[s].background
    <3>1. bgFree' = bgFree + 1
      BY <1>2, <2>1
    <3>2. /\ Cardinality(Permitted') = Cardinality(Permitted) - 1
          /\ Cardinality(Permitted) \in Nat
      BY <1>3, <1>4, <2>1, CountDown, SetsOfSlots
    <3> QED BY <3>1, <3>2, Counts
  <2>2. CASE ~query[s].background
    <3>1. bgFree' = bgFree /\ Permitted' = Permitted
      BY <1>2, <1>3, <1>4, <2>2
    <3> QED BY <3>1, Counts
  <2> QED BY <2>1, <2>2
<1>8. /\ free' \in [Handler -> Nat]
      /\ QueryLimit > 0 =>
           \A h \in Handler : free'[h] + Cardinality(Searching(h)') = QueryLimit
  <2>1. CASE Leave(s)
    <3>1. free' = free /\ query[s].pc = "leaving"
      BY <2>1 DEF Leave, QueryAt
    <3>2. \A h \in Handler : Searching(h)' = Searching(h)
      <4>1. \A h \in Handler : s \notin Searching(h)
        BY <3>1, TaskFacts
      <4> QED BY <1>5, <4>1
    <3> QED BY <3>1, <3>2, Counts
  <2>2. CASE CancelSearch(s)
    <3>1. free' = Returned(s) /\ query[s].pc = "searching"
      BY <2>2 DEF CancelSearch, QueryAt
    <3> QED BY <1>5, <3>1, ReturnedBalanced
  <2> QED BY <2>1, <2>2
<1>9. ActiveCounted' /\ PermitsBalanced'
  BY <1>6, <1>7, <1>8 DEF ActiveCounted, PermitsBalanced
<1>10. deadline' \in Nat /\ deadline' >= deadline
  BY <1>2, Counts
<1> HIDE DEF NoQuery
<1>11. query[s].pc # "queued" /\ NoQuery.pc # "queued"
  BY <1>1, <1>2
<1> QED BY <1>1, <1>2, <1>6, <1>7, <1>8, <1>9, <1>10, <1>11, Counts, StepKeepsInv

\* A granted background query is cancelled before it goes on.
LEMMA CancelGrantedKeepsInv ==
    ASSUME Inv, NEW s \in Slot, CancelGranted(s)
    PROVE  Inv'
<1>1. DispatchTypeOK /\ NoQuery \in Carried /\ NoQuery.pc = "idle"
  BY TaskFacts DEF Inv, NoQuery
<1>2. /\ query' = [query EXCEPT ![s] = NoQuery]
      /\ query[s].pc = "granted" /\ query[s].background
      /\ bgFree' = bgFree + 1
      /\ UNCHANGED <<uptime, handler, free, queue, active, deadline>>
  BY DEF CancelGranted, QueryAt
<1>3. s \notin Counted /\ s \in Permitted /\ \A h \in Handler : s \notin Searching(h)
  BY <1>2, TaskFacts DEF Inside
<1>4. Counted' = Counted \ {s} /\ Permitted' = Permitted \ {s}
  BY <1>1, <1>2, Moved DEF Inside
<1>5. \A h \in Handler : Searching(h)' = Searching(h) \ {s}
  BY <1>1, <1>2, Moved
<1>6. Counted' = Counted /\ \A h \in Handler : Searching(h)' = Searching(h)
  BY <1>3, <1>4, <1>5
<1>7. bgFree' + Cardinality(Permitted') = BackgroundLimit /\ bgFree' \in Nat
  <2>1. /\ Cardinality(Permitted') = Cardinality(Permitted) - 1
        /\ Cardinality(Permitted) \in Nat
    BY <1>3, <1>4, CountDown, SetsOfSlots
  <2> QED BY <1>2, <2>1, Counts
<1>8. ActiveCounted'
  BY <1>2, <1>6, Counts DEF ActiveCounted
<1>9. PermitsBalanced'
  BY <1>2, <1>6, <1>7, Counts DEF PermitsBalanced
<1>10. deadline' \in Nat /\ deadline' >= deadline
  BY <1>2, Counts
<1> HIDE DEF NoQuery
<1>11. query[s].pc # "queued" /\ NoQuery.pc # "queued"
  BY <1>1, <1>2
<1> QED BY <1>1, <1>2, <1>7, <1>8, <1>9, <1>10, <1>11, Counts, StepKeepsInv
\* A background query joins the end of the queue.
LEMMA EnqueueKeepsInv ==
    ASSUME Inv, NEW s \in Slot, Enqueue(s)
    PROVE  Inv'
<1> DEFINE r == [query[s] EXCEPT !.pc = "queued"]
           n == Len(queue) + 1
<1>1. query[s] \in Carried /\ DispatchTypeOK /\ QueueExact /\ DeadlineCovers /\ queue \in Seq(Slot)
  BY TaskFacts DEF Inv, DispatchTypeOK
<1>2. /\ r \in Carried /\ query' = [query EXCEPT ![s] = r] /\ r.pc = "queued"
      /\ r.background
  BY <1>1 DEF Enqueue, Carried, QueryStage
<1> HIDE DEF r
<1>3. /\ query[s].pc = "timed" /\ queue' = Append(queue, s)
      /\ UNCHANGED <<uptime, handler, free, bgFree, active, deadline>>
  BY DEF Enqueue, QueryAt
<1>4. s \notin Counted /\ s \notin Permitted /\ \A h \in Handler : s \notin Searching(h)
  BY <1>3, TaskFacts DEF Inside
<1>5. Counted' = Counted \ {s} /\ Permitted' = Permitted \ {s}
  BY <1>1, <1>2, Moved DEF Inside
<1>6. \A h \in Handler : Searching(h)' = Searching(h) \ {s}
  BY <1>1, <1>2, Moved
<1>7. ActiveCounted' /\ PermitsBalanced'
  BY <1>3, <1>4, <1>5, <1>6, SameCounts
<1>8. /\ query' \in [Slot -> Carried] /\ query'[s] = r
      /\ \A x \in Slot \ {s} : query'[x] = query[x]
  BY <1>1, <1>2, Moved
<1>9. /\ queue' \in Seq(Slot) /\ Len(queue') = n /\ Len(queue) \in Nat
      /\ queue'[n] = s /\ \A i \in 1..Len(queue) : queue'[i] = queue[i]
  BY <1>1, <1>3
<1>10. DispatchTypeOK'
  BY <1>1, <1>3, <1>8, <1>9 DEF DispatchTypeOK, Carried
<1>11. DeadlineCovers'
  <2>1. deadline' >= deadline
    BY <1>3, Counts
  <2> QED BY <1>1, <1>2, <1>8, <1>10, <2>1, KeepsDeadline
<1>12. QueueExact'
  <2>1. \A i \in 1..Len(queue) : queue[i] # s
    BY <1>1, <1>3 DEF QueueExact, QueryAt
  <2>2. ASSUME NEW x \in Slot
        PROVE  query'[x].pc = "queued" <=> \E i \in 1..Len(queue') : queue'[i] = x
    <3>1. CASE x = s
      BY <1>2, <1>8, <1>9, <3>1
    <3>2. CASE x # s
      <4>1. query'[x].pc = "queued" <=> \E i \in 1..Len(queue) : queue[i] = x
        BY <1>1, <1>8, <3>2 DEF QueueExact, QueryAt
      <4>2. (\E i \in 1..Len(queue) : queue[i] = x) => \E i \in 1..Len(queue') : queue'[i] = x
        BY <1>9
      <4>3. (\E i \in 1..Len(queue') : queue'[i] = x) => \E i \in 1..Len(queue) : queue[i] = x
        BY <1>9, <3>2
      <4> QED BY <4>1, <4>2, <4>3
    <3> QED BY <3>1, <3>2
  <2>3. ASSUME NEW i \in 1..Len(queue'), NEW k \in 1..Len(queue'), queue'[i] = queue'[k]
        PROVE  i = k
    <3>1. CASE i = n \/ k = n
      BY <1>9, <2>1, <2>3, <3>1
    <3>2. CASE i # n /\ k # n
      <4>1. i \in 1..Len(queue) /\ k \in 1..Len(queue)
        BY <1>9, <3>2
      <4>2. queue[i] = queue[k]
        BY <1>9, <2>3, <4>1
      <4> QED BY <1>1, <4>1, <4>2 DEF QueueExact
    <3> QED BY <3>1, <3>2
  <2>4. ASSUME NEW x \in Slot, query'[x].pc = "queued"
        PROVE  query'[x].background
    BY <1>1, <1>2, <1>8, <2>4 DEF QueueExact, QueryAt
  <2> QED BY <2>2, <2>3, <2>4 DEF QueueExact, QueryAt
<1> QED BY <1>7, <1>10, <1>11, <1>12 DEF Inv

\* The first query in line gets a permit.
LEMMA GrantKeepsInv ==
    ASSUME Inv, NEW s \in Slot, Grant(s)
    PROVE  Inv'
<1> DEFINE r == [query[s] EXCEPT !.pc = "granted"]
           n == Len(queue)
<1>1. query[s] \in Carried /\ DispatchTypeOK /\ QueueExact /\ DeadlineCovers /\ queue \in Seq(Slot)
  BY TaskFacts DEF Inv, DispatchTypeOK
<1>2. /\ queue # <<>> /\ n \in Nat \ {0} /\ queue[1] = s
      /\ queue' \in Seq(Slot) /\ Len(queue') = n - 1
      /\ \A i \in 1..(n - 1) : queue'[i] = queue[i + 1]
  BY <1>1 DEF Grant
<1>3. /\ bgFree > 0 /\ bgFree' = bgFree - 1
      /\ UNCHANGED <<uptime, handler, free, active, deadline>>
  BY DEF Grant
<1>4. query[s].pc = "queued" /\ query[s].background
  <2>1. query[s].pc = "queued"
    BY <1>1, <1>2 DEF QueueExact, QueryAt
  <2> QED BY <1>1, <2>1 DEF QueueExact, QueryAt
<1>5. /\ r \in Carried /\ query' = [query EXCEPT ![s] = r] /\ r.pc = "granted"
      /\ r.background
  BY <1>1, <1>4 DEF Grant, Carried, QueryStage
<1> HIDE DEF r
<1>6. s \notin Counted /\ s \notin Permitted /\ \A h \in Handler : s \notin Searching(h)
  BY <1>4, TaskFacts DEF Inside
<1>7. Counted' = Counted \ {s} /\ Permitted' = Permitted \cup {s}
  BY <1>1, <1>5, Moved DEF Inside
<1>8. \A h \in Handler : Searching(h)' = Searching(h) \ {s}
  BY <1>1, <1>5, Moved
<1>9. Counted' = Counted /\ \A h \in Handler : Searching(h)' = Searching(h)
  BY <1>6, <1>7, <1>8
<1>10. bgFree' + Cardinality(Permitted') = BackgroundLimit /\ bgFree' \in Nat
  <2>1. /\ Cardinality(Permitted') = Cardinality(Permitted) + 1
        /\ Cardinality(Permitted) \in Nat
    BY <1>6, <1>7, CountUp, SetsOfSlots
  <2> QED BY <1>3, <2>1, Counts
<1>11. ActiveCounted'
  BY <1>3, <1>9, Counts DEF ActiveCounted
<1>12. PermitsBalanced'
  BY <1>3, <1>9, <1>10, Counts DEF PermitsBalanced
<1>13. /\ query' \in [Slot -> Carried] /\ query'[s] = r
       /\ \A x \in Slot \ {s} : query'[x] = query[x]
  BY <1>1, <1>5, Moved
<1>14. DispatchTypeOK'
  BY <1>1, <1>2, <1>3, <1>10, <1>13 DEF DispatchTypeOK, Carried
<1>15. DeadlineCovers'
  <2>1. deadline' >= deadline
    BY <1>3, Counts
  <2> QED BY <1>1, <1>5, <1>13, <1>14, <2>1, KeepsDeadline
<1>16. QueueExact'
  <2>1. ASSUME NEW x \in Slot
        PROVE  query'[x].pc = "queued" <=> \E i \in 1..Len(queue') : queue'[i] = x
    <3>1. CASE x = s
      <4>1. \A i \in 1..(n - 1) : queue[i + 1] # s
        BY <1>1, <1>2 DEF QueueExact
      <4> QED BY <1>2, <1>5, <1>13, <3>1, <4>1
    <3>2. CASE x # s
      <4>1. query'[x].pc = "queued" <=> \E i \in 1..n : queue[i] = x
        BY <1>1, <1>13, <3>2 DEF QueueExact, QueryAt
      <4>2. ASSUME NEW i \in 1..n, queue[i] = x
            PROVE  \E k \in 1..Len(queue') : queue'[k] = x
        <5>1. i # 1
          BY <1>2, <3>2, <4>2
        <5>2. i - 1 \in 1..(n - 1) /\ (i - 1) + 1 = i
          BY <1>2, <5>1
        <5>3. queue'[i - 1] = x
          BY <1>2, <4>2, <5>2
        <5> QED BY <1>2, <5>2, <5>3
      <4>3. ASSUME NEW i \in 1..Len(queue'), queue'[i] = x
            PROVE  \E k \in 1..n : queue[k] = x
        <5>1. i + 1 \in 1..n /\ queue[i + 1] = x
          BY <1>2, <4>3
        <5> QED BY <5>1
      <4> QED BY <4>1, <4>2, <4>3
    <3> QED BY <3>1, <3>2
  <2>2. ASSUME NEW i \in 1..Len(queue'), NEW k \in 1..Len(queue'), queue'[i] = queue'[k]
        PROVE  i = k
    <3>1. /\ i + 1 \in 1..n /\ k + 1 \in 1..n /\ queue[i + 1] = queue[k + 1]
          /\ i \in Int /\ k \in Int
      BY <1>2, <2>2
    <3>2. i + 1 = k + 1
      BY <1>1, <3>1 DEF QueueExact
    <3> QED BY <3>1, <3>2
  <2>3. ASSUME NEW x \in Slot, query'[x].pc = "queued"
        PROVE  query'[x].background
    BY <1>1, <1>5, <1>13, <2>3 DEF QueueExact, QueryAt
  <2> QED BY <2>1, <2>2, <2>3 DEF QueueExact, QueryAt
<1> QED BY <1>11, <1>12, <1>14, <1>15, <1>16 DEF Inv

\* A background query is cancelled while it waits in line.
LEMMA CancelQueuedKeepsInv ==
    ASSUME Inv, NEW s \in Slot, CancelQueued(s)
    PROVE  Inv'
<1> DEFINE n == Len(queue)
<1>1. /\ DispatchTypeOK /\ QueueExact /\ DeadlineCovers /\ queue \in Seq(Slot)
      /\ NoQuery \in Carried /\ NoQuery.pc = "idle"
  BY TaskFacts DEF Inv, DispatchTypeOK, NoQuery
<1>2. PICK j \in 1..n :
         /\ queue[j] = s
         /\ queue' = [k \in 1..(n - 1) |-> IF k < j THEN queue[k] ELSE queue[k + 1]]
  BY DEF CancelQueued
<1>3. /\ n \in Nat \ {0} /\ j \in Int /\ 1 <= j /\ j <= n
      /\ \A i \in 1..n : queue[i] \in Slot
  BY <1>1, <1>2
<1>4. /\ queue' \in Seq(Slot) /\ Len(queue') = n - 1
      /\ \A k \in 1..(n - 1) : queue'[k] = IF k < j THEN queue[k] ELSE queue[k + 1]
  <2>1. \A k \in 1..(n - 1) : (IF k < j THEN queue[k] ELSE queue[k + 1]) \in Slot
    BY <1>3
  <2>2. n - 1 \in Nat
    BY <1>3
  <2> QED BY <1>2, <2>1, <2>2
<1>5. /\ query' = [query EXCEPT ![s] = NoQuery] /\ query[s].pc = "queued"
      /\ UNCHANGED <<uptime, handler, free, bgFree, active, deadline>>
  BY DEF CancelQueued, QueryAt
<1>6. s \notin Counted /\ s \notin Permitted /\ \A h \in Handler : s \notin Searching(h)
  BY <1>5, TaskFacts DEF Inside
<1>7. Counted' = Counted \ {s} /\ Permitted' = Permitted \ {s}
  BY <1>1, <1>5, Moved DEF Inside
<1>8. \A h \in Handler : Searching(h)' = Searching(h) \ {s}
  BY <1>1, <1>5, Moved
<1>9. ActiveCounted' /\ PermitsBalanced'
  BY <1>5, <1>6, <1>7, <1>8, SameCounts
<1>10. /\ query' \in [Slot -> Carried] /\ query'[s] = NoQuery
       /\ \A x \in Slot \ {s} : query'[x] = query[x]
  BY <1>1, <1>5, Moved
<1> HIDE DEF NoQuery
<1>11. DispatchTypeOK'
  BY <1>1, <1>4, <1>5, <1>10 DEF DispatchTypeOK, Carried
<1>12. DeadlineCovers'
  <2>1. deadline' >= deadline
    BY <1>5, Counts
  <2> QED BY <1>1, <1>10, <1>11, <2>1, KeepsDeadline
<1>13. ASSUME NEW i \in 1..n, i # j
       PROVE  \E k \in 1..(n - 1) : queue'[k] = queue[i]
  <2>1. CASE i < j
    <3>1. i \in 1..(n - 1) /\ queue'[i] = queue[i]
      BY <1>3, <1>4, <2>1
    <3> QED BY <3>1
  <2>2. CASE i > j
    <3>1. i - 1 \in 1..(n - 1) /\ ~(i - 1 < j) /\ (i - 1) + 1 = i
      BY <1>3, <2>2
    <3>2. queue'[i - 1] = queue[i]
      BY <1>4, <3>1
    <3> QED BY <3>1, <3>2
  <2> QED BY <1>3, <1>13, <2>1, <2>2
<1>14. QueueExact'
  <2>1. ASSUME NEW k \in 1..(n - 1)
        PROVE  \E i \in 1..n : /\ i # j /\ queue'[k] = queue[i]
                               /\ ((i = k /\ k < j) \/ (i = k + 1 /\ k >= j))
    <3>1. CASE k < j
      <4>1. k \in 1..n /\ k # j
        BY <1>3, <3>1
      <4>2. queue'[k] = queue[k]
        BY <1>4, <3>1
      <4> QED BY <3>1, <4>1, <4>2
    <3>2. CASE k >= j
      <4>1. k + 1 \in 1..n /\ k + 1 # j /\ ~(k < j)
        BY <1>3, <3>2
      <4> QED BY <1>4, <3>2, <4>1
    <3> QED BY <1>3, <3>1, <3>2
  <2>2. ASSUME NEW x \in Slot
        PROVE  query'[x].pc = "queued" <=> \E k \in 1..Len(queue') : queue'[k] = x
    <3>1. CASE x = s
      <4>1. \A i \in 1..n : queue[i] = s => i = j
        BY <1>1, <1>2 DEF QueueExact
      <4>2. \A k \in 1..(n - 1) : queue'[k] # s
        BY <2>1, <4>1
      <4> QED BY <1>1, <1>4, <1>10, <3>1, <4>2
    <3>2. CASE x # s
      <4>1. query'[x].pc = "queued" <=> \E i \in 1..n : queue[i] = x
        BY <1>1, <1>10, <3>2 DEF QueueExact, QueryAt
      <4>2. (\E i \in 1..n : queue[i] = x) => \E k \in 1..(n - 1) : queue'[k] = x
        BY <1>2, <1>13, <3>2
      <4>3. (\E k \in 1..(n - 1) : queue'[k] = x) => \E i \in 1..n : queue[i] = x
        BY <2>1
      <4> QED BY <1>4, <4>1, <4>2, <4>3
    <3> QED BY <3>1, <3>2
  <2>3. ASSUME NEW k \in 1..Len(queue'), NEW m \in 1..Len(queue'), queue'[k] = queue'[m]
        PROVE  k = m
    <3>1. k \in 1..(n - 1) /\ m \in 1..(n - 1)
      BY <1>4
    <3>2. PICK i \in 1..n : queue'[k] = queue[i] /\ ((i = k /\ k < j) \/ (i = k + 1 /\ k >= j))
      BY <2>1, <3>1
    <3>3. PICK l \in 1..n : queue'[m] = queue[l] /\ ((l = m /\ m < j) \/ (l = m + 1 /\ m >= j))
      BY <2>1, <3>1
    <3>4. i = l
      BY <1>1, <2>3, <3>2, <3>3 DEF QueueExact
    <3> QED BY <1>3, <3>1, <3>2, <3>3, <3>4
  <2>4. ASSUME NEW x \in Slot, query'[x].pc = "queued"
        PROVE  query'[x].background
    BY <1>1, <1>10, <2>4 DEF QueueExact, QueryAt
  <2> QED BY <2>2, <2>3, <2>4 DEF QueueExact, QueryAt
<1> QED BY <1>9, <1>11, <1>12, <1>14 DEF Inv

\* The invariant is inductive.
LEMMA NextKeepsInv == Inv /\ [DispatchNext]_dispatchVars => Inv'
<1> SUFFICES ASSUME Inv, [DispatchNext]_dispatchVars PROVE Inv'
  OBVIOUS
<1>1. CASE Install \/ DispatchTick \/ UNCHANGED dispatchVars
  <2>1. UNCHANGED <<free, bgFree, queue, active, deadline, query>>
    BY <1>1 DEF Install, DispatchTick, dispatchVars
  <2>2. uptime' \in Nat /\ handler' \in Handler
    BY <1>1, Counts, LimitAssumption DEF Install, DispatchTick, dispatchVars, Handler
  <2>3. DispatchTypeOK'
    BY <2>1, <2>2 DEF Inv, DispatchTypeOK
  <2>4. /\ Counted' = Counted /\ Permitted' = Permitted
        /\ \A h \in Handler : Searching(h)' = Searching(h)
    BY <2>1 DEF Counted, Permitted, Searching, QueryAt
  <2>5. ActiveCounted' /\ PermitsBalanced'
    BY <2>1, <2>4, SameCounts
  <2>6. DeadlineCovers' /\ QueueExact'
    BY <2>1 DEF Inv, DeadlineCovers, QueueExact, QueryAt
  <2> QED BY <2>3, <2>5, <2>6 DEF Inv
<1>2. ASSUME NEW s \in Slot,
             \/ \E b \in BOOLEAN : Arrive(s, b)
             \/ Step(s) \/ CancelQueued(s) \/ CancelGranted(s) \/ CancelSearch(s)
      PROVE  Inv'
  BY <1>2, QuietActionsKeepInv, EnqueueKeepsInv, GrantKeepsInv, EnterKeepsInv,
     SearchLimitedKeepsInv, FinishSearchKeepsInv, LeaveKeepsInv, CancelQueuedKeepsInv,
     CancelGrantedKeepsInv DEF Step
<1> QED BY <1>1, <1>2 DEF DispatchNext

\* Every state of the dispatcher satisfies the invariant.
THEOREM DispatcherInvariant == DispatchSpec => []Inv
BY InitInv, NextKeepsInv, PTL DEF DispatchSpec

\* No counter of the dispatcher or of a handler goes below zero.
THEOREM DispatcherTypeCorrect == DispatchSpec => []DispatchTypeOK
<1>1. Inv => DispatchTypeOK
  BY DEF Inv
<1> QED BY <1>1, DispatcherInvariant, PTL

\* active_queries counts the queries being processed, for any number of tasks
\* and any order of cancellations.
THEOREM ActiveIsCounted == DispatchSpec => []ActiveCounted
<1>1. Inv => ActiveCounted
  BY DEF Inv
<1> QED BY <1>1, DispatcherInvariant, PTL

\* Permits are neither lost nor made up, through refusals, cancellations and
\* reloads.
THEOREM PermitsAreBalanced == DispatchSpec => []PermitsBalanced
<1>1. Inv => PermitsBalanced
  BY DEF Inv
<1> QED BY <1>1, DispatcherInvariant, PTL

\* No admitted foreground query is forgotten by the idle deadline.
THEOREM DeadlineIsKept == DispatchSpec => []DeadlineCovers
<1>1. Inv => DeadlineCovers
  BY DEF Inv
<1> QED BY <1>1, DispatcherInvariant, PTL

\* At most BackgroundLimit background queries run at once, whatever reloads
\* happen.
THEOREM BackgroundBounded == DispatchSpec => [](Cardinality(Permitted) <= BackgroundLimit)
<1>1. Inv => Cardinality(Permitted) <= BackgroundLimit
  <2> SUFFICES ASSUME Inv PROVE Cardinality(Permitted) <= BackgroundLimit
    OBVIOUS
  <2>1. Cardinality(Permitted) \in Nat
    <3>1. IsFiniteSet(Permitted)
      BY SetsOfSlots, LimitAssumption, FS_Subset
    <3> QED BY <3>1, FS_CardinalityType
  <2> QED BY <2>1, Counts, LimitAssumption
<1> QED BY <1>1, DispatcherInvariant, PTL
=============================================================================
