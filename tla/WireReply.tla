------------------------------ MODULE WireReply ------------------------------
(***************************************************************************)
(* A response on its way to the client (dns.rs, the reply side of           *)
(* dns_mw_cache.rs, dns_mw_addr.rs and app.rs).  A response holds its       *)
(* records and, optionally, two things derived from them: the encoding that *)
(* a hot cache entry keeps (prepared_wire) and the size it was received     *)
(* with (wire_len).  Whatever changes the records has to drop them.         *)
(***************************************************************************)
EXTENDS Integers, Sequences, FiniteSetsExt, Absent

CONSTANTS
  Messages,     \* what an upstream may answer: see Message
  Confs,        \* the TTL and reply options: see Conf
  Ages,         \* the remaining lifetimes a cache hit may find
  LocalTtl,     \* the TTL of a locally made record
  WireLimit     \* how many records the encoder fits into a message

VARIABLES
  wireConf,         \* the options in force for the question
  entry,        \* the cache entry of the question, Null without one
  rsp,          \* the response in hand, Null between questions
  stage,        \* "idle", "address" or "reply"
  wireSent          \* what the client decoded from the wire, until the next question

wireVars == <<wireConf, entry, rsp, stage, wireSent>>

\* code, the truncation flag, the answers in order and the authority TTLs.
Message == [code : Nat, tc : BOOLEAN,
            ans : Seq([addr : BOOLEAN, ttl : Nat, of : {"question", "target"}]),
            auth : Seq(Nat)]

ASSUME MessageAssumption == Messages \subseteq Message

-----------------------------------------------------------------------------
(* DnsResponse.                                                            *)

Lower(a, b) == IF a < b THEN a ELSE b
Higher(a, b) == IF a > b THEN a ELSE b

FirstOf(seq, n) == SubSeq(seq, 1, Lower(Len(seq), n))

\* The encoder stops at the limit and says so.
Encode(m) ==
  [tc |-> m.tc \/ Len(m.ans) + Len(m.auth) > WireLimit,
   ans |-> FirstOf(m.ans, WireLimit),
   auth |-> FirstOf(m.auth, Higher(WireLimit - Len(m.ans), 0))]

\* A name in full takes more room than a compressed one.
Size(m) ==
  Len(m.auth) + Len(m.ans) + Cardinality({i \in DOMAIN m.ans : m.ans[i].of = "target"})

\* From<xfer::DnsResponse>: the received size is known.
WireReceived(m) == [msg |-> m, wire |-> Null, wireLen |-> Size(m)]

\* new_with_deadline, empty.
Made(m) == [msg |-> m, wire |-> Null, wireLen |-> Null]

\* deref_mut: the records may change in any way.
Changed(r, m) == [msg |-> m, wire |-> Null, wireLen |-> Null]

\* The setters change TTLs only, and only if one is out of bounds.
AnyAbove(m, ttl) ==
  \/ \E i \in DOMAIN m.ans : m.ans[i].ttl > ttl
  \/ \E i \in DOMAIN m.auth : m.auth[i] > ttl

Capped(m, ttl) ==
  [m EXCEPT !.ans = [i \in DOMAIN m.ans |->
                       [m.ans[i] EXCEPT !.ttl = Lower(m.ans[i].ttl, ttl)]],
            !.auth = [i \in DOMAIN m.auth |-> Lower(m.auth[i], ttl)]]

SetMaxTtl(r, ttl) ==
  IF AnyAbove(r.msg, ttl) THEN [r EXCEPT !.msg = Capped(r.msg, ttl), !.wire = Null] ELSE r

PrepareWire(r) == IF r.wire = Null THEN [r EXCEPT !.wire = Encode(r.msg)] ELSE r

\* to_vec, into_reply_parts.
ToVec(r) == IF r.wire # Null THEN r.wire ELSE Encode(r.msg)

-----------------------------------------------------------------------------
(* rr_ttl_limits: 0 means unset throughout.                                *)

Conf == [ruleTtl : Nat, ruleMin : Nat, ruleMax : Nat,
         ttl : Nat, min : Nat, max : Nat, replyMax : Nat, maxIps : Nat]

RrTtlLimits(c) ==
  LET fixed == IF c.ruleTtl > 0 THEN c.ruleTtl ELSE c.ttl
      min == IF c.ruleMin > 0 THEN c.ruleMin
             ELSE IF c.ruleMax > 0 /\ c.min >= c.ruleMax THEN c.ruleMax
             ELSE c.min
      max == IF c.ruleMax > 0 THEN c.ruleMax
             ELSE IF c.ruleMin > 0 /\ c.max > 0 /\ c.max <= c.ruleMin THEN c.ruleMin
             ELSE c.max
  IN  IF fixed > 0 THEN [min |-> fixed, max |-> fixed]
      ELSE [min |-> min, max |-> IF max > 0 /\ max < min THEN min ELSE max]

-----------------------------------------------------------------------------
(* The address middleware on the way up.                                   *)

IpsUpTo(ans, i) == Cardinality({j \in 1..i : ans[j].addr})

\* max-reply-ip-num: cut behind the last address that is allowed.
Truncated(ans, n) ==
  LET ends == {i \in DOMAIN ans : ans[i].addr /\ IpsUpTo(ans, i) = n}
  IN  IF n = 0 \/ ends = {} THEN ans ELSE SubSeq(ans, 1, Min(ends))

ReplyTtl(c, ttl) ==
  LET l == RrTtlLimits(c)
      raised == Higher(ttl, l.min)
  IN  IF c.replyMax > 0 THEN Lower(raised, c.replyMax)
      ELSE IF l.max > 0 THEN Lower(raised, l.max)
      ELSE raised

\* Mutant: the TTLs are set behind the encoding's back.
AddressUpKeepingWire(r) ==
  LET l == RrTtlLimits(wireConf)
      cut == Truncated(r.msg.ans, wireConf.maxIps)
  IN  [r EXCEPT !.msg.ans = [i \in DOMAIN cut |->
                               [cut[i] EXCEPT !.ttl = ReplyTtl(wireConf, @)]]]

AddressUp(r) ==
  LET l == RrTtlLimits(wireConf)
      cut == Truncated(r.msg.ans, wireConf.maxIps)
      shorter == IF Len(cut) < Len(r.msg.ans)
                 THEN Changed(r, [r.msg EXCEPT !.ans = cut]) ELSE r
  IN  IF l.min = 0 /\ l.max = 0 /\ wireConf.replyMax = 0 THEN shorter
      ELSE Changed(shorter,
             [shorter.msg EXCEPT !.ans = [i \in DOMAIN @ |->
                                            [@[i] EXCEPT !.ttl = ReplyTtl(wireConf, @)]]])

-----------------------------------------------------------------------------
WireInit ==
  /\ wireConf \in Confs
  /\ entry = Null /\ rsp = Null /\ stage = "idle" /\ wireSent = Null

\* An upstream answers; the cache keeps what it returns (insert_response).
Fresh(m, keep) ==
  /\ stage = "idle"
  /\ rsp' = WireReceived(m)
  /\ entry' = IF keep THEN [data |-> WireReceived(m), replyTtl |-> Null, ttlReply |-> Null]
              ELSE entry
  /\ stage' = "address"
  /\ wireSent' = Null
  /\ UNCHANGED wireConf

\* get: the names are put right, the TTLs capped, and an answer given twice
\* with one TTL is kept encoded.
Hit(ttl) ==
  LET names == {entry.data.msg.ans[i].of : i \in DOMAIN entry.data.msg.ans}
      renamed == [entry.data.msg EXCEPT !.ans =
                    [i \in DOMAIN @ |-> [@[i] EXCEPT !.of = "question"]]]
      named == IF /\ \A i \in DOMAIN entry.data.msg.ans : entry.data.msg.ans[i].addr
                  /\ "target" \in names
               THEN Changed(entry.data, renamed) ELSE entry.data
      capped == SetMaxTtl(named, ttl)
      repeated == entry.replyTtl = ttl
      ready == IF repeated THEN PrepareWire(capped) ELSE capped
  IN  /\ stage = "idle" /\ entry # Null
      /\ stage' = "address"
      /\ IF repeated /\ entry.ttlReply # Null
         THEN rsp' = entry.ttlReply /\ UNCHANGED entry
         ELSE /\ rsp' = ready
              /\ \E fits \in BOOLEAN :       \* within the memory limit or not
                   entry' = [entry EXCEPT !.replyTtl = ttl,
                               !.ttlReply = IF repeated /\ fits THEN ready ELSE Null]
      /\ wireSent' = Null
      /\ UNCHANGED wireConf

\* Dual-stack selection, a zone or a rule answers with records of its own.
Local(n) ==
  /\ stage = "idle"
  /\ rsp' = Made([code |-> 0, tc |-> FALSE, auth |-> <<>>,
                  ans |-> [i \in 1..n |-> [addr |-> TRUE, ttl |-> LocalTtl,
                                           of |-> "question"]]])
  /\ stage' = "address"
  /\ wireSent' = Null
  /\ UNCHANGED <<wireConf, entry>>

Shape ==
  /\ stage = "address"
  /\ rsp' = AddressUp(rsp)
  /\ stage' = "reply"
  /\ UNCHANGED <<wireConf, entry, wireSent>>

\* SerialMessage::reply and its encoding: the client's header over the
\* encoded sections, truncated if either the message or the encoder says so.
Send ==
  LET bytes == ToVec(rsp)
  IN  /\ stage = "reply"
      /\ wireSent' = [code |-> rsp.msg.code, tc |-> rsp.msg.tc \/ bytes.tc,
                  ans |-> bytes.ans, auth |-> bytes.auth, of |-> rsp.msg]
      /\ rsp' = Null
      /\ stage' = "idle"
      /\ UNCHANGED <<wireConf, entry>>

WireNext ==
  \/ \E m \in Messages, keep \in BOOLEAN : Fresh(m, keep)
  \/ \E ttl \in Ages : Hit(ttl)
  \/ \E n \in {1, 2} : Local(n)
  \/ Shape \/ Send

WireSpec == WireInit /\ [][WireNext]_wireVars

-----------------------------------------------------------------------------
(* Properties.                                                             *)

Held == {r \in {rsp} \cup (IF entry = Null THEN {} ELSE {entry.data, entry.ttlReply}) :
           r # Null}

\* What is derived from a response stays true of it: a kept encoding is the
\* encoding of the records it stands for, through every clone, TTL change and
\* rewrite (DnsResponse's setters and deref_mut), and a kept size is the size
\* of the message in its present structure.
DerivedIsCurrent ==
  \A r \in Held :
    /\ r.wire # Null => r.wire = Encode(r.msg)
    /\ r.wireLen # Null => r.wireLen = Size(r.msg)

=============================================================================
