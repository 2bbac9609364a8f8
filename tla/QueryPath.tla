------------------------------ MODULE QueryPath ------------------------------
(***************************************************************************)
(* One client question on its way through the chain of middlewares that    *)
(* build_middleware (app.rs) assembles, and back: redirection by a cname   *)
(* rule, DNS64, address rules, the local sources (dnsmasq leases, zones,   *)
(* odhcpd leases, hosts files), the cache, dual-stack selection, the       *)
(* bogus-nxdomain filter and the upstreams.  Each middleware may answer,   *)
(* rewrite the question for the ones below it, or change the answer that   *)
(* comes back up; what the chain promises depends on their order.          *)
(*                                                                         *)
(* Answers are abstracted to the question they carry, their response code, *)
(* whether they have an SOA, and records that remember whose they are.     *)
(* TTLs, record contents and the number of addresses are left out; the     *)
(* modules on the cache, on the selection of addresses and on dual-stack   *)
(* selection refine the middlewares named after them.                      *)
(***************************************************************************)
EXTENDS Naturals, Sequences, FiniteSets, Absent

CONSTANTS
  Configs,      \* the configurations the service may run with, and what is asked of it
  Target,       \* the name the cname rule redirects to
  Private       \* PTR names of private addresses

VARIABLES
  conf,         \* the configuration the chain was built from
  asked,        \* the client's question, Null when none is being answered
  at,           \* position in the chain
  req,          \* the question as the middleware at that position sees it
  ctx,          \* the context: the name whose rules apply, no_cache
  res,          \* the answer or error on its way up, Null on the way down
  outer,        \* the question the cname middleware has put aside
  firstErr,     \* the error of the AAAA lookup while DNS64 asks for A
  through,      \* the question entered the cache middleware's own path
  late,         \* pending_speed_check: the answer a late probe will prefer
  jobs,         \* the speed checks finishing in the background
  store,        \* the cache, by question
  reply         \* the last reply, with the question it answers

pathVars == <<conf, asked, at, req, ctx, res, outer, firstErr, through, late,
              jobs, store, reply>>

IpTypes == {"A", "AAAA"}

Record(name, type, made) == [of |-> name, type |-> type, made |-> made]

Answer(q, code, rrs, soa) ==
  [ok |-> TRUE, q |-> q, code |-> code, rrs |-> rrs, soa |-> soa]

Failure(code, soa) ==
  [ok |-> FALSE, q |-> Null, code |-> code, rrs |-> {}, soa |-> soa]

HasType(a, q) == \E r \in a.rrs : r.type = q.type

-----------------------------------------------------------------------------
(* The chain.                                                              *)

\* Mutant: the cache is asked before the question is rewritten.
OrderCacheFirst ==
  <<"cache", "cname", "dns64", "address", "dnsmasq", "zone", "odhcpd", "hosts",
    "dualstack", "bogus", "nameserver">>

Order == <<"cname", "dns64", "address", "dnsmasq", "zone", "odhcpd", "hosts",
           "cache", "dualstack", "bogus", "nameserver">>

Always == {"address", "zone", "nameserver"}

\* The positions at which build_middleware puts a middleware, and the built
\* one that follows and that precedes a position; 0 is before the chain.
Built == {i \in DOMAIN Order : Order[i] \in Always \cup conf.on}

Following(i) ==
  CHOOSE j \in Built : j > i /\ \A k \in Built : k > i => j <= k

Preceding(i) ==
  CHOOSE j \in Built \cup {0} : j < i /\ \A k \in Built : k < i => k <= j

Here(mw) == asked # Null /\ at \in Built /\ Order[at] = mw

Down(mw) == Here(mw) /\ res = Null
Up(mw) == Here(mw) /\ res # Null

Pass == at' = Following(at) /\ UNCHANGED res
Return(r) == at' = Preceding(at) /\ res' = r

-----------------------------------------------------------------------------
(* Address rules (handle_rule_addr).                                       *)

\* What one rule of the zone chain says of a query: an answer, "none" to
\* leave the question to the rest of the chain, "next" to ask the parent zone.
Verdict(value, type, noSoa) ==
  IF value = Null THEN "next"
  ELSE IF value = "SOA" /\ ~noSoa THEN "nxdomain"
  ELSE IF type \notin IpTypes THEN "none"
  ELSE
  CASE value = "v4" /\ type = "A" -> "static"
    [] value = "v4" /\ type = "AAAA" -> "mapped"
    [] value = "v6" /\ type = "AAAA" -> "static"
    [] value = "v6" /\ type = "A" /\ ~noSoa -> "soa"
    [] value = "SOAv4" /\ type = "A" /\ ~noSoa -> "soa"
    [] value = "SOAv6" /\ type = "AAAA" /\ ~noSoa -> "soa"
    [] value = "IGN" -> "none"
    [] value = "IGNv4" /\ type = "A" -> "none"
    [] value = "IGNv6" /\ type = "AAAA" -> "none"
    [] OTHER -> "next"

RuleAddr(type, name) ==
  LET chain == conf.address[name]
      says(i) == Verdict(chain[i], type, conf.noSoa)
      decisive == {i \in DOMAIN chain : says(i) # "next"}
  IN  IF ~conf.noSoa /\ type \in conf.force THEN "soa"
      ELSE IF conf.noAddr \/ decisive = {} THEN "none"
      ELSE says(CHOOSE i \in decisive : \A j \in decisive : i <= j)

RuleAnswer(q, verdict) ==
  CASE verdict = "nxdomain" -> Answer(q, "nx", {}, TRUE)
    [] verdict = "soa" -> Answer(q, "ok", {}, TRUE)
    [] OTHER -> Answer(q, "ok", {Record(q.name, q.type, verdict)}, FALSE)

-----------------------------------------------------------------------------
PathInit ==
  /\ conf \in Configs
  /\ asked = Null /\ at = 0 /\ req = Null /\ ctx = Null /\ res = Null
  /\ outer = Null /\ firstErr = Null /\ through = FALSE
  /\ late = Null /\ jobs = {}
  /\ store = [q \in {} |-> Null]
  /\ reply = Null

\* DnsMiddlewareHandler::search: a context for the name asked, then the chain.
Ask(q) ==
  /\ asked = Null
  /\ asked' = q /\ req' = q /\ at' = Following(0)
  /\ ctx' = [name |-> q.name, noCache |-> q.name \in conf.noCache]
  /\ reply' = Null
  /\ UNCHANGED <<conf, res, outer, firstErr, through, late, jobs, store>>

\* A cname rule answers a CNAME question itself; any other question goes on
\* for the target, in a context of its own.
CNameDown ==
  /\ Down("cname")
  /\ IF req.name \notin conf.redirected THEN
       /\ Pass
       /\ UNCHANGED <<req, ctx, outer>>
     ELSE IF req.type = "CNAME" THEN
       /\ Return(Answer(req, "ok", {Record(req.name, "CNAME", "static")}, FALSE))
       /\ UNCHANGED <<req, ctx, outer>>
     ELSE
       /\ Pass
       /\ outer' = req
       /\ req' = [req EXCEPT !.name = Target]
       /\ ctx' = [name |-> Target, noCache |-> Target \in conf.noCache]
  /\ UNCHANGED <<conf, asked, firstErr, through, late, jobs, store, reply>>

\* The target's answer gets the client's question and the CNAME record; the
\* context of the target is gone.
CNamed(r) ==
  IF r.ok
  THEN [r EXCEPT !.q = outer,
                 !.rrs = @ \cup {Record(outer.name, "CNAME", "static")}]
  ELSE r

CNameUp ==
  /\ Up("cname")
  /\ Return(IF outer = Null THEN res ELSE CNamed(res))
  /\ req' = IF outer = Null THEN req ELSE outer
  /\ ctx' = IF outer = Null THEN ctx
            ELSE [name |-> outer.name, noCache |-> outer.name \in conf.noCache]
  /\ outer' = Null
  /\ UNCHANGED <<conf, asked, firstErr, through, late, jobs, store, reply>>

\* When the AAAA lookup fails, the same chain is asked for A.  The second
\* request is built from the client's message, so it is for the name the
\* client asked, whatever req.name is.
Retyped(r) ==
  [r EXCEPT !.q.type = "AAAA",
            !.rrs = {IF x.type = "A" THEN Record(x.of, "AAAA", "dns64") ELSE x :
                       x \in @}]

Dns64Up ==
  /\ Up("dns64")
  /\ IF firstErr # Null THEN
       /\ Return(IF res.ok THEN Retyped(res) ELSE firstErr)
       /\ firstErr' = Null
       /\ req' = IF outer = Null THEN asked ELSE [asked EXCEPT !.name = Target]
     ELSE IF req.type = "AAAA" /\ ~res.ok THEN
       /\ firstErr' = res
       /\ req' = [name |-> asked.name, type |-> "A"]
       /\ at' = Following(at) /\ res' = Null
     ELSE
       /\ Return(res)
       /\ UNCHANGED <<firstErr, req>>
  /\ UNCHANGED <<conf, asked, ctx, outer, through, late, jobs, store, reply>>

AddressDown ==
  /\ Down("address")
  /\ LET v == RuleAddr(req.type, ctx.name)
     IN  IF v = "none" THEN Pass ELSE Return(RuleAnswer(req, v))
  /\ UNCHANGED <<conf, asked, req, ctx, outer, firstErr, through, late, jobs,
                 store, reply>>

\* The PTR names of private addresses the server does not have itself.
EmptyZone(mw, q) == mw = "zone" /\ q.type = "PTR" /\ q.name \in Private

\* A source of local records answers what it has, and the zones answer the
\* PTR names of private addresses empty.
LocalDown(mw) ==
  /\ Down(mw)
  /\ IF req \in conf.local[mw] THEN
       Return(Answer(req, "ok", {Record(req.name, req.type, mw)}, FALSE))
     ELSE IF EmptyZone(mw, req) THEN
       Return(Answer(req, "ok", {}, FALSE))
     ELSE Pass
  /\ UNCHANGED <<conf, asked, req, ctx, outer, firstErr, through, late, jobs,
                 store, reply>>

\* DnsCacheMiddleware::handle up to next.run: an entry of the name's group is
\* the answer.
CacheDown ==
  /\ Down("cache")
  /\ IF /\ ~ctx.noCache
        /\ req \in DOMAIN store
        /\ store[req].group = conf.group[ctx.name]
     THEN Return(store[req].answer) /\ through' = FALSE
     ELSE Pass /\ through' = ~ctx.noCache
  /\ UNCHANGED <<conf, asked, req, ctx, outer, firstErr, late, jobs, store,
                 reply>>

Insert(a, group) ==
  [q \in DOMAIN store \cup {a.q} |->
     IF q = a.q THEN [answer |-> a, group |-> group] ELSE store[q]]

\* The rest of it: a negative error becomes an answer, negative answers with
\* an SOA and answers with a record of the type asked are kept, and a speed
\* check that is still running goes on only behind an answer that was kept.
CacheUp ==
  /\ Up("cache")
  /\ LET r == IF through /\ ~res.ok /\ res.code \in {"nx", "nodata"}
              THEN Answer(req, IF res.code = "nx" THEN "nx" ELSE "ok", {}, res.soa)
              ELSE res
         negative == r.soa /\ ~(r.code = "ok" /\ HasType(r, r.q))
         kept == through /\ r.ok /\ ~ctx.noCache
                 /\ (negative \/ HasType(r, req))
     IN  /\ Return(r)
         /\ store' = IF kept THEN Insert(r, conf.group[ctx.name]) ELSE store
         /\ jobs' = IF /\ kept /\ ~negative /\ late # Null
                       /\ \A j \in jobs : j.answer.q # req
                    THEN jobs \cup {[answer |-> late, group |-> conf.group[ctx.name]]}
                    ELSE jobs
  /\ late' = Null /\ through' = FALSE
  /\ UNCHANGED <<conf, asked, req, ctx, outer, firstErr, reply>>

\* Dual-stack selection may prefer the other family and answer that this one
\* has no records.
DualStackUp ==
  /\ Up("dualstack")
  /\ \/ Return(res)
     \/ /\ res.ok /\ req.type \in IpTypes
        /\ Return(Answer(req, "ok", {}, TRUE))
  /\ UNCHANGED <<conf, asked, req, ctx, outer, firstErr, through, late, jobs,
                 store, reply>>

HasBogus(a) == \E r \in a.rrs : r.made = "bogus"

BogusUp ==
  /\ Up("bogus")
  /\ Return(IF req.type \in IpTypes /\ res.ok /\ HasBogus(res)
            THEN Failure("nx", FALSE) ELSE res)
  /\ UNCHANGED <<conf, asked, req, ctx, outer, firstErr, through, late, jobs,
                 store, reply>>

\* What the upstreams of a group may return.
Upstream(q) ==
  {Answer(q, "ok", {Record(q.name, q.type, "upstream")}, FALSE),
   Answer(q, "ok", {}, FALSE),
   Failure("nodata", TRUE), Failure("nx", TRUE), Failure("failed", FALSE)}
  \cup (IF q.type \in IpTypes
        THEN {Answer(q, "ok", {Record(q.name, q.type, "bogus")}, FALSE)} ELSE {})

\* NameServerMiddleware::handle: the address of an upstream's own host name
\* is known locally and not cached; otherwise the group of the rules is
\* asked, and a fastest-response lookup leaves its speed check for later.
NameServerDown ==
  /\ Down("nameserver")
  /\ IF req \in conf.ownHosts THEN
       /\ Return(Answer(req, "ok", {Record(req.name, req.type, "bootstrap")}, FALSE))
       /\ ctx' = [ctx EXCEPT !.noCache = TRUE]
       /\ UNCHANGED late
     ELSE
       /\ \E r \in Upstream(req) : Return(r)
       /\ late' \in {Null} \cup
            (IF /\ conf.deferred /\ "cache" \in conf.on /\ ~ctx.noCache
                /\ req.type \in IpTypes
             THEN {a \in Upstream(req) : a.ok} ELSE {})
       /\ UNCHANGED ctx
  /\ UNCHANGED <<conf, asked, req, outer, firstErr, through, jobs, store, reply>>

\* The middlewares that leave the question alone on the way down, and those
\* that leave the answer alone on the way up.
Descend ==
  /\ \E mw \in {"dns64", "dualstack", "bogus"} : Down(mw)
  /\ Pass
  /\ UNCHANGED <<conf, asked, req, ctx, outer, firstErr, through, late, jobs,
                 store, reply>>

Unwind ==
  /\ \E mw \in {"address", "dnsmasq", "zone", "odhcpd", "hosts"} :
       Up(mw)
  /\ Return(res)
  /\ UNCHANGED <<conf, asked, req, ctx, outer, firstErr, through, late, jobs,
                 store, reply>>

\* process (app.rs) turns the result into the reply message.
Reply ==
  /\ asked # Null /\ at = 0 /\ res # Null
  /\ reply' = [to |-> asked,
               answer |-> IF res.ok THEN res
                          ELSE Answer(asked,
                                      CASE res.code = "nx" -> "nx"
                                        [] res.code = "nodata" -> "ok"
                                        [] OTHER -> "servfail",
                                      {}, res.soa)]
  /\ asked' = Null /\ res' = Null /\ req' = Null /\ ctx' = Null /\ late' = Null
  /\ UNCHANGED <<conf, at, outer, firstErr, through, jobs, store>>

\* Mutant: the late answer is trusted.
AcceptableUnchecked(a) == HasType(a, a.q)

\* finish_speed_check: the answer of the late probe replaces the cached one
\* if it has records of the type and none of them is bogus.
Acceptable(a) == HasType(a, a.q) /\ ~("bogus" \in conf.on /\ HasBogus(a))

FinishSpeedCheck(job) ==
  /\ store' = IF Acceptable(job.answer) THEN Insert(job.answer, job.group)
              ELSE store
  /\ jobs' = jobs \ {job}
  /\ UNCHANGED <<conf, asked, at, req, ctx, res, outer, firstErr, through,
                 late, reply>>

PathNext ==
  \/ \E q \in conf.asks : Ask(q)
  \/ CNameDown \/ CNameUp
  \/ Dns64Up
  \/ AddressDown
  \/ \E mw \in {"dnsmasq", "zone", "odhcpd", "hosts"} : LocalDown(mw)
  \/ CacheDown \/ CacheUp
  \/ DualStackUp \/ BogusUp \/ NameServerDown
  \/ Descend \/ Unwind
  \/ Reply
  \/ \E job \in jobs : FinishSpeedCheck(job)

-----------------------------------------------------------------------------
(* Properties.                                                             *)

\* With bogus-nxdomain configured, no address it names reaches a client or
\* the cache, not even through the speed check that finishes after the reply
\* (dns_mw_bogus.rs, finish_speed_check).
BogusNeverServed ==
  "bogus" \in conf.on =>
    /\ reply # Null => ~HasBogus(reply.answer)
    /\ \A q \in DOMAIN store : ~HasBogus(store[q].answer)

\* A cache entry holds what was found for the question it is found by: the
\* rewritten question of a redirected or DNS64 lookup never files its answer
\* under another one.
CacheKeyedByQuestion ==
  \A q \in DOMAIN store :
    \A r \in store[q].answer.rrs : r.of = q.name /\ r.type = q.type

\* The addresses in the reply for a redirected name are the target's.  Not so
\* for what dns64 makes: its second question is built from the message as it
\* came in, with the name before the redirection.
RedirectHonoured ==
  reply # Null /\ reply.to.name \in conf.redirected /\ "cname" \in conf.on =>
    \A r \in reply.answer.rrs : r.type = "CNAME" \/ r.of = Target

\* The odhcpd lease file supplies reverse records: the PTR question for a
\* leased address is answered with the lease's name.  Not so for private
\* addresses: the zone middleware comes first and answers with nothing.
LeaseReverseAnswered ==
  /\ reply # Null
  /\ "odhcpd" \in conf.on
  /\ reply.to.type = "PTR"
  /\ reply.to \in conf.local["odhcpd"]
  => reply.answer.rrs # {}

PathSpec == PathInit /\ [][PathNext]_pathVars
=============================================================================
