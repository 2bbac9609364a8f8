----------------------------- MODULE NetworkSets -----------------------------
(***************************************************************************)
(* The addresses of an answer are put into kernel sets (ipset, nftables)   *)
(* before the client gets it (dns_mw_nftset.rs): the options a query runs  *)
(* with, chosen from the listener's and a client rule's (dns_mw.rs), the   *)
(* layer of set rules that decides, and the netlink exchanges with the     *)
(* kernel, in which nftables entries with a timeout are refreshed by       *)
(* deleting and adding them (infra/kernel_nftset.rs).                      *)
(*                                                                         *)
(* Netlink messages are abstracted to what they ask of the kernel.  Time   *)
(* passes between queries, not during their exchanges.                     *)
(***************************************************************************)
EXTENDS Naturals, Sequences, FiniteSets, Functions, Absent

CONSTANTS
  SetConfigs,   \* configurations: see MCLocalSide
  SetHorizon    \* bound on the clock

ASSUME SetAssumption ==
  /\ SetHorizon \in Nat
  /\ \A c \in SetConfigs : c.ttls \subseteq Nat

VARIABLES
  setConf,      \* the configuration
  clock,        \* seconds
  entries,      \* the kernel's sets: <<set, address>> to its expiry
  work,         \* by query: what it is doing
  answered,     \* by entry, its latest answer still in use: [ip, set, until, timed]
  failed,       \* entries whose latest update failed
  entriesOverlap    \* entries whose latest update met another one

setVars == <<setConf, clock, entries, work, answered, failed, entriesOverlap>>

SetQueries == setConf.queries

Forever == SetHorizon + 100

-----------------------------------------------------------------------------
(* The options of a query.                                                 *)

NoOpts == [sets |-> Null, skip |-> Null, group |-> Null]

\* ServerOpts::apply: what is not set is taken from the other.
ApplyElement(own, other) == [f \in DOMAIN own |-> IF own[f] # Null THEN own[f] ELSE other[f]]

\* search: a rule for the client's MAC address first, then one for its
\* subnet or address; its options over the listener's, its group over both.
ClientRuleOf(client) ==
  LET of(kind, who) == {i \in DOMAIN setConf.rules :
                          setConf.rules[i].kind = kind /\ setConf.rules[i].who = who}
      first(s) == setConf.rules[CHOOSE i \in s : \A j \in s : i <= j]
      byMac == IF client.mac = Null THEN {} ELSE of("mac", client.mac)
      byNet == of("net", client.net)
  IN  CASE byMac # {} -> first(byMac)
        [] byMac = {} /\ byNet # {} -> first(byNet)
        [] OTHER -> Null

OptionsOf(client) ==
  LET rule == ClientRuleOf(client)
  IN  IF rule = Null THEN setConf.listener
      ELSE [ApplyElement(rule.opts, setConf.listener) EXCEPT
              !.group = IF rule.group # Null THEN rule.group ELSE @]

-----------------------------------------------------------------------------
(* The rules that apply: [for, set], set Null for an ignore.               *)

AppliesTo(rule, ip) == rule.for \in {"all", ip.family}

\* The chain of zones of the queried name in the query's group, then in the
\* default group: the nearest list with a rule for the address.
DomainLayer(group, ip) ==
  LET of(g) == IF g \in DOMAIN setConf.domain THEN setConf.domain[g] ELSE <<>>
      lists == (IF group = Null THEN <<>> ELSE of(group)) \o of("default")
      usable == {i \in DOMAIN lists : \E r \in Range(lists[i]) : AppliesTo(r, ip)}
  IN  IF usable = {} THEN Null ELSE lists[CHOOSE i \in usable : \A j \in usable : i <= j]

OfGroup(table, group) ==
  IF group # Null /\ group \in DOMAIN table /\ table[group] # Null THEN table[group]
  ELSE IF "default" \in DOMAIN table THEN table["default"] ELSE Null

\* One layer: an ignore for the address ends the search with nothing.
LayerSets(layer, ip) ==
  LET own == {r \in Range(layer) : AppliesTo(r, ip)}
  IN  IF \E r \in own : r.set = Null THEN [decided |-> TRUE, sets |-> {}]
      ELSE [decided |-> own # {}, sets |-> {r.set : r \in own}]

\* select_sets
SelectSets(ip, layers) ==
  LET hits == {i \in DOMAIN layers : layers[i] # Null /\ LayerSets(layers[i], ip).decided}
  IN  IF hits = {} THEN {}
      ELSE LayerSets(layers[CHOOSE i \in hits : \A j \in hits : i <= j], ip).sets

\* updates
SetsFor(opts, ip, background, probeFailed) ==
  IF background \/ opts.skip = TRUE THEN {}
  ELSE SelectSets(ip, <<DomainLayer(opts.group, ip), opts.sets,
                        IF probeFailed THEN OfGroup(setConf.noSpeed, opts.group) ELSE Null>>)

AsksTimeout(opts) == OfGroup(setConf.timeout, opts.group) = TRUE

\* Three times the TTL, at least a second; 0 asks for no timeout.
TimeoutOf(opts, ttl) ==
  IF AsksTimeout(opts)
  THEN (IF ttl = 0 THEN 1 ELSE 3 * ttl) ELSE 0

-----------------------------------------------------------------------------
SetsIdle == [at |-> "idle", ip |-> Null, ttl |-> 0, sets |-> {}, todo |-> {},
         timeout |-> 0, set |-> Null, opts |-> NoOpts, alone |-> TRUE]

SetsInit ==
  /\ setConf \in SetConfigs
  /\ clock = 0
  /\ entries = [e \in {} |-> 0]
  /\ work = [q \in SetQueries |-> SetsIdle]
  /\ answered = {}
  /\ failed = {}
  /\ entriesOverlap = {}

\* The answer has come up the chain to this middleware.
Respond(q, client, ip, ttl, background, probeFailed) ==
  /\ work[q].at = "idle"
  /\ LET opts == OptionsOf(client)
         sets == SetsFor(opts, ip, background, probeFailed)
         others == {p \in SetQueries : work[p].at # "idle"}
     IN  work' = [p \in SetQueries |->
           IF p = q
           THEN [at |-> "updates", ip |-> ip, ttl |-> ttl, sets |-> sets, todo |-> sets,
                 timeout |-> TimeoutOf(opts, ttl), set |-> Null, opts |-> opts,
                 alone |-> others = {}]
           ELSE [work[p] EXCEPT !.alone = @ /\ p \notin others]]
  /\ UNCHANGED <<setConf, clock, entries, answered, failed, entriesOverlap>>

\* Whether another query was answered during this one, where entries expire.
MetAnother(q) == setConf.expiring /\ ~work[q].alone

\* The next set; for nftables the set's flags are asked for, which may fail.
NextSet(q) ==
  /\ work[q].at = "updates"
  /\ \E s \in work[q].todo :
       \/ /\ work' = [work EXCEPT ![q].set = s, ![q].todo = @ \ {s},
                        ![q].at = IF setConf.kernel = "ipset" \/ ~setConf.expiring
                                     \/ work[q].timeout = 0
                                  THEN "add" ELSE "delete"]
          /\ UNCHANGED failed
       \/ /\ setConf.kernel = "nft"
          /\ work' = [work EXCEPT ![q].todo = @ \ {s}]
          /\ failed' = failed \cup {<<s, work[q].ip>>}
  /\ UNCHANGED <<setConf, clock, entries, answered, entriesOverlap>>

Entry(q) == <<work[q].set, work[q].ip>>

Expiry(q) == IF work[q].timeout > 0 /\ setConf.expiring
             THEN clock + work[q].timeout ELSE Forever

PutEntry(e, expiry) ==
  [x \in DOMAIN entries \cup {e} |-> IF x = e THEN expiry ELSE entries[x]]
Dropped(e) == [x \in DOMAIN entries \ {e} |-> entries[x]]

\* Mutant: the old entry stays.
DroppedNot(e) == entries

\* A deletion in the kernel; an entry that is not there is no error.
Deleted(e) == Dropped(e)

\* exchange with a deletion.  When it fails the update is given up, and the
\* kernel may or may not have done it (the acknowledgement timed out).
DeleteOld(q) ==
  /\ work[q].at = "delete"
  /\ \/ /\ entries' = Deleted(Entry(q))
        /\ work' = [work EXCEPT ![q].at = "add"]
        /\ UNCHANGED failed
     \/ /\ entries' \in {entries, Deleted(Entry(q))}
        /\ work' = [work EXCEPT ![q].at = "updates"]
        /\ failed' = failed \cup {Entry(q)}
  /\ entriesOverlap' = IF MetAnother(q) THEN entriesOverlap \cup {Entry(q)}
                   ELSE entriesOverlap
  /\ UNCHANGED <<setConf, clock, answered>>

\* ipset replaces an entry; nftables leaves one that is there alone.
AddedEntry(q) ==
  IF setConf.kernel = "nft" /\ Entry(q) \in DOMAIN entries THEN entries
  ELSE PutEntry(Entry(q), Expiry(q))

\* An ipset made without timeouts accepts no entry with one.
KernelRefuses(q) == setConf.kernel = "ipset" /\ ~setConf.expiring /\ work[q].timeout > 0

AddNew(q) ==
  /\ work[q].at = "add"
  /\ \/ /\ ~KernelRefuses(q)
        /\ entries' = AddedEntry(q)
        /\ failed' = failed \ {Entry(q)}
     \/ /\ entries' \in {entries} \cup (IF KernelRefuses(q) THEN {} ELSE {AddedEntry(q)})
        /\ failed' = failed \cup {Entry(q)}
  /\ entriesOverlap' = IF MetAnother(q) THEN entriesOverlap \cup {Entry(q)}
                   ELSE entriesOverlap \ {Entry(q)}
  /\ work' = [work EXCEPT ![q].at = "updates"]
  /\ UNCHANGED <<setConf, clock, answered>>

\* Every update has been tried before the answer goes on.
UpdatesDone(q) == work[q].todo = {}

SendAnswer(q) ==
  /\ work[q].at = "updates" /\ UpdatesDone(q)
  /\ answered' = {a \in answered : a.ip # work[q].ip \/ a.set \notin work[q].sets} \cup
       {[ip |-> work[q].ip, set |-> s, until |-> clock + work[q].ttl,
         timed |-> work[q].timeout > 0] : s \in work[q].sets}
  /\ work' = [work EXCEPT ![q] = SetsIdle]
  /\ UNCHANGED <<setConf, clock, entries, failed, entriesOverlap>>

\* Time passes: the kernel drops what has expired, clients forget.
PassTime ==
  /\ clock < SetHorizon
  /\ \A q \in SetQueries : work[q].at = "idle"
  /\ clock' = clock + 1
  /\ entries' = [x \in {e \in DOMAIN entries : entries[e] > clock'} |-> entries[x]]
  /\ answered' = {a \in answered : a.until > clock'}
  /\ UNCHANGED <<setConf, work, failed, entriesOverlap>>

\* Nothing left to do at the bound.
SetsEnd ==
  /\ clock = SetHorizon /\ \A q \in SetQueries : work[q].at = "idle"
  /\ UNCHANGED setVars

SetsNext ==
  \/ \E q \in SetQueries, client \in setConf.clients, ip \in setConf.ips, ttl \in setConf.ttls,
        background, probeFailed \in BOOLEAN :
       Respond(q, client, ip, ttl, background, probeFailed)
  \/ \E q \in SetQueries :
       NextSet(q) \/ DeleteOld(q) \/ AddNew(q) \/ SendAnswer(q)
  \/ PassTime
  \/ SetsEnd

SetsSpec == SetsInit /\ [][SetsNext]_setVars

-----------------------------------------------------------------------------
(* Properties.                                                             *)

\* The update of an answer without a timeout leaves an nftables entry alone
\* that another group's answer has given one.
KeepsOldTimeout(a) ==
  /\ setConf.kernel = "nft" /\ setConf.expiring /\ ~a.timed
  /\ \E client \in setConf.clients : AsksTimeout(OptionsOf(client))

\* Until the TTL of the latest answer that put an address into a set is over
\* the address is in the set, apart from the moment between the deletion and
\* the addition of an entry (add in kernel_nftset.rs), and unless the entry's
\* latest update failed or, where entries expire, met another one, or left an
\* older timeout in place (KeepsOldTimeout).
EntryOutlivesAnswer ==
  \A a \in answered : a.until > clock /\ ~KeepsOldTimeout(a) =>
    \/ <<a.set, a.ip>> \in DOMAIN entries \cup failed \cup entriesOverlap
    \/ \E q \in SetQueries : work[q].at = "add" /\ Entry(q) = <<a.set, a.ip>>

\* "Install routing entries first so their first connection uses these
\* rules" (handle): the addresses of the latest answer are in its sets as
\* long as the exchanges with the kernel succeed.  Not so: an nft element is
\* deleted and added again in two exchanges, between which it is missing.
RoutedWhileValid ==
  \A a \in answered : a.until > clock =>
    <<a.set, a.ip>> \in DOMAIN entries \cup failed
=============================================================================
