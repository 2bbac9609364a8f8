----------------------------- MODULE DomainRules -----------------------------
(* The domain rules of a rule group: how the lines of a configuration become *)
(* the rules of names (src/dns_rule.rs, src/config/domain_rule.rs), and      *)
(* which rule a query finds (src/collections.rs).                            *)
(*                                                                           *)
(* A name is the sequence of its labels, the root <<>>; a pattern of a "*"   *)
(* name is the set of the labels it matches.  Of the options of a rule only  *)
(* one stands for all that are inherited alone, address; nameserver with the *)
(* recheck options, and the three TTL options, are inherited together.       *)
EXTENDS Naturals, Sequences, FiniteSets, FiniteSetsExt, Absent

CONSTANTS Domains,         \* the sets of keys a line may be about: a name or a domain-set
          RuleConfigs,         \* the options a domain-rules line may set, see DomainRule
          RuleQueries, MaxLines

RuleOptions == {"nameserver", "recheckNs", "recheckSet", "address", "ttl", "ttlMin", "ttlMax"}
Unset == [o \in RuleOptions |-> Null]

VARIABLES ruleLines,  \* how many lines were applied
          ruleList,   \* which list is being applied: domain_rules, then the others
          written,    \* name_rule_map: the options the lines set for a name
          nodes,      \* the DomainMap: key -> its rule and the key of its zone
          subs        \* the "*" names in the order of their insertion

ruleVars == <<ruleLines, ruleList, written, nodes, subs>>

RuleKey(kind, name) == [kind |-> kind, name |-> name, pat |-> {}]

-----------------------------------------------------------------------------
(* The lines.                                                              *)

\* DomainRule += : the later line wins, option by option.
MergeRules(rule, config) ==
    [o \in RuleOptions |-> IF config[o] # Null THEN config[o] ELSE rule[o]]

Written(k) == IF k \in DOMAIN written THEN written[k] ELSE Unset

\* update_rule for every name of the line's domain.
UpdateRules(ks, config) ==
    /\ ruleLines < MaxLines /\ ruleLines' = ruleLines + 1
    /\ written' = [k \in DOMAIN written \cup ks |->
                      IF k \in ks THEN MergeRules(Written(k), config) ELSE written[k]]
    /\ UNCHANGED <<nodes, subs>>

DomainRule(ks, config) ==
    /\ ruleList = "domain_rules"
    /\ UpdateRules(ks, config)
    /\ UNCHANGED ruleList

\* The lists after domain_rules: address, forward, cname, srv, https, nftset
\* each set one option, wherever their line is in the file.
OtherRule(ks, option) ==
    /\ ruleList \in {"domain_rules", "others"} /\ ruleList' = "others"
    /\ \E c \in RuleConfigs : c[option] # Null /\ UpdateRules(ks, [Unset EXCEPT ![option] = c[option]])

-----------------------------------------------------------------------------
(* DomainMap.                                                              *)

Parent(name, level) == SubSeq(name, level + 1, Len(name))

\* or_else
Or(k, l) == IF k # Null THEN k ELSE l

GetExact(kind, name) == IF RuleKey(kind, name) \in DOMAIN nodes THEN RuleKey(kind, name) ELSE Null

\* The "*" name inserted first of those one level above the name that match.
FirstSub(name) ==
    LET hits == {i \in DOMAIN subs : subs[i].name = Parent(name, 1) /\ name[1] \in subs[i].pat}
    IN IF hits = {} THEN Null ELSE subs[Min(hits)]

\* What find looks for at a level: the full and the default name, then for each
\* parent its "*" names (first parent only), suffix and default names.
FindAt(name, level) ==
    Or(CASE level = 0 -> GetExact("Full", name)
         [] level = 1 -> Or(FirstSub(name), GetExact("Suffix", Parent(name, 1)))
         [] OTHER -> GetExact("Suffix", Parent(name, level)),
       GetExact("Default", Parent(name, level)))

\* A wildcard query name is matched as its parent.
FindRule(q) ==
    LET name == IF q # <<>> /\ q[1] = "*" THEN Tail(q) ELSE q
        levels == {l \in 0..Len(name) : FindAt(name, l) # Null}
    IN IF levels = {} THEN Null ELSE FindAt(name, Min(levels))

-----------------------------------------------------------------------------
(* Inheritance.                                                            *)

FillFromParent(rule, parent, os) ==
    [o \in RuleOptions |-> IF o \in os /\ rule[o] = Null THEN parent[o] ELSE rule[o]]

\* Mutant: the TTL options are inherited one by one.
InheritTtlsApart(rule, parent) ==
    FillFromParent(rule, parent, {"nameserver", "address", "ttl", "ttlMin", "ttlMax"} \cup
        (IF rule["nameserver"] = Null THEN {"recheckNs", "recheckSet"} ELSE {}))

\* DomainRule::inherit
Inherit(rule, parent) ==
    LET recheck == IF rule["nameserver"] = Null THEN {"recheckNs", "recheckSet"} ELSE {}
        ttls == IF \A o \in {"ttl", "ttlMin", "ttlMax"} : rule[o] = Null
                THEN {"ttl", "ttlMin", "ttlMax"} ELSE {}
    IN FillFromParent(rule, parent, {"nameserver", "address"} \cup recheck \cup ttls)

\* zone_of: the rules for the name a "*", "+" or "-" name is written for,
\* otherwise the rule of the parent domain.
ZoneOf(k) ==
    LET sameName == CASE k.kind = "Default" -> Null
                      [] k.kind = "Sub" -> Or(GetExact("Suffix", k.name), GetExact("Default", k.name))
                      [] OTHER -> GetExact("Default", k.name)
        parent == IF k.name = <<>> THEN Null ELSE FindRule(Parent(k.name, 1))
    IN Or(sameName, parent)

InheritOrder(kind) ==
    CASE kind = "Default" -> 0 [] kind = "Suffix" -> 1 [] kind = "Sub" -> 2 [] kind = "Full" -> 3

\* sort_by_key: parents first, and of one name the kinds others inherit from.
InheritsBefore(k, l) ==
    \/ Len(k.name) < Len(l.name)
    \/ Len(k.name) = Len(l.name) /\ InheritOrder(k.kind) <= InheritOrder(l.kind)

\* One turn of the loop of create.  "*" names of one parent compare equal, so
\* theirs is the order of a HashMap: any.
InsertNext ==
    /\ ruleList \in {"domain_rules", "others", "insert"} /\ ruleList' = "insert"
    /\ \E k \in DOMAIN written \ DOMAIN nodes :
        /\ \A l \in DOMAIN written \ DOMAIN nodes : InheritsBefore(k, l)
        /\ LET zone == ZoneOf(k)
               rule == IF zone = Null THEN written[k] ELSE Inherit(written[k], nodes[zone].rule)
           IN nodes' = [l \in DOMAIN nodes \cup {k} |->
                           IF l = k THEN [rule |-> rule, zone |-> zone] ELSE nodes[l]]
        /\ subs' = IF k.kind = "Sub" THEN Append(subs, k) ELSE subs
    /\ UNCHANGED <<ruleLines, written>>

\* A reload builds the rules of a new configuration from nothing.
ReloadRules ==
    /\ ruleList = "insert" /\ DOMAIN nodes = DOMAIN written
    /\ ruleLines' = 0 /\ ruleList' = "domain_rules"
    /\ written' = [k \in {} |-> Unset]
    /\ nodes' = [k \in {} |-> Unset]
    /\ subs' = <<>>

RulesInit ==
    /\ ruleLines = 0 /\ ruleList = "domain_rules"
    /\ written = [k \in {} |-> Unset]
    /\ nodes = [k \in {} |-> Unset]
    /\ subs = <<>>

RulesNext ==
    \/ \E ks \in Domains, config \in RuleConfigs : DomainRule(ks, config)
    \/ \E ks \in Domains, o \in {"nameserver", "address"} : OtherRule(ks, o)
    \/ InsertNext
    \/ ReloadRules

RulesSpec == RulesInit /\ [][RulesNext]_ruleVars

-----------------------------------------------------------------------------
(* Properties.                                                             *)

\* WildcardName::is_match, for a name other than the root.
Matches(k, q) ==
    /\ Len(k.name) <= Len(q) /\ k.name = Parent(q, Len(q) - Len(k.name))
    /\ CASE k.kind = "Default" -> TRUE
         [] k.kind = "Full" -> Len(k.name) = Len(q)
         [] k.kind = "Suffix" -> Len(k.name) < Len(q)
         [] k.kind = "Sub" -> Len(k.name) + 1 = Len(q) /\ q[1] \in k.pat

Specificity(k) ==
    4 * Len(k.name) +
    CASE k.kind = "Default" -> 0 [] k.kind = "Suffix" -> 1 [] k.kind = "Sub" -> 2 [] k.kind = "Full" -> 3

\* What the first rule that sets one of the options sets, of the rules of a
\* node and of the zones above it.
FirstSetting(k, os) ==
    LET first[l \in DOMAIN nodes] ==
          IF \E o \in os : written[l][o] # Null THEN written[l]
          ELSE IF nodes[l].zone = Null THEN Unset
          ELSE first[nodes[l].zone]
    IN first[k]

\* Sharing and merging rules pairwise gives every name the options that the
\* nearest zone above it sets, and the TTL options of one zone only.
NearestSettingWins ==
    \A k \in DOMAIN nodes :
        /\ \A o \in {"nameserver", "address"} : nodes[k].rule[o] = FirstSetting(k, {o})[o]
        /\ LET ttls == {"ttl", "ttlMin", "ttlMax"}
           IN \A o \in ttls : nodes[k].rule[o] = FirstSetting(k, ttls)[o]

\* DomainRule::inherit: options are inherited "as C SmartDNS takes every option
\* from the most specific rule that sets it" (one such rule, in a complete map).
\* Not so: only the rule found and those its own chain of parents leads to are
\* looked at.
MostSpecificSettingWins ==
    ruleList = "insert" /\ DOMAIN nodes = DOMAIN written =>
        \A q \in RuleQueries \ {<<>>} : FindRule(q) # Null =>
            LET matching == {k \in DOMAIN nodes : Matches(k, q)}
                setting == {k \in matching : written[k]["address"] # Null}
            IN (\A k, l \in matching : k # l => Specificity(k) # Specificity(l)) =>
                \A k \in setting :
                    (\A l \in setting : Specificity(l) <= Specificity(k)) =>
                        nodes[FindRule(q)].rule["address"] = written[k]["address"]
=============================================================================
