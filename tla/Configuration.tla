---------------------------- MODULE Configuration ----------------------------
(***************************************************************************)
(* Loading the configuration (RuntimeConfigBuilder, dns_conf.rs): files    *)
(* that include one another by name or by pattern, lines told apart by     *)
(* their keyword (config/parser), rule groups opened and closed across     *)
(* files, and what build makes of it at the end: merged groups, one        *)
(* listener per socket, domain sets from all of their files.               *)
(*                                                                         *)
(* A directory is a sequence of names.  A line has a keyword, a sequence   *)
(* of parts such that one keyword is a prefix of another when its text is, *)
(* and an argument that parses or does not.  The values of plain settings  *)
(* are left out; DomainRules models what becomes of the rules.             *)
(***************************************************************************)
EXTENDS Naturals, Sequences, FiniteSets, SequencesExt, Absent

CONSTANTS
  Worlds,       \* the files on disk: [files, unreadable, main]
  Cwd, ExeDir   \* directories of the process

VARIABLES
  world,        \* the disk the configuration is read from
  phase,        \* "start", "reading", "built", "refused" or "panicked"
  frames,       \* the files being read, the innermost last
  base,         \* conf_file: the file relative paths are resolved against
  loaded,       \* loaded_files
  groupStack,   \* rule_group_stack
  groups,       \* rule_groups
  clientRules,  \* client_rules: [rule, group]
  binds,        \* the listeners
  ipSets,       \* ip_sets, read while parsing
  providers,    \* domain_set_providers
  domainSets,   \* the domain sets build has loaded
  cacheSize,    \* cache-size, Null when not set
  record        \* the lines read, in order: [file, at]

configVars == <<world, phase, frames, base, loaded, groupStack, groups,
                clientRules, binds, ipSets, providers, domainSets, cacheSize,
                record>>

Files == DOMAIN world.files
File(dir, name) == [dir |-> dir, name |-> name]

-----------------------------------------------------------------------------
(* One line.                                                               *)

Directives ==
  <<<<"address">>, <<"audit-file", "-mode">>, <<"audit-file">>,
    <<"cache-size">>, <<"client-rule", "s">>, <<"client-rule">>,
    <<"conf-file">>,
    <<"domain", "-rule", "s">>, <<"domain", "-rule">>, <<"domain", "-set">>,
    <<"dualstack-ip-selection">>, <<"dualstack-ip-selection", "-threshold">>,
    <<"response">>, <<"group-begin">>, <<"group-end">>, <<"cname">>,
    <<"domain">>,
    <<"https-record">>, <<"log-file", "-mode">>, <<"log-file">>,
    <<"nameserver">>, <<"rr-ttl", "-reply-max">>, <<"rr-ttl", "-min">>,
    <<"rr-ttl", "-max">>, <<"rr-ttl">>,
    <<"response", "-mode">>, <<"server", "-name">>,
    <<"serve-expired", "-reply-ttl">>, <<"serve-expired", "-ttl">>,
    <<"serve-expired">>, <<"srv-record">>, <<"nftset">>,
    <<"ip-set">>, <<"bind">>, <<"server">>,
    <<"ipset">>, <<"ipset", "-timeout">>, <<"nftset", "-timeout">>,
    <<"serve-expired", "-prefetch-time">>, <<"txt-record">>,
    <<"bind", "-cert-san">>>>

\* The tags of the listener parser, in its order.
Protocols ==
  <<<<"bind", "-tcp">>, <<"bind", "-tls">>, <<"bind", "-quic">>,
    <<"bind", "-http", "s">>, <<"bind", "-http">>, <<"bind", "-h3">>,
    <<"bind", "-udp">>, <<"bind">>>>

FirstIn(seq, S) ==
  LET hits == {i \in DOMAIN seq : seq[i] \in S}
  IN  IF hits = {} THEN Null ELSE seq[CHOOSE i \in hits : \A j \in hits : i <= j]

\* The first tag that starts the line is taken for good: when no blank
\* follows it the whole parser fails.
Listener(line, tags) ==
  LET tag == FirstIn(tags, {t \in ToSet(tags) : IsPrefix(t, line.key)})
  IN  IF tag = line.key THEN tag ELSE Null

ListenerOf(line) == Listener(line, Protocols)

\* A directive takes the line when a blank follows its keyword and the value
\* parses; group-end needs no blank.
Accepts(directive, line) ==
  CASE directive = <<"bind">> -> ListenerOf(line) # Null /\ line.valid
    [] directive = <<"group-end">> -> IsPrefix(directive, line.key)
    [] OTHER -> directive = line.key /\ line.valid

\* parse_line: the directives are tried in turn; Null is a line that is
\* warned about and skipped.
ParseLine(line) ==
  LET directive == FirstIn(Directives, {d \in ToSet(Directives) : Accepts(d, line)})
  IN  IF directive = <<"bind">> THEN ListenerOf(line) ELSE directive

RuleKeys == {<<"address">>, <<"domain", "-rule">>, <<"domain", "-rule", "s">>,
             <<"cname">>, <<"https-record">>, <<"nameserver">>,
             <<"srv-record">>, <<"nftset">>, <<"ipset">>, <<"txt-record">>}

-----------------------------------------------------------------------------
(* Paths: [abs, dir, name].                                                *)

Candidates(path, from) ==
  IF path.abs THEN <<File(path.dir, path.name)>>
  ELSE <<File(Cwd \o path.dir, path.name)>>
       \o (IF from = Null THEN <<>>
           ELSE <<File(from.dir \o path.dir, path.name)>>
                \o (IF from.name = "smartdns.conf"
                    THEN <<File(from.dir \o <<"smartdns.d">> \o path.dir, path.name)>>
                    ELSE <<>>)
                \o <<File(Cwd \o path.dir, path.name),
                     File(ExeDir \o path.dir, path.name)>>)

\* The function resolve_filepath: the first candidate that is a file, else
\* the same for the bare file name, else the path as it is.
ResolvePath(path, from) ==
  LET found(p) == FirstIn(Candidates(p, from), Files)
      bare == [abs |-> FALSE, dir |-> <<>>, name |-> path.name]
  IN  IF found(path) # Null THEN found(path)
      ELSE IF found(bare) # Null THEN found(bare)
      ELSE File(IF path.abs THEN path.dir ELSE Cwd \o path.dir, path.name)

\* The builder's resolve_filepath also looks, in no particular order, into
\* the directories of the files loaded so far.
ResolveInDirs(path) ==
  LET direct == ResolvePath(path, base)
      near == {f \in Files : f.name = path.name /\ \E l \in loaded : l.dir = f.dir}
  IN  IF direct \in Files \/ near = {} THEN {direct} ELSE near

-----------------------------------------------------------------------------
ConfigInit ==
  /\ world \in Worlds
  /\ phase = "start" /\ frames = <<>>
  /\ base = world.main
  /\ loaded = {} /\ groupStack = <<>> /\ groups = [g \in {} |-> <<>>]
  /\ clientRules = <<>> /\ binds = <<>>
  /\ ipSets = [s \in {} |-> {}] /\ providers = <<>>
  /\ domainSets = [s \in {} |-> {}] /\ cacheSize = Null
  /\ record = <<>>

\* A file is registered before its own includes are followed.
Registered(file) == loaded \cup {file}

Top == frames[Len(frames)]
Frame(file) == [file |-> file, at |-> 0, todo |-> <<>>, back |-> base]

\* load_file: a file that is not there is skipped with a warning, one that
\* was loaded before silently; an error is fatal, for an included file by
\* the expect in config.
LoadFile(file, stack) ==
  IF file \in world.unreadable THEN
    /\ phase' = IF stack = <<>> THEN "refused" ELSE "panicked"
    /\ frames' = <<>>
    /\ UNCHANGED <<base, loaded>>
  ELSE IF file \in Files \ loaded THEN
    /\ phase' = "reading"
    /\ frames' = Append(stack, Frame(file))
    /\ base' = file /\ loaded' = Registered(file)
  ELSE
    /\ phase' = "reading" /\ frames' = stack
    /\ UNCHANGED <<base, loaded>>

\* build: the main file first.
Start ==
  /\ phase = "start"
  /\ LoadFile(world.main, <<>>)
  /\ UNCHANGED <<world, groupStack, groups, clientRules, binds, ipSets,
                 providers, domainSets, cacheSize, record>>

Reading == phase = "reading" /\ frames # <<>>

\* Lines after one that is not UTF-8 are not read (map_while(Result::ok)).
AtEnd(f) ==
  f.at < Len(world.files[f.file]) => world.files[f.file][f.at + 1] = Null

\* The next file of a pattern being expanded.
LoadNext ==
  /\ Reading /\ Top.todo # <<>>
  /\ LoadFile(Head(Top.todo),
              [frames EXCEPT ![Len(frames)].todo = Tail(@)])
  /\ UNCHANGED <<world, groupStack, groups, clientRules, binds, ipSets,
                 providers, domainSets, cacheSize, record>>

\* At the end of a file conf_file is the including file again.
Restored(f) == f.back

Close ==
  /\ Reading /\ Top.todo = <<>> /\ AtEnd(Top)
  /\ base' = Restored(Top)
  /\ frames' = Front(frames)
  /\ loaded' = loaded \cup {Top.file}
  /\ UNCHANGED <<world, phase, groupStack, groups, clientRules, binds, ipSets,
                 providers, domainSets, cacheSize, record>>

\* Every line, even a comment, opens the default group when none is open.
Opened == IF groupStack = <<>> THEN <<[name |-> "default", rules |-> <<>>]>>
          ELSE groupStack

\* The files a pattern names, in alphabetical order (the order of the sequence
\* the world lists them in).
Expand(path) ==
  LET dir == IF path.abs \/ base = Null THEN path.dir ELSE base.dir \o path.dir
  IN  SelectSeq([i \in DOMAIN path.pattern |-> File(dir, path.pattern[i])],
                LAMBDA f : f \in Files)

\* Mutant: the rules of the closed group go before those already there.
MergedFront(g, name, rules) ==
  [n \in DOMAIN g \cup {name} |->
     (IF n = name THEN rules ELSE <<>>) \o (IF n \in DOMAIN g THEN g[n] ELSE <<>>)]

\* RuleGroup::merge extends the lists of the group.
Merged(g, name, rules) ==
  [n \in DOMAIN g \cup {name} |->
     (IF n \in DOMAIN g THEN g[n] ELSE <<>>) \o (IF n = name THEN rules ELSE <<>>)]

IsInclude(line) == ParseLine(line) = <<"conf-file">>

NextLine == world.files[Top.file][Top.at + 1]

ReadsLine ==
  /\ Reading /\ Top.todo = <<>> /\ ~AtEnd(Top)
  /\ record' = Append(record, [file |-> Top.file, at |-> Top.at + 1])

\* conf-file: a plain name is loaded at once, a pattern file by file.
Include ==
  /\ ReadsLine
  /\ LET path == NextLine.arg
         moved == [frames EXCEPT ![Len(frames)].at = @ + 1]
     IN  /\ IsInclude(NextLine)
         /\ groupStack' = Opened
         /\ IF path.pattern = <<>> THEN
              /\ \E file \in ResolveInDirs(path) : LoadFile(file, moved)
            ELSE
              /\ frames' = [moved EXCEPT ![Len(frames)].todo = Expand(path)]
              /\ UNCHANGED <<phase, base, loaded>>
  /\ UNCHANGED <<world, groups, clientRules, binds, ipSets, providers,
                 domainSets, cacheSize>>

\* config for the other directives.
Configure ==
  /\ ReadsLine
  /\ ~IsInclude(NextLine)
  /\ frames' = [frames EXCEPT ![Len(frames)].at = @ + 1]
  /\ LET item == ParseLine(NextLine)
         arg == NextLine.arg
         own == Opened[Len(Opened)]
         entry == [file |-> Top.file, at |-> Top.at + 1]
         setFile == ResolvePath(arg.path, base)
     IN  /\ groupStack' =
              CASE item = <<"group-begin">> ->
                     Append(Opened, [name |-> arg, rules |-> <<>>])
                [] item = <<"group-end">> -> Front(Opened)
                [] item \in RuleKeys ->
                     [Opened EXCEPT ![Len(Opened)].rules = Append(@, entry)]
                [] OTHER -> Opened
         /\ groups' = IF item = <<"group-end">>
                      THEN Merged(groups, own.name, own.rules) ELSE groups
         /\ clientRules' =
              IF item \in {<<"client-rule">>, <<"client-rule", "s">>}
              THEN Append(clientRules,
                          [rule |-> entry,
                           group |-> IF arg = Null THEN own.name ELSE arg])
              ELSE clientRules
         /\ binds' = IF item # Null /\ item \in ToSet(Protocols)
                     THEN Append(binds, [proto |-> item, sock |-> arg, from |-> entry])
                     ELSE binds
         /\ cacheSize' = IF item = <<"cache-size">> THEN arg ELSE cacheSize
         /\ providers' = IF item = <<"domain", "-set">>
                         THEN Append(providers,
                                     [set |-> arg.set,
                                      file |-> CHOOSE f \in ResolveInDirs(arg.path) : TRUE])
                         ELSE providers
         /\ ipSets' =
              IF item = <<"ip-set">> /\ setFile \in Files \ world.unreadable
              THEN [s \in DOMAIN ipSets \cup {arg.set} |->
                      (IF s \in DOMAIN ipSets THEN ipSets[s] ELSE {})
                      \cup (IF s = arg.set THEN {setFile} ELSE {})]
              ELSE ipSets
  /\ UNCHANGED <<world, phase, base, loaded, domainSets>>

-----------------------------------------------------------------------------
(* build, once the files have been read.                                   *)

\* The groups still open are merged from the innermost outwards.
RECURSIVE MergeOpen(_, _)
MergeOpen(g, stack) ==
  IF stack = <<>> THEN g
  ELSE MergeOpen(Merged(g, Last(stack).name, Last(stack).rules), Front(stack))

Datagram(b) == b.proto \in {<<"bind">>, <<"bind", "-udp">>, <<"bind", "-quic">>,
                            <<"bind", "-h3">>}

\* The listeners whose socket a later one uses too.
Duplicates(list) ==
  {i \in DOMAIN list :
     \E j \in (i + 1)..Len(list) :
       list[j].sock = list[i].sock /\ Datagram(list[j]) = Datagram(list[i])}

\* The indexes were collected from the back, so that removing one does not
\* move those still to be removed.
RECURSIVE RemoveIndexes(_, _)
RemoveIndexes(list, idx) ==
  IF idx = {} THEN list
  ELSE LET i == CHOOSE i \in idx : \A j \in idx : i >= j
       IN  RemoveIndexes(RemoveAt(list, i), idx \ {i})

DefaultBind == [proto |-> <<"bind">>, sock |-> "[::]:53", from |-> Null]

\* The first list is taken over as it is, later ones are added.
Added(set, s) == IF set = {} THEN s ELSE set \cup s

\* The names a set has after the first n providers; a file that cannot be
\* read is skipped.
RECURSIVE LoadSet(_, _)
LoadSet(name, n) ==
  IF n = 0 THEN {}
  ELSE LET p == providers[n]
           before == LoadSet(name, n - 1)
       IN  IF p.set = name /\ p.file \in Files \ world.unreadable
           THEN Added(before, {p.file}) ELSE before

Finish ==
  /\ phase = "reading" /\ frames = <<>>
  /\ IF cacheSize # Null /\ cacheSize < 0 THEN
       /\ phase' = "refused"
       /\ UNCHANGED <<groupStack, groups, binds, domainSets>>
     ELSE
       /\ phase' = "built"
       /\ groups' = MergeOpen(groups, groupStack)
       /\ groupStack' = <<>>
       /\ LET list == IF binds = <<>> THEN <<DefaultBind>> ELSE binds
          IN  binds' = RemoveIndexes(list, Duplicates(list))
       /\ domainSets' = [s \in {providers[i].set : i \in DOMAIN providers} |->
                           LoadSet(s, Len(providers))]
  /\ UNCHANGED <<world, frames, base, loaded, clientRules, ipSets, providers,
                 cacheSize, record>>

\* reload_new starts over with a new builder.
Reload ==
  /\ phase \in {"built", "refused", "panicked"}
  /\ phase' = "start" /\ frames' = <<>> /\ base' = world.main
  /\ loaded' = {} /\ groupStack' = <<>> /\ groups' = [g \in {} |-> <<>>]
  /\ clientRules' = <<>> /\ binds' = <<>>
  /\ ipSets' = [s \in {} |-> {}] /\ providers' = <<>>
  /\ domainSets' = [s \in {} |-> {}] /\ cacheSize' = Null
  /\ record' = <<>>
  /\ UNCHANGED world

ConfigNext == Start \/ LoadNext \/ Include \/ Configure \/ Close \/ Finish \/ Reload

ConfigSpec == ConfigInit /\ [][ConfigNext]_configVars

-----------------------------------------------------------------------------
(* Properties.                                                             *)

LineOf(e) == world.files[e.file][e.at]

\* The group a line belongs to: the last group-begin before it in reading
\* order that no group-end has closed.
OpenGroup(i) ==
  LET is(k, key) == ParseLine(LineOf(record[k])) = key
      count(a, b, key) == Cardinality({k \in a..b : is(k, key)})
      open == {j \in 1..(i - 1) :
                 /\ is(j, <<"group-begin">>)
                 /\ \A k \in (j + 1)..(i - 1) :
                      count(j + 1, k, <<"group-end">>) <= count(j + 1, k, <<"group-begin">>)}
  IN  IF open = {} THEN "default"
      ELSE LineOf(record[CHOOSE j \in open : \A k \in open : k <= j]).arg

\* Group g is begun at most once (the default group at no line).
BegunOnce(g) ==
  Cardinality({i \in DOMAIN record :
                 /\ ParseLine(LineOf(record[i])) = <<"group-begin">>
                 /\ LineOf(record[i]).arg = g}) <= (IF g = "default" THEN 0 ELSE 1)

\* However groups and files are nested, every rule ends in the group that was
\* open where its line was read, in reading order unless the group was begun
\* again, and a client rule without a group of its own takes that group
\* (config, GroupEnd, build).
RulesInOpenGroup ==
  phase = "built" =>
    /\ \A g \in DOMAIN groups :
         LET rules == SelectSeq(record, LAMBDA e :
                        /\ ParseLine(LineOf(e)) \in RuleKeys
                        /\ OpenGroup(CHOOSE i \in DOMAIN record : record[i] = e) = g)
         IN  IF BegunOnce(g) THEN groups[g] = rules
             ELSE IsInjective(groups[g]) /\ ToSet(groups[g]) = ToSet(rules)
    /\ \A i \in DOMAIN record :
         ParseLine(LineOf(record[i])) \in RuleKeys => OpenGroup(i) \in DOMAIN groups
    /\ \A i \in DOMAIN clientRules :
         LineOf(clientRules[i].rule).arg = Null =>
           clientRules[i].group =
             OpenGroup(CHOOSE k \in DOMAIN record : record[k] = clientRules[i].rule)

=============================================================================
