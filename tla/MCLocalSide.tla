----------------------------- MODULE MCLocalSide ----------------------------
(***************************************************************************)
(* What the server reads and writes on its own host, one component per     *)
(* behaviour: the configuration ("config", and its "server" and "bind"     *)
(* lines), the files of local names ("files"), logs ("logs"), kernel sets  *)
(* ("sets") and the management API ("api").                                *)
(***************************************************************************)
EXTENDS Configuration, ServerLine, BindLine, LocalFiles, LogFiles,
        NetworkSets, ManagementApi

-----------------------------------------------------------------------------
(* Disks on which the configuration files include each other, lie in       *)
(* several directories, and set the same thing more than once.             *)
Etc == <<"etc">>
Sub == <<"etc", "smartdns.d">>
Main == File(Etc, "smartdns.conf")

CfgLine(key, arg) == [key |-> key, valid |-> TRUE, arg |-> arg]
Bad(key) == [key |-> key, valid |-> FALSE, arg |-> Null]
PlainLine(abs, dir, name) == [abs |-> abs, dir |-> dir, name |-> name, pattern |-> <<>>]
Glob(dir, names) == [abs |-> FALSE, dir |-> dir, name |-> "*", pattern |-> names]

Inc(path) == CfgLine(<<"conf-file">>, path)
Begin(g) == CfgLine(<<"group-begin">>, g)
End == CfgLine(<<"group-end">>, Null)
Rule(key) == CfgLine(key, Null)
Bind(key, sock) == CfgLine(key, sock)
Set(name, file) == CfgLine(<<"domain", "-set">>, [set |-> name, path |-> PlainLine(FALSE, <<>>, file)])
IpSetLine(name, file) == CfgLine(<<"ip-set">>, [set |-> name, path |-> PlainLine(FALSE, <<>>, file)])

Disk(files, unreadable) == [files |-> files, unreadable |-> unreadable, main |-> Main]

\* A pattern that includes its own file, an included file that opens a group
\* and one that closes it.
Groups ==
  {Disk([f \in {Main, File(Sub, "a"), File(Sub, "b")} |->
     CASE f = Main -> <<Rule(<<"address">>), Inc(Glob(Sub \o <<>>, <<"a">>)),
                        Inc(Glob(<<"smartdns.d">>, <<"a", "b", "c">>)),
                        x, Rule(<<"cname">>), End, y, Rule(<<"nameserver">>)>>
       [] f.name = "a" -> <<Begin("g"), Rule(<<"domain", "-rule", "s">>),
                            Inc(Glob(<<>>, <<"a", "b">>)), z>>
       [] OTHER -> <<Rule(<<"txt-record">>), w,
                     Inc(PlainLine(FALSE, <<>>, "smartdns.conf"))>>], u) :
   x \in {Begin("h"), End, CfgLine(<<"client-rule">>, Null)},
   y \in {End, CfgLine(<<"client-rule", "s">>, "g"), Rule(<<"address">>)},
   z \in {End, Rule(<<"srv-record">>), Null},
   w \in {End, Begin("h"), CfgLine(<<"client-rule">>, Null), Bad(<<"address">>)},
   u \in {{}, {File(Sub, "b")}}}

\* The same file name in several directories.
Homes ==
  {Disk([f \in {Main, File(Sub, "a"), File(Sub, "b")} \cup more |->
     CASE f = Main -> <<Inc(p), Inc(Glob(<<"smartdns.d">>, <<"b">>)), Inc(p)>>
       [] f.name = "b" -> <<Inc(PlainLine(TRUE, <<"gone">>, "a")), Inc(Glob(<<>>, <<"a">>))>>
       [] OTHER -> <<Rule(<<"ipset">>), Inc(Glob(<<>>, <<"a", "smartdns.conf">>))>>],
     {}) :
   more \in SUBSET {File(Cwd, "a"), File(Etc, "a")},
   p \in {PlainLine(FALSE, <<>>, "a"), PlainLine(FALSE, <<"smartdns.d">>, "a"),
          PlainLine(TRUE, <<"gone">>, "a"), PlainLine(TRUE, Sub, "a"),
          PlainLine(FALSE, <<>>, "missing")}}

\* Listeners, sets and settings, in several orders.
Settings ==
  {Disk([f \in {Main, File(Etc, "l1"), File(Etc, "l2")} |->
     IF f = Main THEN <<a, b, c, d>> \o tail ELSE <<Null>>], u) :
   a \in {Bind(<<"bind">>, ":53"), Bind(<<"bind", "-http", "s">>, ":443")},
   b \in {Bind(<<"bind", "-quic">>, ":443"), Bind(<<"bind", "-udp">>, ":53"),
          Rule(<<"dualstack-ip-selection", "-threshold">>)},
   c \in {Bind(<<"bind", "-tcp">>, ":53"), Bind(<<"bind", "-http">>, ":443"),
          Rule(<<"serve-expired", "-prefetch-time">>)},
   d \in {Bind(<<"bind">>, ":53"), Bind(<<"bind", "-h3">>, ":443"),
          Rule(<<"bind", "-cert-san">>), Bad(<<"bind">>)},
   tail \in {<<Set("s", "l1"), Set("s", "l2"), CfgLine(<<"cache-size">>, 1)>>,
             <<Set("s", "l2"), Set("s", "missing"), Set("s", "l1"), IpSetLine("i", "l1")>>,
             <<IpSetLine("i", "l1"), IpSetLine("i", "l2"), Rule(<<"response", "-mode">>)>>},
   u \in {{}, {File(Etc, "l2")}}}

MCCwd == <<"run">>
MCExeDir == <<"bin">>

\* An empty main file.
EmptyDisk == Disk([f \in {Main} |-> <<>>], {})

MCWorlds == {EmptyDisk} \cup Groups \cup Homes \cup Settings

-----------------------------------------------------------------------------
(* Every form of URL without options, and lists of up to three options     *)
(* after a server given by address, by name, and by both.                  *)
None == [k \in {} |-> Null]
UrlAs(word, scheme, form, text, p, path, query, fragment) ==
  [word |-> word, scheme |-> scheme, host |-> [kind |-> form, text |-> text], port |-> p,
   path |-> path, query |-> query, fragment |-> fragment]
Address(scheme, form) == UrlAs(Null, scheme, form, "a", Null, "", None, None)

Queries == {None, "host" :> "q", "ip" :> [kind |-> "v4", text |-> "b"],
            ("host" :> "q") @@ ("ip" :> [kind |-> "v4", text |-> "b"])}
Urls ==
  { UrlAs(Null, s, k, "a", p, path, q, f):
      s \in {Null, "tls", "https"}, k \in {"v4", "bare6", "domain"}, p \in {Null, 5},
      path \in {"", "/"}, q \in Queries, f \in {None, "h3" :> ""} }
  \cup { Address(s, k): s \in {"h3", "dhcp", "ftp"}, k \in {"v6", "domain", "none"} }
  \cup { UrlAs(w, Null, "none", "", Null, "", None, None): w \in {"system", "dhcp"} }

Option(k, v) == [key |-> k, value |-> v]
MCOptions ==
  { Option("host-name", "h"), Option("tls-host-verify", "t"), Option("no-check-certificate", Null),
    Option("group", "g"), Option("spki-pin", "bad"), Option("set-mark", "bad"),
    Option("host-name", "-"), Option("proxy", "p"), Option("blacklist-ip", Null) }
MCServerLines ==
  { [keyword |-> k, url |-> u, options |-> <<>>]: k \in {"server", "server-tls"}, u \in Urls }
  \cup
  { [keyword |-> "server-tls", url |-> u, options |-> o]:
      u \in { UrlAs(Null, Null, k, "a", Null, "", q, None): k \in {"v4", "domain"}, q \in Queries },
      o \in UNION {[1..n -> MCOptions]: n \in 1..2}
            \cup {f \in [1..3 -> MCOptions]: IsInjective(f)} }

-----------------------------------------------------------------------------
(* Up to three lines: every way of writing the addresses of one port, three*)
(* transports, one address on two devices, and options that are kept and   *)
(* refused.                                                                *)
BindAs(k, a, p, d, o) == [keyword |-> k, addr |-> a, port |-> p, device |-> d, options |-> o]
Addresses == {Null, Localhost, AllAddrs, AddrV4("127.0.0.1"), AddrV6("::"), AddrV6("::1")}
MCDestinations == {AddrV4("127.0.0.1"), AddrV4("10.0.0.1"), AddrV6("::1")}

MCBindLines ==
  {BindAs(k, a, 53, Null, <<>>): k \in {"bind", "bind-tcp", "bind-quic"}, a \in Addresses}
  \cup {BindAs("bind", Null, 53, d, <<>>): d \in {"eth0", "eth1"}}
  \cup {BindAs("bind-tls", Localhost, 853, Null,
               <<[key |-> "ssl-certificate", value |-> "c"], [key |-> "group", value |-> "g"]>>),
        BindAs("bind", Null, 53, Null, <<[key |-> "nftset", value |-> "bad"]>>),
        BindAs("bind", Null, Null, Null, <<>>)}

-----------------------------------------------------------------------------
(* A file that is rewritten, removed and written again, its readers, and a *)
(* neighbour table.                                                        *)
Line(mac, addr, host) == [mac |-> mac, ip |-> addr, host |-> host]
MCEditions ==
  << <<Line("m1", "a4", "tv")>>, Null, <<Line("m1", "a4", "*"), Line("m1", "a4", Null)>>, Null >>
MCNeighbours == {{[ip |-> "c6", mac |-> "m1"]}}

-----------------------------------------------------------------------------
(* Two files of two records each per log.                                  *)
MCMaxLines == [log |-> 3, audit |-> 5]

-----------------------------------------------------------------------------
(* Layers of rules for clients told apart by their hardware address and    *)
(* their network, and two answers written to each kind of kernel set.      *)
CONSTANTS q1, q2

V4 == [family |-> "v4", host |-> 1]
V6 == [family |-> "v6", host |-> 1]

SetRule(for, set) == [for |-> for, set |-> set]
All1 == <<SetRule("all", "s1")>>
Ign4 == <<SetRule("v4", Null), SetRule("v6", "s1")>>
Late == <<SetRule("v6", "s1"), SetRule("all", Null)>>

SetOpts(sets, skip, group) == [sets |-> sets, skip |-> skip, group |-> group]
MacRule(opts, group) == [kind |-> "mac", who |-> "m", opts |-> opts, group |-> group]
NetRule(opts, group) == [kind |-> "net", who |-> "lan", opts |-> opts, group |-> group]

SetConfig(kernel, expiring, listener, rules, domain, noSpeed, timeout, ips,
          queries, ttls, clients) ==
  [kernel |-> kernel, expiring |-> expiring, listener |-> listener,
   rules |-> rules, domain |-> domain, noSpeed |-> noSpeed,
   timeout |-> timeout, ips |-> ips, queries |-> queries, ttls |-> ttls,
   clients |-> clients]

SomeClients == {[mac |-> "m", net |-> "lan"], [mac |-> Null, net |-> "lan"],
                [mac |-> Null, net |-> "wan"]}

\* Which rules apply.
Layered ==
  {SetConfig("ipset", FALSE, SetOpts(own, skip, Null), rules,
             [g \in {"default", "kids"} |-> IF g = "kids" THEN kids ELSE <<Ign4>>],
             [g \in {"default"} |-> All1], [g \in {"default"} |-> FALSE], {V4, V6},
             {q1}, {2}, SomeClients) :
   own \in {Null, <<SetRule("v6", "s1")>>}, skip \in {Null, TRUE},
   rules \in {<<>>, <<NetRule(SetOpts(All1, FALSE, Null), "kids")>>,
              <<NetRule(NoOpts, Null), MacRule(SetOpts(Ign4, TRUE, Null), "kids")>>},
   kids \in {<<>>, <<Late>>, <<<<SetRule("v6", "s2")>>, Late>>}}

\* What the kernel does with them.
Timed ==
  {SetConfig(kernel, expiring, NoOpts, <<>>, [g \in {"default"} |-> <<All1>>],
             [g \in {} |-> Null], [g \in {"default"} |-> TRUE], {V4},
             {q1, q2}, {0, 2}, {[mac |-> Null, net |-> "wan"]}) :
   kernel \in {"ipset", "nft"}, expiring \in BOOLEAN}

\* One client whose group asks for timeouts and one whose group does not.
MixedTimeouts ==
  {SetConfig(kernel, TRUE, NoOpts, <<NetRule(NoOpts, "kids")>>, [g \in {"default"} |-> <<All1>>],
             [g \in {} |-> Null], [g \in {"default", "kids"} |-> g = "kids"], {V4},
             {q1, q2}, {1, 3}, {[mac |-> Null, net |-> "lan"], [mac |-> Null, net |-> "wan"]}) :
   kernel \in {"ipset", "nft"}}

MCSetConfigs == Layered \cup Timed \cup MixedTimeouts

-----------------------------------------------------------------------------
(* The sum of the parts.                                                   *)
VARIABLE part

localVars == <<part, configVars, lineVars, bindVars, fileVars, logVars, setVars,
               apiVars>>

LocalInit ==
  /\ part \in {"config", "server", "bind", "files", "logs", "sets", "api"}
  /\ part # "config" => world = EmptyDisk
  /\ part # "files" => kind = "hosts"
  /\ part # "logs" => beside = FALSE
  /\ part # "sets" => setConf = CHOOSE c \in Layered: TRUE
  /\ part # "api" => aspect = "rules" /\ managed = FALSE
  /\ ConfigInit /\ LineInit /\ BindInit /\ FilesInit /\ LogInit /\ SetsInit
  /\ ApiInit

LocalNext ==
  /\ UNCHANGED part
  /\ \/ /\ part = "config" /\ ConfigNext
        /\ UNCHANGED <<lineVars, bindVars, fileVars, logVars, setVars, apiVars>>
     \/ /\ part = "server" /\ LineNext
        /\ UNCHANGED <<configVars, bindVars, fileVars, logVars, setVars, apiVars>>
     \/ /\ part = "bind" /\ BindNext
        /\ UNCHANGED <<configVars, lineVars, fileVars, logVars, setVars, apiVars>>
     \/ /\ part = "files" /\ FilesNext
        /\ UNCHANGED <<configVars, lineVars, bindVars, logVars, setVars, apiVars>>
     \/ /\ part = "logs" /\ LogsNext
        /\ UNCHANGED <<configVars, lineVars, bindVars, fileVars, setVars, apiVars>>
     \/ /\ part = "sets" /\ SetsNext
        /\ UNCHANGED <<configVars, lineVars, bindVars, fileVars, logVars, apiVars>>
     \/ /\ part = "api" /\ ApiNext
        /\ UNCHANGED <<configVars, lineVars, bindVars, fileVars, logVars, setVars>>

LocalSpec == LocalInit /\ [][LocalNext]_localVars
=============================================================================
