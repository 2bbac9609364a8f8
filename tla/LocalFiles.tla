----------------------------- MODULE LocalFiles -----------------------------
(***************************************************************************)
(* Answers taken from files other programs rewrite: the hosts files, the   *)
(* lease files of dnsmasq and odhcpd, and the kernel's neighbour table     *)
(* behind the MAC address of a client.  Each store keeps what it read and  *)
(* looks at the file again when its last look is Interval old; lookups run *)
(* concurrently, and a file may change between any two of their steps.     *)
(*                                                                         *)
(* A change of a file is a new edition, and every edition has its own      *)
(* modification time.  Editions[e] is the sequence of lease lines of       *)
(* edition e, or Null while the file is away.  Client is the address whose *)
(* MAC is looked up, neither loopback nor unspecified.                     *)
(***************************************************************************)
EXTENDS Naturals, Sequences, FiniteSetsExt, Absent

CONSTANTS FileSeekers, Stores, Editions, Neighbours, Client, Interval, Horizon

ASSUME FilesAssumption ==
  /\ Interval \in Nat \ {0} /\ Horizon \in Nat /\ Horizon > Interval
  /\ Len(Editions) \in Nat \ {0} /\ DOMAIN Editions = 1 .. Len(Editions)
  /\ Null \notin Nat \cup FileSeekers \cup [data : Nat, stamp : Nat, checked : Nat]

VARIABLES
  kind,      \* the store under study
  wall,      \* the clock
  edition,   \* the file's present edition
  until,     \* when an edition was replaced
  failedAt,  \* when a read last failed
  kept,      \* what the store remembers: data, stamp, checked
  neighbour, \* dnsmasq's neighbour cache: table, checked
  locked,    \* who holds the store's mutex
  seek       \* the lookups

fileVars == <<kind, wall, edition, until, failedAt, kept, neighbour, locked, seek>>

Nothing == 0
FilePresent(e) == Editions[e] # Null
Stamp(e) == IF FilePresent(e) THEN e ELSE Nothing
FileResting == [pc |-> "idle", began |-> 0, stamp |-> 0, read |-> Nothing,
            asks |-> Null, found |-> Null, name |-> Null]

FilesInit ==
  /\ kind \in Stores
  /\ wall = Interval
  /\ edition = 1
  /\ until = [e \in DOMAIN Editions |-> Null]
  /\ failedAt = Null
  /\ kept = IF kind = "odhcpd" THEN [data |-> Nothing, stamp |-> Nothing, checked |-> 0] ELSE Null
  /\ neighbour = [table |-> {}, checked |-> wall]
  /\ locked = Null
  /\ seek = [s \in FileSeekers |-> FileResting]

Young(now) == kept # Null => now < kept.checked + Interval
At(s, pc) == seek[s].pc = pc
Move(s, pc) == seek' = [seek EXCEPT ![s].pc = pc]
Keep(data, stamp, now) == kept' = [data |-> data, stamp |-> stamp, checked |-> now]

(* Reading a file of leases: a later line for an address or a MAC replaces *)
(* an earlier one, and a name read from the file is made fully qualified.  *)
(* A line that lacks a field, or has no address where one belongs, is      *)
(* skipped.                                                                *)
LineParses(line) == line.ip # Null /\ line.host # Null
LastLine(lines, field, value) ==
  LET I == {i \in DOMAIN lines : LineParses(lines[i]) /\ lines[i][field] = value}
  IN  IF I = {} THEN Null ELSE lines[Max(I)]
NameOf(line) == [label |-> line.host, fqdn |-> TRUE]
Shown(name) == IF name.fqdn THEN <<name.label, ".">> ELSE <<name.label>>
ByIp(e, ip) == LastLine(Editions[e], "ip", ip)
ByMac(e, mac) == LastLine(Editions[e], "mac", mac)

(* LanClientStore::reverse_lookup: by the address, else by the MAC the     *)
(* neighbour table gives; a placeholder name is passed over.               *)
Usable(line) == line # Null => Shown(NameOf(line)) # <<"*">>
MacOf(table, ip) == IF \E n \in table : n.ip = ip
                    THEN (CHOOSE n \in table : n.ip = ip).mac ELSE Null
ReverseAnswer(ip, table) ==
  LET direct == ByIp(kept.data, ip)
      near   == ByMac(kept.data, MacOf(table, ip))
      line   == IF direct # Null /\ Usable(direct) THEN direct
                ELSE IF near # Null /\ Usable(near) THEN near ELSE Null
  IN IF line = Null THEN Null ELSE line.host

(* LeaseRecords: odhcpd's placeholders are left out as the file is read,  *)
(* and the first name of an address stays its name.                        *)
FirstLine(lines, ip, field, skipped) ==
  LET I == {i \in DOMAIN lines : lines[i].ip = ip /\ lines[i][field] \notin skipped}
  IN  IF I = {} THEN Null ELSE lines[Min(I)]
Placeholders == {"*", "-", "0"}
ReverseRecord(d, ip) ==
  IF d = Nothing \/ ~FilePresent(d) THEN Null
  ELSE LET line == FirstLine(Editions[d], ip, "host", Placeholders)
       IN IF line = Null THEN Null ELSE line.host

(* The MAC of the first line that has the address and a MAC.               *)
NeighborMac(e, ip) ==
  IF ~FilePresent(e) THEN Null
  ELSE LET line == FirstLine(Editions[e], ip, "mac", {"zero"})
       IN IF line = Null THEN Null ELSE line.mac
ArpMac(e, ip) == NeighborMac(e, ip)

Answered(s, data) ==
  seek' = [seek EXCEPT ![s] =
             [FileResting EXCEPT !.pc = "done", !.began = seek[s].began, !.found = data,
                !.name = IF seek[s].asks = Null THEN Null ELSE ReverseRecord(data, seek[s].asks)]]

(* The world: time passes, and the file is rewritten, removed or restored. *)
FilesTick ==
  /\ wall < Horizon
  /\ wall' = wall + 1
  /\ UNCHANGED <<kind, edition, until, failedAt, kept, neighbour, locked, seek>>

FileChanges ==
  /\ edition < Len(Editions)
  /\ edition' = edition + 1
  /\ until' = [until EXCEPT ![edition] = wall]
  /\ UNCHANGED <<kind, wall, failedAt, kept, neighbour, locked, seek>>

(* NeighborStore::lookup: an old table is read again; when the command     *)
(* fails the old one is used.                                              *)
NeighborLookup ==
  IF wall > neighbour.checked + Interval
  THEN neighbour' \in {[table |-> t, checked |-> wall] : t \in Neighbours} \cup {neighbour}
  ELSE UNCHANGED neighbour

(* A query enters the store's middleware.  A PTR query asks dnsmasq's      *)
(* store first for what it already holds, and only when that gives nothing *)
(* goes on to the lookup that looks at the file.                           *)
Asked(s, name) ==
  seek' = [seek EXCEPT ![s] = [FileResting EXCEPT !.pc = IF name # Null THEN "done" ELSE "check",
                               !.began = wall, !.name = name]]

FileQuery(s) ==
  /\ At(s, "idle")
  /\ Asked(s, Null)
  /\ UNCHANGED <<kind, wall, edition, until, failedAt, kept, neighbour, locked>>

PtrQuery(s, ip) ==
  /\ kind = "dnsmasq"
  /\ At(s, "idle")
  /\ IF kept = Null
     THEN Asked(s, Null) /\ UNCHANGED neighbour
     ELSE /\ IF ByIp(kept.data, ip) # Null THEN UNCHANGED neighbour ELSE NeighborLookup
          /\ Asked(s, ReverseAnswer(ip, neighbour'.table))
  /\ UNCHANGED <<kind, wall, edition, until, failedAt, kept, locked>>

OdhcpdPtr(s, ip) ==
  /\ kind = "odhcpd"
  /\ At(s, "idle")
  /\ seek' = [seek EXCEPT ![s] = [FileResting EXCEPT !.pc = "check", !.began = wall, !.asks = ip]]
  /\ UNCHANGED <<kind, wall, edition, until, failedAt, kept, neighbour, locked>>

(* cached_hosts and get_cached_clients: look under the read lock, take the *)
(* file's stamp outside any lock, look again under the write lock, read    *)
(* the file outside any lock, and store it.                                *)
FirstLook(s) ==
  /\ kind \in {"hosts", "dnsmasq"}
  /\ At(s, "check")
  /\ IF kept # Null /\ Young(seek[s].began) THEN Answered(s, kept.data) ELSE Move(s, "stat")
  /\ UNCHANGED <<kind, wall, edition, until, failedAt, kept, neighbour, locked>>

Stat(s) ==
  /\ kind \in {"hosts", "dnsmasq"}
  /\ At(s, "stat")
  /\ seek' = [seek EXCEPT ![s].pc = "recheck", ![s].stamp = Stamp(edition)]
  /\ UNCHANGED <<kind, wall, edition, until, failedAt, kept, neighbour, locked>>

SecondLook(s) ==
  /\ At(s, "recheck")
  /\ IF kept # Null /\ Young(seek[s].began)
     THEN Answered(s, kept.data) /\ UNCHANGED kept
     ELSE IF kept # Null /\ (kept # Null => kept.stamp = seek[s].stamp)
     THEN Answered(s, kept.data) /\ kept' = [kept EXCEPT !.checked = seek[s].began]
     ELSE Move(s, "read") /\ UNCHANGED kept
  /\ UNCHANGED <<kind, wall, edition, until, failedAt, neighbour, locked>>

(* read_hosts skips a file it cannot open; read_lease_file reports it, and *)
(* a missing file is one it cannot open.                                   *)
ReadFile(s, ok) ==
  /\ At(s, "read")
  /\ seek' = [seek EXCEPT ![s].pc = "store",
                          ![s].read = IF ~ok \/ (kind = "dnsmasq" /\ ~FilePresent(edition))
                                      THEN Nothing ELSE edition]
  /\ failedAt' = IF seek'[s].read = Nothing THEN wall ELSE failedAt
  /\ UNCHANGED <<kind, wall, edition, until, kept, neighbour, locked>>

StoreStampedNow(s) ==
  /\ kind = "hosts"
  /\ At(s, "store")
  /\ Keep(seek[s].read, Stamp(edition), seek[s].began)
  /\ Answered(s, seek[s].read)
  /\ UNCHANGED <<kind, wall, edition, until, failedAt, neighbour, locked>>

StoreHosts(s) ==
  /\ kind = "hosts"
  /\ At(s, "store")
  /\ Keep(seek[s].read, seek[s].stamp, seek[s].began)
  /\ Answered(s, seek[s].read)
  /\ UNCHANGED <<kind, wall, edition, until, failedAt, neighbour, locked>>

StoreLeases(s) ==
  /\ kind = "dnsmasq"
  /\ At(s, "store")
  /\ IF seek[s].read # Nothing
     THEN /\ Keep(seek[s].read, seek[s].stamp, seek[s].began)
          /\ Answered(s, seek[s].read)
          /\ neighbour' \in {[table |-> t, checked |-> wall] : t \in Neighbours} \cup {neighbour}
     ELSE /\ kept' = IF kept = Null THEN Null ELSE [kept EXCEPT !.checked = seek[s].began]
          /\ Answered(s, IF kept = Null THEN Null ELSE kept.data)
          /\ UNCHANGED neighbour
  /\ UNCHANGED <<kind, wall, edition, until, failedAt, locked>>

(* OdhcpdMiddleware::lookup does all of this under one mutex; a file that  *)
(* has gone empties the store, any other error leaves it as it was.        *)
OdhcpdLook(s) ==
  /\ kind = "odhcpd" /\ locked = Null
  /\ At(s, "check")
  /\ IF Young(wall)
     THEN Answered(s, kept.data) /\ UNCHANGED <<kept, locked>>
     ELSE kept' = [kept EXCEPT !.checked = wall] /\ locked' = s /\ Move(s, "stat")
  /\ UNCHANGED <<kind, wall, edition, until, failedAt, neighbour>>

OdhcpdStat(s) ==
  /\ kind = "odhcpd" /\ locked = s
  /\ At(s, "stat")
  /\ IF Stamp(edition) = kept.stamp
     THEN Answered(s, kept.data) /\ locked' = Null
     ELSE seek' = [seek EXCEPT ![s].pc = "parse", ![s].stamp = Stamp(edition)] /\ UNCHANGED locked
  /\ UNCHANGED <<kind, wall, edition, until, failedAt, kept, neighbour>>

OdhcpdRead(s, ok) ==
  /\ locked = s
  /\ At(s, "parse")
  /\ locked' = Null
  /\ failedAt' = IF ok THEN failedAt ELSE wall
  /\ kept' = IF ~ok THEN kept
             ELSE [kept EXCEPT !.data = edition,
                               !.stamp = IF FilePresent(edition) THEN seek[s].stamp ELSE Nothing]
  /\ Answered(s, kept'.data)
  /\ UNCHANGED <<kind, wall, edition, until, neighbour>>

(* client_mac::lookup: the entry is looked at, a blocking task looks again *)
(* under the mutex and, holding it, runs the command and stores the result.*)
MacLook(s) ==
  /\ kind = "mac" /\ locked = Null
  /\ At(s, "check")
  /\ IF kept # Null /\ Young(wall) THEN Answered(s, kept.data) ELSE Move(s, "blocking")
  /\ UNCHANGED <<kind, wall, edition, until, failedAt, kept, neighbour, locked>>

CommandResult(v4) == IF v4 THEN ArpMac(edition, Client) ELSE NeighborMac(edition, Client)

MacRun(s, v4) ==
  /\ locked = Null
  /\ At(s, "blocking")
  /\ IF kept # Null /\ Young(wall)
     THEN Answered(s, kept.data) /\ UNCHANGED locked
     ELSE /\ locked' = s
          /\ seek' = [seek EXCEPT ![s].pc = "insert", ![s].read = CommandResult(v4)]
  /\ UNCHANGED <<kind, wall, edition, until, failedAt, kept, neighbour>>

MacInsert(s) ==
  /\ locked = s
  /\ At(s, "insert")
  /\ Keep(seek[s].read, Nothing, wall)
  /\ locked' = Null
  /\ Answered(s, seek[s].read)
  /\ UNCHANGED <<kind, wall, edition, until, failedAt, neighbour>>

FileReply(s) ==
  /\ At(s, "done")
  /\ seek' = [seek EXCEPT ![s] = FileResting]
  /\ UNCHANGED <<kind, wall, edition, until, failedAt, kept, neighbour, locked>>

HostAddresses == {l.ip : l \in UNION {Range(Editions[e]) : e \in {e \in DOMAIN Editions : FilePresent(e)}}}
             \cup {n.ip : n \in UNION Neighbours}

FilesNext ==
  \/ FilesTick \/ FileChanges
  \/ \E s \in FileSeekers :
       \/ FileQuery(s) \/ FirstLook(s) \/ Stat(s) \/ SecondLook(s) \/ StoreHosts(s) \/ StoreLeases(s)
       \/ OdhcpdLook(s) \/ OdhcpdStat(s) \/ MacLook(s) \/ MacInsert(s) \/ FileReply(s)
       \/ \E ok \in BOOLEAN : ReadFile(s, ok) \/ OdhcpdRead(s, ok)
       \/ \E ip \in HostAddresses : PtrQuery(s, ip) \/ OdhcpdPtr(s, ip)
       \/ \E v4 \in BOOLEAN : MacRun(s, v4)

FilesSpec == FilesInit /\ [][FilesNext]_fileVars

------------------------------------------------------------------------------
FileContents(d) == IF d = Nothing THEN Null ELSE Editions[d]
Recent(t, began) == t # Null => t + Interval > began

(* What a lookup returns was in the file less than Interval before the     *)
(* lookup began, whatever the other lookups and the file did meanwhile     *)
(* (the stamp is taken before the contents are read, and checked_at is the *)
(* start of the lookup that read them); a failed read excuses only the     *)
(* lookups of the next Interval, in the hosts store all later ones.  A     *)
(* file that is away has no stamp, so what was read while it was back for  *)
(* a moment between two absences may be taken for the absent file.         *)
NeverLongStale ==
  \A s \in FileSeekers :
    (/\ kind # "mac" /\ At(s, "done") /\ seek[s].found # Null
     /\ kind = "dnsmasq" => seek[s].name = Null) =>
      \/ failedAt # Null /\ (kind = "hosts" \/ Recent(failedAt, seek[s].began))
      \/ \E e \in 1 .. edition : /\ FileContents(e) = FileContents(seek[s].found)
                              /\ Recent(until[e], seek[s].began)
      \/ \E e \in seek[s].found + 1 .. edition :
           /\ ~FilePresent(e) /\ Recent(until[e], seek[s].began)
           /\ \E b \in 1 .. seek[s].found - 1 : ~FilePresent(b)

(* A reverse lookup never answers with a placeholder for a missing name    *)
(* ("Skip placeholder hostnames", dnsmasq.rs:245).  Not so: the name is    *)
(* compared in another form than it is kept in.                            *)
PlaceholderSkipped == \A s \in FileSeekers : seek[s].name # "*"
=============================================================================
