--------------------------- MODULE ServiceInstall ---------------------------
(***************************************************************************)
(* `smartdns service install | uninstall | start | stop | restart` and     *)
(* `smartdns update`: the files the installer places and removes, the      *)
(* service manager's commands around them, and the executable's            *)
(* replacement by a newer release.                                         *)
(*                                                                         *)
(* A command is a list of steps; each step may fail, and the command may   *)
(* be interrupted between two of them.  Between commands the user edits    *)
(* the configuration; at any time the running service's web interface      *)
(* fills the managed directory.                                            *)
(* A file's text is a sequence of blocks, each tagged with the version it  *)
(* was written by: enough to see what a write leaves of the former text.   *)
(***************************************************************************)
EXTENDS Integers, Sequences, Absent

CONSTANTS
  Versions,   \* releases, numbered in order
  Previews,   \* those that are not final
  Length,     \* [Versions -> [conf: Nat, unit: Nat]], blocks of a text
  Managers,   \* the service managers of the platform
  Releases    \* what a list of releases may hold: sets of
              \* [version, flavor, asset, preview]

ASSUME InstallAssumption ==
  /\ Versions \subseteq Nat \ {0} /\ Previews \subseteq Versions
  /\ \A v \in Versions: Length[v] \in [{"conf", "unit"} -> Nat \ {0}]
ASSUME InstallNullAssumption == Null \notin {"Ok", "Err"}

VARIABLES
  manager,    \* the platform's service manager
  disk,       \* path -> text, or Null where there is none
  service,    \* [enabled, running: version or Null]
  job         \* [command, exe, todo, clean: no step failed, result]

installVars == <<manager, disk, service, job>>

Paths == {"bin", "dir", "conf", "default", "unit", "managed"}

Own == 0                      \* the command is run from the installed file
USER == -1                    \* a block the user wrote

VersionOf(exe) == IF exe = Own THEN disk["bin"][1] ELSE exe
Text(part, v) == [i \in 1 .. Length[v][part] |-> v]
Exists(path) == disk[path] # Null

(***************************************************************************)
(* The items of a service definition, in the order they are placed.  The   *)
(* executable is an item only when the command is not run from there.      *)
(***************************************************************************)
Strategy(path) == IF path = "conf" THEN "Preserve" ELSE "Overide"
UninstallStrategy(path) ==
  CASE path = "conf" -> "Keep"
    [] path \in {"dir", "managed"} -> "RemoveIfEmpty"
    [] OTHER -> "Remove"

install_current_exe_to(exe) == IF exe = Own THEN <<>> ELSE <<"bin">>
Items(exe) ==
  install_current_exe_to(exe) \o <<"dir", "conf", "unit", "managed">>

HasEnable == manager \in {"systemd", "initd"}
HasRestart == manager \in {"systemd", "initd"}

(***************************************************************************)
(* The commands.  What a failing step does to the rest: "ignore" nothing,  *)
(* "skip" ends the removal only, "abort" ends the command.                 *)
(***************************************************************************)
StepOf(op, path, fails) == [op |-> op, path |-> path, fails |-> fails]
EnableSteps == IF HasEnable THEN <<StepOf("enable", "unit", "abort")>> ELSE <<>>
DisableSteps == IF HasEnable THEN <<StepOf("disable", "unit", "ignore")>> ELSE <<>>
RemoveSteps(exe, purge, fails) ==
  [i \in DOMAIN Items(exe) |->
     StepOf(IF purge THEN "purge" ELSE "remove", Items(exe)[Len(Items(exe)) + 1 - i], fails)]
PlaceSteps(exe) ==
  [i \in DOMAIN Items(exe) |-> StepOf("place", Items(exe)[i], "abort")]

UninstallSteps(exe, purge, fails) ==
  <<StepOf("stop", "unit", "ignore")>> \o DisableSteps \o RemoveSteps(exe, purge, fails)
InstallStepsOver(exe) ==
  PlaceSteps(exe) \o EnableSteps \o <<StepOf("start", "unit", "abort")>>
InstallSteps(exe) ==
  UninstallSteps(exe, FALSE, "skip")
    \o PlaceSteps(exe) \o EnableSteps \o <<StepOf("start", "unit", "abort")>>
RestartSteps ==
  IF HasRestart THEN <<StepOf("restart", "unit", "abort")>>
  ELSE <<StepOf("stop", "unit", "ignore"), StepOf("start", "unit", "abort")>>

StepsOf(command, exe) ==
  CASE command = "install" -> InstallSteps(exe)
    [] command = "uninstall" -> UninstallSteps(exe, FALSE, "abort")
    [] command = "purge" -> UninstallSteps(exe, TRUE, "abort")
    [] command = "start" -> <<StepOf("start", "unit", "abort")>>
    [] command = "stop" -> <<StepOf("stop", "unit", "abort")>>
    [] command = "restart" -> RestartSteps

Commands == {"install", "uninstall", "purge", "start", "stop", "restart"}

Idle == [command |-> Null, exe |-> Own, todo |-> <<>>, clean |-> TRUE, result |-> Null]

(***************************************************************************)
(* Installer::install, one item.  A text is written over an existing file  *)
(* from its start, which is not truncated first; the executable is copied. *)
(***************************************************************************)
Destination(path) ==
  IF Exists(path) /\ Strategy(path) = "Preserve" THEN "default" ELSE path

Over(old, new) ==
  IF old = Null THEN new
  ELSE new \o SubSeq(old, Len(new) + 1, Len(old))

Placed(path) ==
  LET v == VersionOf(job.exe)
      to == Destination(path)
  IN CASE path \in {"dir", "managed"} ->
            IF Exists(path) THEN disk ELSE [disk EXCEPT ![path] = <<>>]
       [] path = "bin" -> [disk EXCEPT !["bin"] = <<v>>]
       [] OTHER -> [disk EXCEPT ![to] = Over(disk[to], Text(path, v))]

(***************************************************************************)
(* Installer::uninstall, one item.                                         *)
(***************************************************************************)
Under(path) == IF path = "dir" THEN {"dir", "conf", "default", "managed"} ELSE {path}
IsEmpty(path) ==
  IF path = "dir" THEN \A p \in Under("dir") \ {"dir"}: ~Exists(p)
  ELSE disk[path] = <<>>
Gone(path) == [p \in Paths |-> IF p \in Under(path) THEN Null ELSE disk[p]]

Taken(path) ==
  \/ UninstallStrategy(path) = "Remove"
  \/ UninstallStrategy(path) = "RemoveIfEmpty" /\ IsEmpty(path)
Removed(path, purge) ==
  IF Exists(path) /\ (purge \/ Taken(path)) THEN Gone(path) ELSE disk

(***************************************************************************)
(* The service manager (external): it runs the installed executable.       *)
(***************************************************************************)
Runnable == Exists("unit") /\ Exists("bin")
Started == IF service.running # Null THEN service
           ELSE [service EXCEPT !.running = disk["bin"][1]]
Restarted == [service EXCEPT !.running = disk["bin"][1]]

(***************************************************************************)
(* One step of the command that runs, done.                                *)
(***************************************************************************)
Possible(s) ==
  CASE s.op = "place" -> s.path \in {"conf", "managed"} => Exists("dir")
    [] s.op = "enable" -> Exists("unit")
    [] s.op = "start" -> service.running # Null \/ Runnable
    [] s.op = "restart" -> Runnable
    [] OTHER -> TRUE

DiskAfter(s) ==
  CASE s.op = "place" -> Placed(s.path)
    [] s.op = "remove" -> Removed(s.path, FALSE)
    [] s.op = "purge" -> Removed(s.path, TRUE)
    [] OTHER -> disk

ServiceAfter(s) ==
  CASE s.op = "stop" -> [service EXCEPT !.running = Null]
    [] s.op = "disable" -> [service EXCEPT !.enabled = FALSE]
    [] s.op = "enable" -> [service EXCEPT !.enabled = TRUE]
    [] s.op = "start" -> Started
    [] s.op = "restart" -> Restarted
    [] OTHER -> service

Ended(todo, result) == IF todo = <<>> THEN result ELSE Null

StepDone ==
  /\ job.todo # <<>>
  /\ Possible(Head(job.todo))
  /\ disk' = DiskAfter(Head(job.todo))
  /\ service' = ServiceAfter(Head(job.todo))
  /\ job' = [job EXCEPT !.todo = Tail(@), !.result = Ended(Tail(job.todo), "Ok")]
  /\ UNCHANGED manager

(***************************************************************************)
(* The step fails: the command ends, or goes on without it, or without the *)
(* rest of the removal.                                                    *)
(***************************************************************************)
AfterFailure(s, rest) ==
  CASE s.fails = "abort" -> <<>>
    [] s.fails = "skip" -> SelectSeq(rest, LAMBDA t: t.op # "remove")
    [] OTHER -> rest

StepFailed ==
  /\ job.todo # <<>>
  /\ LET s == Head(job.todo)
         rest == AfterFailure(s, Tail(job.todo))
     IN job' = [job EXCEPT !.todo = rest, !.clean = FALSE,
                  !.result = Ended(rest, IF s.fails = "abort" THEN "Err" ELSE "Ok")]
  /\ UNCHANGED <<manager, disk, service>>

Interrupted ==
  /\ job.todo # <<>>
  /\ job' = Idle
  /\ UNCHANGED <<manager, disk, service>>

(***************************************************************************)
(* The user runs a command: the installed executable, or one downloaded.   *)
(***************************************************************************)
Run(command, exe) ==
  /\ job.todo = <<>>
  /\ exe = Own => Exists("bin")
  /\ job' = [command |-> command, exe |-> exe, todo |-> StepsOf(command, exe),
             clean |-> TRUE, result |-> Null]
  /\ UNCHANGED <<manager, disk, service>>

(***************************************************************************)
(* updater::update: the newest release of the executable's flavour with an *)
(* archive for its target; without a version asked for, one that is newer  *)
(* and, from a final version, final.  The running executable is replaced.  *)
(***************************************************************************)
Eligible(r, current, requested) ==
  /\ r.flavor = "headless"
  /\ IF requested # Null THEN r.version = requested
     ELSE r.version > current /\ (r.preview => current \in Previews)
  /\ r.asset
SelectRelease(releases, current, requested) ==
  LET found == {r \in releases: Eligible(r, current, requested)}
  IN IF found = {} THEN Null
     ELSE (CHOOSE r \in found: \A o \in found: o.version <= r.version).version

Update(releases, requested) ==
  /\ job.todo = <<>>
  /\ Exists("bin")
  /\ LET v == SelectRelease(releases, disk["bin"][1], requested)
     IN disk' = IF v = Null THEN disk ELSE [disk EXCEPT !["bin"] = <<v>>]
  /\ job' = Idle
  /\ UNCHANGED <<manager, service>>

(***************************************************************************)
(* The user and the web interface.                                         *)
(***************************************************************************)
EditConf ==
  /\ job.todo = <<>>
  /\ Exists("conf")
  /\ disk' = [disk EXCEPT !["conf"] = <<USER>>]
  /\ UNCHANGED <<manager, service, job>>

SaveManaged ==
  /\ service.running # Null
  /\ Exists("managed")
  /\ disk' = [disk EXCEPT !["managed"] = <<USER>>]
  /\ UNCHANGED <<manager, service, job>>

InstallInit ==
  /\ manager \in Managers
  /\ disk = [p \in Paths |-> Null]
  /\ service = [enabled |-> FALSE, running |-> Null]
  /\ job = Idle

InstallNext ==
  \/ \E c \in Commands, exe \in Versions \union {Own}: Run(c, exe)
  \/ StepDone
  \/ StepFailed
  \/ Interrupted
  \/ \E releases \in Releases, v \in Versions \union {Null}: Update(releases, v)
  \/ EditConf
  \/ SaveManaged

InstallSpec == InstallInit /\ [][InstallNext]_installVars

-----------------------------------------------------------------------------
(***************************************************************************)
(* After an installation reported as successful during which every removal *)
(* and the stop succeeded, the unit is exactly the release's (no rest of a *)
(* longer former one), the service is set up and what runs is the release. *)
(* The installer does not truncate: this rests on install() removing the   *)
(* former files first.                                                     *)
(***************************************************************************)
InstalledAsBuilt ==
  (job.command = "install" /\ job.result = "Ok" /\ job.clean /\ job.exe # Own)
    => /\ disk["unit"] = Text("unit", job.exe)
       /\ disk["bin"] = <<job.exe>>
       /\ HasEnable => service.enabled
       /\ service.running = job.exe
=============================================================================
