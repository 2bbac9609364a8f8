------------------------------ MODULE Startup -------------------------------
(***************************************************************************)
(* `smartdns run -p <file>` from the command line to serving: the process  *)
(* guard, reading the configuration, and giving up root.                   *)
(*                                                                         *)
(* Instances are started, stopped and killed at will, each with a pid the  *)
(* system hands out; unrelated processes take pids too.  The guard's file  *)
(* is looked at in one step and written in another.                        *)
(***************************************************************************)
EXTENDS Integers, Sequences, FiniteSets, Absent

CONSTANTS
  Instances,   \* starts of the program that may overlap
  Pids,        \* process ids
  Setups       \* [user: "none", "known" or "unknown"; root: started by root;
               \*  open: its user may remove files beside the guard's]

ASSUME StartPidAssumption == Null \notin Pids

VARIABLES
  setup,       \* how the program is started, the same for every instance
  pidFile,     \* the pid in the guard's file, Null if there is none
  foreign,     \* pids of unrelated processes
  inst,        \* [Instances -> [pc, pid, guard, uid, permitted, effective, faults]]
  overlapped   \* two instances were between looking and writing at once

startVars == <<setup, pidFile, foreign, inst, overlapped>>

AllCaps == {"net", "others"}      \* "net": the four the program keeps
Needed == {"net"}

Off == [pc |-> "off", pid |-> Null, guard |-> FALSE, uid |-> "root",
        permitted |-> {}, effective |-> {}, keep |-> FALSE, faults |-> FALSE]

Live(pid) == pid \in foreign \/ \E i \in Instances: inst[i].pid = pid
Guarding == {i \in Instances: inst[i].pc \in {"look", "write"}}

GoesTo(i, pc) == inst' = [inst EXCEPT ![i].pc = pc]

(***************************************************************************)
(* The process begins.                                                     *)
(***************************************************************************)
Launch(i, pid) ==
  /\ inst[i].pc = "off"
  /\ ~Live(pid)
  /\ inst' = [inst EXCEPT ![i] =
       [Off EXCEPT !.pc = "look", !.pid = pid,
          !.uid = IF setup.root THEN "root" ELSE "user",
          !.permitted = IF setup.root THEN AllCaps ELSE {},
          !.effective = IF setup.root THEN AllCaps ELSE {}]]
  /\ overlapped' = (overlapped \/ Guarding # {})
  /\ UNCHANGED <<setup, pidFile, foreign>>

(***************************************************************************)
(* process_guard::create.  A file that cannot be read or written leaves    *)
(* the process running without a guard; a pid of a live process ends it.   *)
(***************************************************************************)
Refuses(i) == pidFile # Null /\ Live(pidFile)

EndedBeforeGuard(i) == inst' = [inst EXCEPT ![i] = Off]

Look(i) ==
  /\ inst[i].pc = "look"
  /\ \/ ~Refuses(i) /\ GoesTo(i, "write")
     \/ Refuses(i) /\ EndedBeforeGuard(i)
     \/ pidFile # Null /\ GoesTo(i, "load")       \* fs::read_to_string fails
  /\ UNCHANGED <<setup, pidFile, foreign, overlapped>>

WriteGuard(i) ==
  /\ inst[i].pc = "write"
  /\ \/ /\ pidFile' = inst[i].pid
        /\ inst' = [inst EXCEPT ![i].pc = "load", ![i].guard = TRUE]
     \/ GoesTo(i, "load") /\ UNCHANGED pidFile    \* fs::write fails
  /\ UNCHANGED <<setup, foreign, overlapped>>

(***************************************************************************)
(* ProcessGuard::drop at a regular end, by return or by panic: the file is *)
(* removed if the process still may.                                       *)
(***************************************************************************)
MayRemove(i) == inst[i].uid = "root" \/ setup.open
DropAlways(i) == pidFile' = IF MayRemove(i) THEN Null ELSE pidFile
Drop(i) ==
  pidFile' = IF inst[i].guard /\ MayRemove(i) THEN Null ELSE pidFile

Ends(i) == Drop(i) /\ inst' = [inst EXCEPT ![i] = Off]

(***************************************************************************)
(* RuntimeConfig::load panics when there is no usable configuration.       *)
(***************************************************************************)
LoadConf(i) ==
  /\ inst[i].pc = "load"
  /\ \/ GoesTo(i, "privileges") /\ UNCHANGED pidFile
     \/ Ends(i)
  /\ UNCHANGED <<setup, foreign, overlapped>>

(***************************************************************************)
(* run_user: the user of the configuration, whose failure is fatal, or     *)
(* nobody, whose failure is only logged.                                   *)
(***************************************************************************)
SwitchFailed(i) ==
  IF setup.user # "none" THEN Ends(i)
  ELSE /\ inst' = [inst EXCEPT ![i].pc = "serving", ![i].faults = TRUE]
       /\ UNCHANGED pidFile

SwitchUser(i) ==
  /\ inst[i].pc = "privileges"
  /\ IF inst[i].uid # "root" THEN GoesTo(i, "serving") /\ UNCHANGED pidFile
     ELSE IF setup.user = "unknown" THEN SwitchFailed(i)
     ELSE GoesTo(i, "keepcaps") /\ UNCHANGED pidFile
  /\ UNCHANGED <<setup, foreign, overlapped>>

(***************************************************************************)
(* keepcaps, set_gid, set_uid, set_caps, in this order; each may fail.     *)
(* Changing the uid empties the effective capabilities, and the permitted  *)
(* ones too unless they are kept; a capability is set from the permitted.  *)
(***************************************************************************)
Keepcaps(i) == inst' = [inst EXCEPT ![i].pc = "gid", ![i].keep = TRUE]
SetGid(i) == "others" \in inst[i].effective /\ GoesTo(i, "uid")
SetUid(i) ==
  inst' = [inst EXCEPT ![i].pc = "caps", ![i].uid = "user", ![i].effective = {},
             ![i].permitted = IF inst[i].keep THEN @ ELSE {}]
SetCaps(i) ==
  /\ Needed \subseteq inst[i].permitted
  /\ inst' = [inst EXCEPT ![i].pc = "serving", ![i].effective = Needed,
                ![i].permitted = Needed]

SwitchStep(i) ==
  /\ \/ /\ \/ inst[i].pc = "keepcaps" /\ Keepcaps(i)
           \/ inst[i].pc = "gid" /\ SetGid(i)
           \/ inst[i].pc = "uid" /\ SetUid(i)
           \/ inst[i].pc = "caps" /\ SetCaps(i)
        /\ UNCHANGED pidFile
     \/ inst[i].pc \in {"keepcaps", "gid", "uid", "caps"} /\ SwitchFailed(i)
  /\ UNCHANGED <<setup, foreign, overlapped>>

(***************************************************************************)
(* The end: a stop, after which run() returns, or a kill.                  *)
(***************************************************************************)
StopServing(i) ==
  /\ inst[i].pc = "serving"
  /\ Ends(i)
  /\ UNCHANGED <<setup, foreign, overlapped>>

Kill(i) ==
  /\ inst[i].pc # "off"
  /\ inst' = [inst EXCEPT ![i] = Off]
  /\ UNCHANGED <<setup, pidFile, foreign, overlapped>>

ForeignProcess(pid) ==
  /\ IF pid \in foreign THEN foreign' = foreign \ {pid}
     ELSE ~Live(pid) /\ foreign' = foreign \union {pid}
  /\ UNCHANGED <<setup, pidFile, inst, overlapped>>

StartInit ==
  /\ setup \in Setups
  /\ pidFile = Null
  /\ foreign = {}
  /\ inst = [i \in Instances |-> Off]
  /\ overlapped = FALSE

StartNext ==
  \/ \E i \in Instances:
       \/ \E pid \in Pids: Launch(i, pid)
       \/ Look(i) \/ WriteGuard(i) \/ LoadConf(i)
       \/ SwitchUser(i) \/ SwitchStep(i) \/ StopServing(i) \/ Kill(i)
  \/ \E pid \in Pids: ForeignProcess(pid)

StartSpec == StartInit /\ [][StartNext]_startVars

-----------------------------------------------------------------------------
Guarded(i) == inst[i].guard

(***************************************************************************)
(* Two guarded instances never run at once, over stops, kills, stale files *)
(* and pids taken by others, as long as no two starts were between looking *)
(* at the file and writing it at the same time.                            *)
(***************************************************************************)
OneGuarded ==
  ~overlapped => \A i, j \in Instances: Guarded(i) /\ Guarded(j) => i = j

=============================================================================
