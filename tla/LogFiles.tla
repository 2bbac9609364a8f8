------------------------------ MODULE LogFiles ------------------------------
(***************************************************************************)
(* The log and the audit log: queries send audit records through a bounded *)
(* channel to a writer task, and both logs are files that rotate when they *)
(* are full.  After a reload the old writer drains its channel while the   *)
(* new one already writes to the same path.                                *)
(*                                                                         *)
(* A record is a number, a file a sequence of records, and lengths count   *)
(* records.  A file is named by its log and the time of the rotation that  *)
(* made it, 0 for the file being written.  The default names make          *)
(* "smartdns" of smartdns.log a prefix of "smartdns-audit": beside says    *)
(* that the two logs are in one directory.                                 *)
(***************************************************************************)
EXTENDS Integers, Sequences, FiniteSets, Absent

CONSTANTS
  FileSize,    \* log-size and audit-size
  FileNum,     \* log-num and audit-num
  QueueSize,   \* 100 in the code
  BatchSize,   \* 10 in the code
  MaxLines     \* records of each log in the instance

ASSUME LogAssumption == FileSize \in Nat \ {0} /\ FileNum \in Nat \ {0} /\ BatchSize \in Nat \ {0}

Writers == {"log", "old", "new"}
LogOf(w) == IF w = "log" THEN "log" ELSE "audit"
MainFile(l) == [log |-> l, at |-> 0]

VARIABLES
  beside,
  logDisk,     \* the files: path |-> records
  handle,      \* each writer's MappedFile: open, len, pos (Null when it appends)
  rotated,     \* how many rotations there were
  queue,       \* the audit writers' channels
  batch,       \* what a writer took from its channel
  current,     \* the audit middleware queries use
  lines,       \* per log, how many records were made
  stored,      \* per log, the records written, in order
  torn         \* logs a crash or two writers at once have touched

logVars == <<beside, logDisk, handle, rotated, queue, batch, current, lines, stored, torn>>

Closed == [open |-> FALSE, len |-> 0, pos |-> Null]

LogInit ==
  /\ beside \in BOOLEAN
  /\ logDisk = [p \in {} |-> <<>>]
  /\ handle = [w \in Writers |-> Closed]
  /\ rotated = 0
  /\ queue = [w \in {"old", "new"} |-> <<>>]
  /\ batch = queue
  /\ current = "old"
  /\ lines = [l \in {"log", "audit"} |-> 0]
  /\ stored = [l \in {"log", "audit"} |-> <<>>]
  /\ torn = {}

(* MappedFile::len: the file's own count, or the length found on disk.     *)
LenOf(w) == IF handle[w].len > 0 \/ handle[w].open THEN handle[w].len
            ELSE IF MainFile(LogOf(w)) \in DOMAIN logDisk THEN Len(logDisk[MainFile(LogOf(w))]) ELSE 0
IsFull(w) == LenOf(w) >= FileSize

(* mapped_files lists the names that begin with the log's own, last name   *)
(* first: "smartdns.log", then "smartdns-audit" and its backups, then the  *)
(* backups "smartdns-<time>".                                              *)
MappedFiles(d, l) == {p \in DOMAIN d : p.log = l \/ (beside /\ l = "log")}

ListedBefore(p, f, l) ==
  LET kind(q) == IF q = MainFile(l) THEN 1 ELSE IF q.log # l THEN 2 ELSE 3
  IN \/ kind(p) < kind(f)
     \/ kind(p) = kind(f) /\ p # f /\ (p.at = 0 \/ (f.at # 0 /\ p.at > f.at))

FilesAfter(d, l, n) ==
  {f \in MappedFiles(d, l) : Cardinality({p \in MappedFiles(d, l) : ListedBefore(p, f, l)}) >= n}

(* backup_files: copy the full file aside, then remove all but the first   *)
(* FileNum files listed.                                                   *)
Copied(l) ==
  LET backup == [log |-> l, at |-> rotated + 1]
  IN [p \in DOMAIN logDisk \cup {backup} |-> logDisk[IF p = backup THEN MainFile(l) ELSE p]]

BackupFilesOneFewer(l) ==
  [p \in DOMAIN Copied(l) \ FilesAfter(Copied(l), l, FileNum - 1) |-> Copied(l)[p]]
BackupFiles(l) == [p \in DOMAIN Copied(l) \ FilesAfter(Copied(l), l, FileNum) |-> Copied(l)[p]]

(* get_active_file opens the file to append, to overwrite when it is full, *)
(* and from its start when there is none.                                  *)
OpenedLog(w, d) ==
  LET main == MainFile(LogOf(w)) IN
  IF handle[w].open /\ ~IsFull(w) THEN [file |-> handle[w], disk |-> d]
  ELSE IF main \notin DOMAIN d \/ IsFull(w)
  THEN [file |-> [open |-> TRUE, len |-> 0, pos |-> 0], 
        disk |-> [p \in DOMAIN d \cup {main} |-> IF p = main THEN <<>> ELSE d[p]]]
  ELSE [file |-> [open |-> TRUE, len |-> Len(d[main]), pos |-> Null], disk |-> d]

Put(text, pos, r) ==
  IF pos = Null \/ pos = Len(text) THEN Append(text, r)
  ELSE [i \in 1 .. (IF pos < Len(text) THEN Len(text) ELSE pos + 1) |->
          IF i = pos + 1 THEN r ELSE IF i <= Len(text) THEN text[i] ELSE 0]

(* A file that was written full is closed, so that the next write rotates  *)
(* it first.                                                               *)
Written(w, d, r) ==
  LET o    == OpenedLog(w, d)
      main == MainFile(LogOf(w))
      len  == o.file.len + 1
  IN /\ logDisk' = [o.disk EXCEPT ![main] = Put(@, o.file.pos, r)]
     /\ handle' = [handle EXCEPT ![w] = [open |-> len < FileSize, len |-> len,
                                         pos |-> IF o.file.pos = Null THEN Null ELSE o.file.pos + 1]]

Others(w) == {v \in Writers \ {w} : LogOf(v) = LogOf(w) /\ (queue[v] # <<>> \/ batch[v] # <<>> \/ handle[v].open)}
Store(w, r) ==
  /\ IsFull(w) => MainFile(LogOf(w)) \in DOMAIN logDisk
  /\ IF IsFull(w)
     THEN Written(w, BackupFiles(LogOf(w)), r) /\ rotated' = rotated + 1
     ELSE Written(w, logDisk, r) /\ UNCHANGED rotated
  /\ stored' = [stored EXCEPT ![LogOf(w)] = Append(@, r)]
  /\ torn' = IF w # "log" /\ Others(w) # {} THEN torn \cup {LogOf(w)} ELSE torn

(* A log line is written at once; an error loses the line.                 *)
LogLine ==
  /\ lines["log"] < MaxLines["log"]
  /\ lines' = [lines EXCEPT !["log"] = @ + 1]
  /\ \/ Store("log", lines["log"] + 1)
     \/ UNCHANGED <<logDisk, handle, rotated, stored, torn>>
  /\ UNCHANGED <<beside, queue, batch, current>>

(* A query ends: it waits while the channel is full.                       *)
SendAudit ==
  /\ lines["audit"] < MaxLines["audit"]
  /\ Len(queue[current]) < QueueSize
  /\ lines' = [lines EXCEPT !["audit"] = @ + 1]
  /\ queue' = [queue EXCEPT ![current] = Append(@, lines'["audit"])]
  /\ UNCHANGED <<beside, logDisk, handle, rotated, batch, current, stored, torn>>

TakeBatch(w) ==
  /\ batch[w] = <<>> /\ queue[w] # <<>>
  /\ LET n == IF Len(queue[w]) < BatchSize THEN Len(queue[w]) ELSE BatchSize
     IN /\ batch' = [batch EXCEPT ![w] = SubSeq(queue[w], 1, n)]
        /\ queue' = [queue EXCEPT ![w] = SubSeq(queue[w], n + 1, Len(queue[w]))]
  /\ UNCHANGED <<beside, logDisk, handle, rotated, current, lines, stored, torn>>

RecordAudit(w) ==
  /\ batch[w] # <<>>
  /\ batch' = [batch EXCEPT ![w] = Tail(@)]
  /\ \/ Store(w, Head(batch[w]))
     \/ UNCHANGED <<logDisk, handle, rotated, stored, torn>>
  /\ UNCHANGED <<beside, queue, current, lines>>

(* A reload builds a new middleware with its own writer; the old writer    *)
(* ends, closing its file, once its channel is empty.                      *)
NewMiddleware ==
  /\ current = "old"
  /\ current' = "new"
  /\ UNCHANGED <<beside, logDisk, handle, rotated, queue, batch, lines, stored, torn>>

WriterEnds ==
  /\ current = "new" /\ queue["old"] = <<>> /\ batch["old"] = <<>> /\ handle["old"] # Closed
  /\ handle' = [handle EXCEPT !["old"] = Closed]
  /\ UNCHANGED <<beside, logDisk, rotated, queue, batch, current, lines, stored, torn>>

(* The program is killed, perhaps after the copy of a rotation and before  *)
(* the file is opened anew, and started again.                             *)
Restart(l) ==
  /\ current = "old"
  /\ \/ /\ MainFile(l) \in DOMAIN logDisk /\ Len(logDisk[MainFile(l)]) >= FileSize
        /\ logDisk' = BackupFiles(l) /\ rotated' = rotated + 1
        /\ torn' = torn \cup {l}
     \/ UNCHANGED <<logDisk, rotated, torn>>
  /\ handle' = [w \in Writers |-> Closed]
  /\ queue' = [w \in {"old", "new"} |-> <<>>]
  /\ batch' = queue'
  /\ current' = "new"
  /\ UNCHANGED <<beside, lines, stored>>

LogsQuiet ==
  /\ \A l \in {"log", "audit"} : lines[l] = MaxLines[l]
  /\ UNCHANGED logVars

LogsNext ==
  \/ LogLine \/ SendAudit \/ NewMiddleware \/ WriterEnds \/ LogsQuiet
  \/ \E w \in {"old", "new"} : TakeBatch(w) \/ RecordAudit(w)
  \/ \E l \in {"log", "audit"} : Restart(l)

LogsSpec == LogInit /\ [][LogsNext]_logVars

------------------------------------------------------------------------------
(* What a disk has of a log that records were written to: the end of them  *)
(* in the file being written, and before those FileSize records in each    *)
(* backup, from the newest to the oldest.                                  *)
BackupsOf(d, l) == {p \in DOMAIN d : p.log = l /\ p.at > 0}
Newer(d, p) == {f \in BackupsOf(d, p.log) : f.at > p.at}
ActiveLen(d, l) == IF MainFile(l) \in DOMAIN d THEN Len(d[MainFile(l)]) ELSE 0

\* The n records that m others follow.
Piece(records, n, m) == SubSeq(records, Len(records) - m - n + 1, Len(records) - m)

HasTheEnd(d, l, records) ==
  /\ ActiveLen(d, l) > 0 => d[MainFile(l)] = Piece(records, ActiveLen(d, l), 0)
  /\ \A p \in BackupsOf(d, l) :
       LET later == ActiveLen(d, l) + FileSize * Cardinality(Newer(d, p))
       IN Len(records) >= later + FileSize /\ d[p] = Piece(records, FileSize, later)
HasEnough(d, l, records) ==
  \/ Len(records) = ActiveLen(d, l) + FileSize * Cardinality(BackupsOf(d, l))
  \/ Cardinality(BackupsOf(d, l)) >= FileNum - 1

(* Rotation loses only the oldest records: a log on disk is the end of     *)
(* what was written to it, in order, and at least FileNum - 1 full files   *)
(* of it (log-num, audit-num), across rotations, write errors, restarts    *)
(* and reloads that did not interrupt a rotation or overlap two writers.   *)
(* The number of files is kept only in directories of their own: beside    *)
(* each other, the audit log's files count as backups of the log, and with *)
(* log-num 1 a rotation of the log removes the audit log.                  *)
NewestKept ==
  (beside => FileNum > 1) =>
    \A l \in {"log", "audit"} \ torn :
      /\ HasTheEnd(logDisk, l, stored[l])
      /\ ~beside => HasEnough(logDisk, l, stored[l])
=============================================================================
