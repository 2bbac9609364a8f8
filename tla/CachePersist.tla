---------------------------- MODULE CachePersist ----------------------------
(***************************************************************************)
(* The saved copy of the answer cache (the persist task of                 *)
(* DnsCacheMiddleware::new, DnsCache::flush and PersistCache in            *)
(* dns_mw_cache.rs; App::flush_cache and App::reload in app.rs).           *)
(*                                                                         *)
(* Each handler that the process builds, at the start and at every reload, *)
(* has a cache of its own and a persist task, which loads the file, then   *)
(* saves to it now and then, and once more on termination.  Nothing stops  *)
(* the task of an older handler.  A checkpoint takes a snapshot under the  *)
(* cache's mutex and writes it from another thread without the mutex; the  *)
(* flush and the last save hold the mutex while they write.  All of them   *)
(* open the same path, truncate it, and write at an offset of their own.   *)
(*                                                                         *)
(* An entry is its query and the number of the insert that made it; every  *)
(* entry takes one unit of memory and one block of the file.  A file that  *)
(* is missing is modelled as an empty one: loading either changes nothing. *)
(* The writers ignore every error, so an entry may be missing from the     *)
(* file or cut short in it although its writer went on.                    *)
(***************************************************************************)
EXTENDS Integers, Sequences, Functions, Absent

CONSTANTS
    Query,          \* the questions that may be asked
    Capacity,       \* cache-size
    MemoryLimit,    \* cache-mem-size, in entries; 0 when unlimited
    Job,            \* threads that write checkpoints
    MaxHandlers,    \* bound on the handlers a process builds
    MaxInserts,     \* bound on the answers learnt
    MaxStarts,      \* bound on the starts of the process
    Bad             \* a block of the file that holds no whole entry

VARIABLES
    handlers,       \* how many handlers this process has built; 0: not running
    caches,         \* the cache of each handler, most recently used entry first
    task,           \* where the persist task of each handler is
    writer,         \* the writes in progress: one per job, one per mutex
    file,           \* the blocks of cache_file
    terminating,    \* a termination signal was seen
    flushing,       \* the handler whose cache flush_cache is about to flush, or 0
    inserts, starts,
    ghost           \* what the properties remember (the code has none of it)

vars == <<handlers, caches, task, writer, file, terminating, flushing,
          inserts, starts, ghost>>

Handler == 1..MaxHandlers
Entry == [query : Query, insert : 1..MaxInserts]
ASSUME SizeAssumption ==
    /\ Capacity \in Nat \ {0} /\ MemoryLimit \in Nat
    /\ MaxHandlers \in Nat \ {0} /\ MaxInserts \in Nat /\ MaxStarts \in Nat \ {0}
    /\ Job \cap Handler = {}
    /\ Bad \notin Entry

-----------------------------------------------------------------------------
(* The cache as a list.                                                    *)

First(s, n) == SubSeq(s, 1, IF n < Len(s) THEN n ELSE Len(s))

\* A list without its i-th entry.
Without(list, i) == SubSeq(list, 1, i - 1) \o SubSeq(list, i + 1, Len(list))

\* The entry of e's query, if there is one, makes room for e.
Put(list, e) ==
    LET old == {i \in 1..Len(list) : list[i].query = e.query}
    IN  First(<<e>> \o (IF old = {} THEN list ELSE Without(list, CHOOSE i \in old : TRUE)),
              Capacity)

\* The loop that pops entries over the memory limit.
Trim(list) == IF MemoryLimit = 0 THEN list ELSE First(list, MemoryLimit)

LoadFileShort(list, blocks) ==
    LET loaded[n \in 0..Len(blocks)] == IF n = 0 THEN list ELSE Put(loaded[n - 1], blocks[n])
    IN  Trim(IF Bad \in Range(blocks) \/ blocks = <<>> THEN list ELSE loaded[Len(blocks) - 1])
LoadFile(list, blocks) ==
    LET loaded[n \in 0..Len(blocks)] == IF n = 0 THEN list ELSE Put(loaded[n - 1], blocks[n])
    IN  Trim(IF Bad \in Range(blocks) THEN list ELSE loaded[Len(blocks)])

-----------------------------------------------------------------------------
(* Writes to the file.                                                     *)

Overlay(blocks, i, b) ==
    [k \in 1..(IF i > Len(blocks) THEN i ELSE Len(blocks)) |->
        CASE k = i -> b
          [] k # i /\ k <= Len(blocks) -> blocks[k]
          [] OTHER -> Bad]

Write(why, list) ==
    [why |-> why, open |-> FALSE, all |-> list, left |-> list, at |-> 1,
     upTo |-> inserts, alone |-> \A j \in Job : writer[j] = Null, intact |-> TRUE]

Writing == {w \in Job \cup Handler : writer[w] # Null}
Open == {w \in Writing : writer[w].open}

\* A flush or a last save holds the mutex of handler h's cache.
Locked(h) == writer[h] # Null

-----------------------------------------------------------------------------
Init ==
    /\ handlers = 1
    /\ caches = [h \in Handler |-> <<>>]
    /\ task = [h \in Handler |-> IF h = 1 THEN "loading" ELSE "none"]
    /\ writer = [w \in Job \cup Handler |-> Null]
    /\ file = <<>>
    /\ terminating = FALSE
    /\ flushing = 0
    /\ inserts = 0
    /\ starts = 1
    /\ ghost = [flushed |-> 0, quiet |-> 0, saved |-> Null,
                image |-> <<>>, solo |-> TRUE]

Running == 1..handlers

\* A query that handler h is processing stores its answer.
Insert(h, q) ==
    /\ inserts < MaxInserts
    /\ ~Locked(h)
    /\ inserts' = inserts + 1
    /\ caches' = [caches EXCEPT ![h] =
                    Trim(Put(@, [query |-> q, insert |-> inserts + 1]))]
    /\ UNCHANGED <<handlers, task, writer, file, terminating, flushing, starts, ghost>>

\* The persist task starts: it loads the file into a cache that may already
\* have answers.
Load(h) ==
    /\ task[h] = "loading"
    /\ ~Locked(h)
    /\ caches' = [caches EXCEPT ![h] = LoadFile(@, file)]
    /\ task' = [task EXCEPT ![h] = "waiting"]
    /\ UNCHANGED <<handlers, writer, file, terminating, flushing, inserts, starts, ghost>>

\* The checkpoint interval is over: snapshot the cache, hand it to a thread.
Checkpoint(h, j) ==
    /\ task[h] = "waiting"
    /\ ~Locked(h)
    /\ writer[j] = Null
    /\ writer' = [writer EXCEPT ![j] = Write("checkpoint", caches[h])]
    /\ UNCHANGED <<handlers, caches, task, file, terminating, flushing, inserts, starts, ghost>>

\* The task sees the termination signal: the last save, under the mutex.
LastSave(h) ==
    /\ terminating
    /\ task[h] = "waiting"
    /\ ~Locked(h)
    /\ task' = [task EXCEPT ![h] = "saving"]
    /\ writer' = [writer EXCEPT ![h] = Write("last", caches[h])]
    /\ UNCHANGED <<handlers, caches, file, terminating, flushing, inserts, starts, ghost>>

\* flush_cache finds the cache of the current handler ...
BeginFlush ==
    /\ handlers > 0
    /\ flushing = 0
    /\ flushing' = handlers
    /\ UNCHANGED <<handlers, caches, task, writer, file, terminating, inserts, starts, ghost>>

\* ... and flushes it: no entry is left to write.
FlushSavedFirst ==
    /\ flushing > 0
    /\ ~Locked(flushing)
    /\ writer' = [writer EXCEPT ![flushing] = Write("flush", caches[flushing])]
    /\ caches' = [caches EXCEPT ![flushing] = <<>>]
    /\ flushing' = 0
    /\ UNCHANGED <<handlers, task, file, terminating, inserts, starts, ghost>>
Flush ==
    /\ flushing > 0
    /\ ~Locked(flushing)
    /\ caches' = [caches EXCEPT ![flushing] = <<>>]
    /\ writer' = [writer EXCEPT ![flushing] = Write("flush", <<>>)]
    /\ flushing' = 0
    /\ UNCHANGED <<handlers, task, file, terminating, inserts, starts, ghost>>

\* From here on the file is to hold what w saves.  A flush after the last save
\* leaves nothing to bring back.
Opened(w) ==
    [ghost EXCEPT !.image = writer[w].all, !.solo = (Open = {}),
                  !.saved = IF @ # Null /\ writer[w].why = "flush" THEN <<>> ELSE Null]

\* File::options().create(true).truncate(true).write(true).open(..)
OpenInPlace(w) ==
    /\ writer[w] # Null
    /\ ~writer[w].open
    /\ writer' = [writer EXCEPT ![w].open = TRUE]
    /\ ghost' = Opened(w)
    /\ UNCHANGED <<handlers, caches, task, file, terminating, flushing, inserts, starts>>
OpenFile(w) ==
    /\ writer[w] # Null
    /\ ~writer[w].open
    /\ writer' = [writer EXCEPT ![w].open = TRUE]
    /\ file' = <<>>
    /\ ghost' = Opened(w)
    /\ UNCHANGED <<handlers, caches, task, terminating, flushing, inserts, starts>>

\* serialize_many writes one entry.
WriteEntry(w) ==
    /\ w \in Open
    /\ writer[w].left # <<>>
    /\ file' = Overlay(file, writer[w].at, Head(writer[w].left))
    /\ writer' = [writer EXCEPT ![w].left = Tail(@), ![w].at = @ + 1]
    /\ UNCHANGED <<handlers, caches, task, terminating, flushing, inserts, starts, ghost>>

\* It goes on when an entry cannot be encoded, or when the write of one fails,
\* before its first byte or after it.
SkipEntry(w) ==
    /\ w \in Open
    /\ writer[w].left # <<>>
    /\ \/ file' = file /\ writer' = [writer EXCEPT ![w].left = Tail(@), ![w].intact = FALSE]
       \/ /\ file' = Overlay(file, writer[w].at, Bad)
          /\ writer' = [writer EXCEPT ![w].left = Tail(@), ![w].at = @ + 1, ![w].intact = FALSE]
    /\ UNCHANGED <<handlers, caches, task, terminating, flushing, inserts, starts, ghost>>

\* The write is done; the mutex, if it was held, is released.
FinishWrite(w) ==
    /\ w \in Open
    /\ writer[w].left = <<>>
    /\ writer' = [writer EXCEPT ![w] = Null]
    /\ task' = IF writer[w].why = "last" THEN [task EXCEPT ![w] = "ended"] ELSE task
    /\ ghost' = CASE writer[w].why = "checkpoint" -> ghost
                 [] writer[w].why = "flush" ->
                      [ghost EXCEPT
                        !.flushed = writer[w].upTo,
                        !.quiet = IF writer[w].alone /\ w = handlers THEN writer[w].upTo ELSE @]
                 [] writer[w].why = "last" ->
                      [ghost EXCEPT
                        !.saved = IF writer[w].alone /\ writer[w].intact /\ handlers = 1
                                  THEN writer[w].all ELSE Null]
    /\ UNCHANGED <<handlers, caches, file, terminating, flushing, inserts, starts>>

\* A reload builds a new handler with an empty cache.  The old handler's
\* persist task goes on.
Reload ==
    /\ handlers \in 1..(MaxHandlers - 1)
    /\ handlers' = handlers + 1
    /\ task' = [task EXCEPT ![handlers + 1] = "loading"]
    /\ UNCHANGED <<caches, writer, file, terminating, flushing, inserts, starts, ghost>>

Terminate ==
    /\ handlers > 0
    /\ ~terminating
    /\ terminating' = TRUE
    /\ UNCHANGED <<handlers, caches, task, writer, file, flushing, inserts, starts, ghost>>

\* The process is gone, and with it the memory and the threads.
Gone ==
    /\ handlers' = 0
    /\ caches' = [h \in Handler |-> <<>>]
    /\ task' = [h \in Handler |-> "none"]
    /\ writer' = [w \in Job \cup Handler |-> Null]
    /\ terminating' = FALSE
    /\ flushing' = 0
    /\ UNCHANGED <<inserts, starts>>

\* It has saved its cache and exits.
Exit ==
    /\ handlers > 0
    /\ \A h \in Running : task[h] = "ended"
    /\ Writing = {}
    /\ Gone
    /\ UNCHANGED <<file, ghost>>

\* It is killed, or exits before the saves are done (shutdown_timeout): a
\* write may be cut short within an entry.
Crash ==
    /\ handlers > 0
    /\ Gone
    /\ \/ file' = file
       \/ \E w \in Open : writer[w].left # <<>> /\ file' = Overlay(file, writer[w].at, Bad)
    /\ ghost' = ghost

Start ==
    /\ handlers = 0
    /\ starts < MaxStarts
    /\ starts' = starts + 1
    /\ handlers' = 1
    /\ task' = [task EXCEPT ![1] = "loading"]
    /\ UNCHANGED <<caches, writer, file, terminating, flushing, inserts, ghost>>

Next ==
    \/ \E h \in Running :
         \/ \E q \in Query : Insert(h, q)
         \/ Load(h)
         \/ \E j \in Job : Checkpoint(h, j)
         \/ LastSave(h)
    \/ BeginFlush
    \/ Flush
    \/ \E w \in Job \cup Handler : OpenFile(w) \/ WriteEntry(w) \/ SkipEntry(w) \/ FinishWrite(w)
    \/ Reload
    \/ Terminate
    \/ Exit
    \/ Crash
    \/ Start

Spec == Init /\ [][Next]_vars

-----------------------------------------------------------------------------
(* Properties.                                                             *)

\* Whatever write fails and whenever the process dies, a file that one writer
\* wrote undisturbed has entries of the one cache it saved, each at most once and
\* in the order of that cache, besides blocks cut short, which make the load
\* discard the file.  A restart brings back part of one saved cache or nothing,
\* never entries of two saves.
SoloFileLoads ==
    ghost.solo =>
        \A i \in 1..Len(file) :
            file[i] # Bad =>
                \E n \in i..Len(ghost.image) :
                    /\ file[i] = ghost.image[n]
                    /\ \A k \in 1..(i - 1) :
                         file[k] # Bad => \E m \in 1..(n - 1) : file[k] = ghost.image[m]

\* When the last save of the only handler found no checkpoint on its way to the
\* file, and none of its writes failed, the next process that loads the file
\* into an empty cache gets every entry of that save, and nothing else.  A
\* checkpoint that is on its way may be written after the last save and undo it.
CleanRestart ==
    [][ \A h \in Handler :
          task[h] = "loading" /\ task'[h] = "waiting" /\ caches[h] = <<>> /\ ghost.saved # Null
          => Range(caches'[h]) = Range(ghost.saved) ]_vars

\* A flush of the current handler's cache that found no checkpoint being
\* written has emptied the saved copy for good: no answer from before it is
\* in the cache again, not even after a restart.
QuietFlushSticks ==
    handlers > 0 =>
        \A i \in 1..Len(caches[handlers]) : caches[handlers][i].insert > ghost.quiet

\* The same of every completed flush, as the comments of DnsCache::flush and
\* App::flush_cache have it.
FlushSticks ==
    handlers > 0 =>
        \A i \in 1..Len(caches[handlers]) : caches[handlers][i].insert > ghost.flushed
=============================================================================
