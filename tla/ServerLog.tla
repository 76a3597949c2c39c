------------------------------ MODULE ServerLog ------------------------------
(***************************************************************************)
(* The request log of the web server, log.c: a growing byte buffer behind  *)
(* a reader-writer lock with writer priority that is built from one mutex  *)
(* (log->lock) and two condition variables (readers_allowed and            *)
(* writers_allowed).                                                       *)
(*                                                                         *)
(* The lock's counters are only touched while log->lock is held, so every  *)
(* stretch of code from pthread_mutex_lock to pthread_mutex_unlock or      *)
(* pthread_cond_wait is one step.  The buffer is accessed with log->lock   *)
(* released: those accesses are separate steps, one per read or write of   *)
(* a shared field, and only the reader-writer lock keeps them apart.       *)
(***************************************************************************)
EXTENDS Naturals, Sequences, FiniteSets

CONSTANTS
    Threads,          \* the worker threads that call get_log and add_to_log
    EntryLens,        \* the lengths an entry's text may have
    InitialCapacity,  \* INITIAL_CAPACITY
    MaxEntries        \* bound: how many entries are ever appended

ASSUME LogConstants ==
    /\ IsFiniteSet(Threads)
    /\ EntryLens \subseteq Nat \ {0}
    /\ InitialCapacity \in Nat /\ InitialCapacity > 1
    /\ MaxEntries \in Nat

VARIABLES
    pc,               \* where each thread stands
    readers,          \* log->readers
    waiting_writers,  \* log->waiting_writers
    writers,          \* log->writers
    buffer,           \* log->buffer: the entries copied into it, in order
    length,           \* log->length
    capacity,         \* log->capacity
    allocated,        \* the size of the block log->buffer points to
    len,              \* add_to_log's local len, per thread
    dst,              \* get_log's local copy, per thread
    ahead             \* history: the writers that a call of get_log found
                      \* waiting or writing, and that are not done yet

lockVars == <<readers, waiting_writers, writers>>
bufVars  == <<buffer, length, capacity, allocated>>
logVars  == <<pc, lockVars, bufVars, len, dst, ahead>>

\* An entry carries its thread and the bytes of the buffer it occupies.
Entry == [by : Threads, at : Nat, len : Nat]

\* What get_log builds: the malloc'ed size, the bytes memcpy moved, the entries
\* in them, and the length it returns.
Copy == [size : Nat, moved : Nat, data : Seq(Entry), len : Nat]
NoCopy == [size |-> 0, moved |-> 0, data |-> <<>>, len |-> 0]

ReadPcs  == {"rd_alloc", "rd_copy", "rd_len", "rd_unlock"}
WritePcs == {"wr_grow", "wr_copy", "wr_len", "wr_unlock"}
WaitPcs  == {"wr_wait", "wr_woken"}
Pcs      == {"idle", "rd_lock", "rd_wait", "wr_lock"} \cup ReadPcs \cup WritePcs \cup WaitPcs

Reading == {t \in Threads : pc[t] \in ReadPcs}   \* hold the lock for reading
Writing == {t \in Threads : pc[t] \in WritePcs}  \* hold it for writing
Waiting == {t \in Threads : pc[t] \in WaitPcs}   \* inside writer_lock's loop

-----------------------------------------------------------------------------
LogInit ==
    /\ pc = [t \in Threads |-> "idle"]
    /\ readers = 0 /\ waiting_writers = 0 /\ writers = 0
    /\ buffer = <<>> /\ length = 0
    /\ capacity = InitialCapacity /\ allocated = InitialCapacity
    /\ len = [t \in Threads |-> 0]
    /\ dst = [t \in Threads |-> NoCopy]
    /\ ahead = [t \in Threads |-> {}]

(***************************************************************************)
(* Condition variables.  p is pc after the caller's own move.  A signal    *)
(* wakes one waiter of its condition if there is one; a broadcast wakes    *)
(* all of them.  A woken reader re-runs the test of reader_lock, which is  *)
(* also what a newly arrived one does.                                     *)
(***************************************************************************)
SignalWriter(p) ==
    \/ \E w \in Threads : p[w] = "wr_wait" /\ pc' = [p EXCEPT ![w] = "wr_woken"]
    \/ (\A w \in Threads : p[w] # "wr_wait") /\ pc' = p

BroadcastReaders(p) ==
    pc' = [t \in Threads |-> IF p[t] = "rd_wait" THEN "rd_lock" ELSE p[t]]

\* pthread_cond_wait may return although nobody signalled.
SpuriousLogWakeup(t) ==
    /\ \/ pc[t] = "rd_wait" /\ pc' = [pc EXCEPT ![t] = "rd_lock"]
       \/ pc[t] = "wr_wait" /\ pc' = [pc EXCEPT ![t] = "wr_woken"]
    /\ UNCHANGED <<lockVars, bufVars, len, dst, ahead>>

-----------------------------------------------------------------------------
(* get_log *)

\* A thread serving a POST calls get_log.
get_log(t) ==
    /\ pc[t] = "idle"
    /\ pc' = [pc EXCEPT ![t] = "rd_lock"]
    /\ ahead' = [ahead EXCEPT ![t] = Waiting \cup Writing]
    /\ UNCHANGED <<lockVars, bufVars, len, dst>>

\* Mutated form: waiting writers do not hold readers back.
ReadersMustWaitForWriterOnly == writers > 0

ReadersMustWait == writers > 0 \/ waiting_writers > 0

reader_lock(t) ==
    /\ pc[t] = "rd_lock"
    /\ \/ /\ ReadersMustWait
          /\ pc' = [pc EXCEPT ![t] = "rd_wait"]
          /\ UNCHANGED readers
       \/ /\ ~ReadersMustWait
          /\ pc' = [pc EXCEPT ![t] = "rd_alloc"]
          /\ readers' = readers + 1
    /\ UNCHANGED <<waiting_writers, writers, bufVars, len, dst, ahead>>

\* *dst = malloc(log->length + 1)
AllocCopy(t) ==
    /\ pc[t] = "rd_alloc"
    /\ pc' = [pc EXCEPT ![t] = "rd_copy"]
    /\ dst' = [dst EXCEPT ![t] = [size |-> length + 1, moved |-> 0, data |-> <<>>, len |-> 0]]
    /\ UNCHANGED <<lockVars, bufVars, len, ahead>>

\* memcpy(*dst, log->buffer, log->length + 1)
CopyBuffer(t) ==
    /\ pc[t] = "rd_copy"
    /\ pc' = [pc EXCEPT ![t] = "rd_len"]
    /\ dst' = [dst EXCEPT ![t] = [size |-> @.size, moved |-> length + 1, data |-> buffer, len |-> 0]]
    /\ UNCHANGED <<lockVars, bufVars, len, ahead>>

\* len = log->length
CopyLength(t) ==
    /\ pc[t] = "rd_len"
    /\ pc' = [pc EXCEPT ![t] = "rd_unlock"]
    /\ dst' = [dst EXCEPT ![t] = [size |-> @.size, moved |-> @.moved, data |-> @.data, len |-> length]]
    /\ UNCHANGED <<lockVars, bufVars, len, ahead>>

\* get_log returns: the copy and its length are the caller's from here on.
reader_unlock(t) ==
    /\ pc[t] = "rd_unlock"
    /\ readers' = readers - 1
    /\ LET p == [pc EXCEPT ![t] = "idle"]
       IN  IF readers' = 0 THEN SignalWriter(p) ELSE pc' = p
    /\ dst' = [dst EXCEPT ![t] = NoCopy]
    /\ UNCHANGED <<waiting_writers, writers, bufVars, len, ahead>>

-----------------------------------------------------------------------------
(* add_to_log *)

\* A thread serving a successful GET calls add_to_log.
add_to_log(t) ==
    /\ pc[t] = "idle"
    /\ Len(buffer) + Cardinality({u \in Threads : pc[u] \in {"wr_lock", "wr_grow", "wr_copy"} \cup WaitPcs}) < MaxEntries
    /\ pc' = [pc EXCEPT ![t] = "wr_lock"]
    /\ \E l \in EntryLens : len' = [len EXCEPT ![t] = l]
    /\ UNCHANGED <<lockVars, bufVars, dst, ahead>>

\* Mutated form: readers do not hold writers back.
WritersIgnoreReaders == writers > 0

WritersMustWait == readers > 0 \/ writers > 0

writer_lock(t) ==
    /\ pc[t] = "wr_lock"
    /\ \/ /\ WritersMustWait
          /\ pc' = [pc EXCEPT ![t] = "wr_wait"]
          /\ waiting_writers' = waiting_writers + 1
          /\ UNCHANGED writers
       \/ /\ ~WritersMustWait
          /\ pc' = [pc EXCEPT ![t] = "wr_grow"]
          /\ writers' = 1
          /\ UNCHANGED waiting_writers
    /\ UNCHANGED <<readers, bufVars, len, dst, ahead>>

\* pthread_cond_wait(&log->writers_allowed) has returned to writer_lock's loop.
writer_lock_woken(t) ==
    /\ pc[t] = "wr_woken"
    /\ \/ /\ WritersMustWait
          /\ pc' = [pc EXCEPT ![t] = "wr_wait"]
          /\ UNCHANGED <<waiting_writers, writers>>
       \/ /\ ~WritersMustWait
          /\ pc' = [pc EXCEPT ![t] = "wr_grow"]
          /\ waiting_writers' = waiting_writers - 1
          /\ writers' = 1
    /\ UNCHANGED <<readers, bufVars, len, dst, ahead>>

\* Mutated form: no room is kept for the terminating zero.
TooSmallWithoutZero(t) == length + len[t] > capacity

TooSmall(t) == length + len[t] + 1 >= capacity

\* One turn of the loop that doubles the capacity, or its exit and the realloc.
GrowBuffer(t) ==
    /\ pc[t] = "wr_grow"
    /\ \/ /\ TooSmall(t)
          /\ capacity' = capacity * 2
          /\ UNCHANGED <<pc, allocated>>
       \/ /\ ~TooSmall(t)
          /\ allocated' = capacity
          /\ pc' = [pc EXCEPT ![t] = "wr_copy"]
          /\ UNCHANGED capacity
    /\ UNCHANGED <<lockVars, buffer, length, len, dst, ahead>>

\* memcpy(log->buffer + log->length, log_buf, len)
AppendEntry(t) ==
    /\ pc[t] = "wr_copy"
    /\ pc' = [pc EXCEPT ![t] = "wr_len"]
    /\ buffer' = Append(buffer, [by |-> t, at |-> length, len |-> len[t]])
    /\ UNCHANGED <<lockVars, length, capacity, allocated, len, dst, ahead>>

\* log->length += len; log->buffer[log->length] = '\0'
AppendLength(t) ==
    /\ pc[t] = "wr_len"
    /\ pc' = [pc EXCEPT ![t] = "wr_unlock"]
    /\ length' = length + len[t]
    /\ UNCHANGED <<lockVars, buffer, capacity, allocated, len, dst, ahead>>

\* Mutated form: no broadcast lets the readers in again.
WriterUnlockNoBroadcast(t) ==
    /\ pc[t] = "wr_unlock"
    /\ writers' = 0
    /\ LET p == [pc EXCEPT ![t] = "idle"]
       IN  IF waiting_writers > 0 THEN SignalWriter(p) ELSE pc' = p
    /\ ahead' = [u \in Threads |-> ahead[u] \ {t}]
    /\ len' = [len EXCEPT ![t] = 0]
    /\ UNCHANGED <<readers, waiting_writers, bufVars, dst>>

\* add_to_log returns.
writer_unlock(t) ==
    /\ pc[t] = "wr_unlock"
    /\ writers' = 0
    /\ LET p == [pc EXCEPT ![t] = "idle"]
       IN  IF waiting_writers > 0 THEN SignalWriter(p) ELSE BroadcastReaders(p)
    /\ ahead' = [u \in Threads |-> ahead[u] \ {t}]
    /\ len' = [len EXCEPT ![t] = 0]
    /\ UNCHANGED <<readers, waiting_writers, bufVars, dst>>

-----------------------------------------------------------------------------
\* What a thread inside a call does when it is scheduled.
Step(t) ==
    \/ reader_lock(t) \/ AllocCopy(t) \/ CopyBuffer(t) \/ CopyLength(t) \/ reader_unlock(t)
    \/ writer_lock(t) \/ writer_lock_woken(t) \/ GrowBuffer(t)
    \/ AppendEntry(t) \/ AppendLength(t) \/ writer_unlock(t)

LogNext == \E t \in Threads : get_log(t) \/ add_to_log(t) \/ SpuriousLogWakeup(t) \/ Step(t)

LogSpec == LogInit /\ [][LogNext]_logVars

\* A thread that can run does run.  Nothing obliges one to call get_log or
\* add_to_log, nor a wait to end unsignalled.
LogFairSpec == LogSpec /\ \A t \in Threads : WF_logVars(Step(t))

-----------------------------------------------------------------------------
(* Properties *)

\* The type of every variable; in particular the counter of readers, which
\* reader_unlock decrements, never falls below zero.
LogTypeOK ==
    /\ pc \in [Threads -> Pcs]
    /\ readers \in Nat /\ waiting_writers \in Nat /\ writers \in {0, 1}
    /\ buffer \in Seq(Entry)
    /\ length \in Nat /\ capacity \in Nat /\ allocated \in Nat
    /\ len \in [Threads -> Nat]
    /\ dst \in [Threads -> Copy]
    /\ ahead \in [Threads -> SUBSET Threads]

\* The counters of the lock are the numbers of threads between a lock and its
\* unlock, whatever order reader_lock, writer_lock and their unlocks run in:
\* no wake-up is counted twice and none is forgotten.
LockCounts ==
    /\ readers = Cardinality(Reading)
    /\ waiting_writers = Cardinality(Waiting)
    /\ writers = Cardinality(Writing)

\* While add_to_log changes the buffer no other thread is in it: neither a
\* second add_to_log nor the malloc and memcpy of a get_log.
MutualExclusion ==
    \A w \in Writing : Writing = {w} /\ Reading = {}

\* "If a writer is waiting, new readers should be blocked until the writer is
\* done" (log.h): a get_log holds the lock only after every writer it found
\* waiting or writing when it was called has left writer_unlock.
WriterPriority ==
    \A t \in Reading : ahead[t] = {}

\* A thread asleep in pthread_cond_wait is never forgotten: a sleeping writer
\* has a holder of the lock, or a writer already woken, that will pass the
\* lock on; a sleeping reader has a writer before it whose writer_unlock
\* will broadcast.
NoLostLogWakeup ==
    /\ (\E t \in Threads : pc[t] = "wr_wait")
          => Reading \cup Writing \cup {u \in Threads : pc[u] = "wr_woken"} # {}
    /\ (\E t \in Threads : pc[t] = "rd_wait") => Writing \cup Waiting # {}

\* No memcpy leaves its block, and the terminating zero fits: the text of the
\* log with its zero lies inside log->buffer, also with the entry add_to_log
\* is about to copy, and get_log's memcpy fits both of its blocks.
BufferFits ==
    /\ length + 1 <= allocated
    /\ \A t \in Threads :
         /\ pc[t] \in {"wr_copy", "wr_len"} => length + len[t] + 1 <= allocated
         /\ pc[t] \in {"rd_copy", "rd_len", "rd_unlock"} =>
              /\ dst[t].size = length + 1
              /\ dst[t].moved <= dst[t].size

\* The log and the calls under way, as the abstract log sees them: an entry is
\* in the log once log->length covers it.
Committed ==
    IF \E t \in Threads : pc[t] = "wr_len"
      THEN SubSeq(buffer, 1, Len(buffer) - 1)
      ELSE buffer

PhaseOf(p) ==
    CASE p = "idle" -> "out"
      [] p \in {"rd_unlock", "wr_unlock"} -> "done"
      [] p \in {"rd_lock", "rd_wait"} \cup (ReadPcs \ {"rd_unlock"}) -> "get"
      [] OTHER -> "add"

ReplyOf(t) ==
    IF pc[t] = "rd_unlock"
      THEN [text |-> dst[t].data, len |-> dst[t].len]
      ELSE [text |-> <<>>, len |-> 0]

Phases  == [t \in Threads |-> PhaseOf(pc[t])]
Replies == [t \in Threads |-> ReplyOf(t)]

Atomic == INSTANCE AtomicLog WITH
    log   <- Committed,
    size  <- length,
    phase <- Phases,
    want  <- len,
    reply <- Replies

\* The log is linearizable: every get_log returns the whole text of exactly
\* the entries added before one instant of its call, with the right length,
\* and every add_to_log adds its entry once, right after the previous one.
ImplementsAtomicLog == Atomic!Spec

\* Every call returns.  A writer is not starved by readers, which may call
\* get_log for ever; that no call is starved by writers rests on the bound on
\* the number of entries, as writers do overtake one another and the readers.
CallsReturn ==
    \A t \in Threads : pc[t] # "idle" ~> pc[t] = "idle"
=============================================================================
