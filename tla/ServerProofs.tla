---------------------------- MODULE ServerProofs ----------------------------
(***************************************************************************)
(* The web server's log and its thread pool.                               *)
(*                                                                         *)
(* The reader-writer lock of log.c, for any number of threads and any      *)
(* buffer: the counters of the lock are the numbers of threads in it;      *)
(* mutual exclusion, writer priority and the absence of lost wake-ups      *)
(* follow, and that the log is linearizable.                               *)
(*                                                                         *)
(* The thread pool of server.c, for any number of workers, any queue_size  *)
(* and any connections: the bound on the load, the list, the owners of     *)
(* jobs and descriptors, the two condition variables, and the refinement   *)
(* of the bounded first-come first-served service.                         *)
(***************************************************************************)
EXTENDS ServerLog, ThreadPool, FiniteSetTheorems, SequenceTheorems, TLAPS

-----------------------------------------------------------------------------
(* The log *)

\* The lock admits one writer or any number of readers.
LockInv ==
    /\ LockCounts
    /\ writers = 1 => readers = 0

\* A get_log that does not hold the lock yet still has every writer that it
\* found in front of it, in writer_lock or past it.
PriorityInv ==
    /\ \A t \in Threads : pc[t] \in {"rd_lock", "rd_wait"} => ahead[t] \subseteq Waiting \cup Writing
    /\ WriterPriority

-----------------------------------------------------------------------------
(* Threads are finitely many, so sets of them can be counted. *)

\* A set of threads has a number of members, which is 0 only if it is empty and
\* 1 only if it is a singleton, and which a member more or less changes by one.
LEMMA ThreadSets ==
    ASSUME NEW S \in SUBSET Threads
    PROVE  /\ IsFiniteSet(S) /\ Cardinality(S) \in Nat
           /\ Cardinality(S) = 0 <=> S = {}
           /\ Cardinality(S) = 1 => \A x, y \in S : x = y
           /\ \A x : x \notin S => Cardinality(S \cup {x}) = Cardinality(S) + 1
           /\ \A x \in S : Cardinality(S \ {x}) = Cardinality(S) - 1 /\ Cardinality(S) > 0
<1>1. IsFiniteSet(S)
  BY FS_Subset, LogConstants DEF LogConstants
<1>2. Cardinality(S) \in Nat
  BY <1>1, FS_CardinalityType
<1>3. Cardinality(S) = 0 <=> S = {}
  BY <1>1, FS_EmptySet
<1>4. Cardinality(S) = 1 => \A x, y \in S : x = y
  BY <1>1, FS_Singleton
<1>5. \A x : x \notin S => Cardinality(S \cup {x}) = Cardinality(S) + 1
  BY <1>1, FS_AddElement
<1>6. \A x \in S : Cardinality(S \ {x}) = Cardinality(S) - 1 /\ Cardinality(S) > 0
  <2> TAKE x \in S
  <2>1. Cardinality(S \ {x}) = Cardinality(S) - 1
    BY <1>1, FS_RemoveElement
  <2>2. Cardinality(S) # 0
    BY <1>3
  <2> QED
    BY <1>2, <2>1, <2>2
<1> QED
  BY <1>1, <1>2, <1>3, <1>4, <1>5, <1>6

-----------------------------------------------------------------------------
(* What each step does to the three sets of threads. *)

\* A thread that neither enters nor leaves the lock changes none of the sets.
LEMMA QuietLogSteps ==
    ASSUME LogTypeOK, NEW t \in Threads,
           get_log(t) \/ add_to_log(t) \/ SpuriousLogWakeup(t)
             \/ AllocCopy(t) \/ CopyBuffer(t) \/ CopyLength(t)
             \/ GrowBuffer(t) \/ AppendEntry(t) \/ AppendLength(t)
    PROVE  Reading' = Reading /\ Writing' = Writing /\ Waiting' = Waiting /\ UNCHANGED lockVars
<1> USE DEF LogTypeOK, Reading, Writing, Waiting, ReadPcs, WritePcs, WaitPcs, lockVars
<1>1. CASE get_log(t) BY <1>1 DEF get_log
<1>2. CASE add_to_log(t) BY <1>2 DEF add_to_log
<1>3. CASE SpuriousLogWakeup(t) BY <1>3 DEF SpuriousLogWakeup
<1>4. CASE AllocCopy(t) BY <1>4 DEF AllocCopy
<1>5. CASE CopyBuffer(t) BY <1>5 DEF CopyBuffer
<1>6. CASE CopyLength(t) BY <1>6 DEF CopyLength
<1>7. CASE GrowBuffer(t) BY <1>7 DEF GrowBuffer
<1>8. CASE AppendEntry(t) BY <1>8 DEF AppendEntry
<1>9. CASE AppendLength(t) BY <1>9 DEF AppendLength
<1> QED BY <1>1, <1>2, <1>3, <1>4, <1>5, <1>6, <1>7, <1>8, <1>9

\* A reader enters only when there is no writer and none is waiting.
LEMMA ReaderLockStep ==
    ASSUME LogTypeOK, NEW t \in Threads, reader_lock(t)
    PROVE  /\ Writing' = Writing /\ Waiting' = Waiting
           /\ UNCHANGED <<waiting_writers, writers>>
           /\ \/ Reading' = Reading /\ UNCHANGED readers /\ ReadersMustWait
              \/ /\ t \notin Reading /\ Reading' = Reading \cup {t}
                 /\ readers' = readers + 1 /\ ~ReadersMustWait
  BY DEF LogTypeOK, reader_lock, Reading, Writing, Waiting, ReadPcs, WritePcs, WaitPcs

\* A reader leaves.
LEMMA ReaderUnlockStep ==
    ASSUME LogTypeOK, NEW t \in Threads, reader_unlock(t)
    PROVE  /\ Writing' = Writing /\ Waiting' = Waiting
           /\ UNCHANGED <<waiting_writers, writers>>
           /\ t \in Reading /\ Reading' = Reading \ {t} /\ readers' = readers - 1
  BY DEF LogTypeOK, reader_unlock, SignalWriter, Reading, Writing, Waiting, ReadPcs, WritePcs, WaitPcs

\* A writer enters at once, or joins the waiting ones.
LEMMA WriterLockStep ==
    ASSUME LogTypeOK, NEW t \in Threads, writer_lock(t)
    PROVE  /\ Reading' = Reading /\ UNCHANGED readers
           /\ \/ /\ t \notin Waiting /\ Waiting' = Waiting \cup {t} /\ Writing' = Writing
                 /\ waiting_writers' = waiting_writers + 1 /\ UNCHANGED writers
                 /\ WritersMustWait
              \/ /\ t \notin Writing /\ Writing' = Writing \cup {t} /\ Waiting' = Waiting
                 /\ writers' = 1 /\ UNCHANGED waiting_writers
                 /\ ~WritersMustWait
  BY DEF LogTypeOK, writer_lock, Reading, Writing, Waiting, ReadPcs, WritePcs, WaitPcs

\* A woken writer enters, or waits on.
LEMMA WriterWokenStep ==
    ASSUME LogTypeOK, NEW t \in Threads, writer_lock_woken(t)
    PROVE  /\ Reading' = Reading /\ UNCHANGED readers
           /\ \/ /\ Waiting' = Waiting /\ Writing' = Writing
                 /\ UNCHANGED <<waiting_writers, writers>> /\ WritersMustWait
              \/ /\ t \in Waiting /\ Waiting' = Waiting \ {t}
                 /\ t \notin Writing /\ Writing' = Writing \cup {t}
                 /\ waiting_writers' = waiting_writers - 1 /\ writers' = 1
                 /\ ~WritersMustWait
  BY DEF LogTypeOK, writer_lock_woken, Reading, Writing, Waiting, ReadPcs, WritePcs, WaitPcs

\* The writer leaves.
LEMMA WriterUnlockStep ==
    ASSUME LogTypeOK, NEW t \in Threads, writer_unlock(t)
    PROVE  /\ Reading' = Reading /\ Waiting' = Waiting
           /\ UNCHANGED <<readers, waiting_writers>>
           /\ t \in Writing /\ Writing' = Writing \ {t} /\ writers' = 0
  BY DEF LogTypeOK, writer_unlock, SignalWriter, BroadcastReaders,
         Reading, Writing, Waiting, ReadPcs, WritePcs, WaitPcs

-----------------------------------------------------------------------------
(* Typing and the counters *)

\* Initially every variable has its type and nobody is in the lock.
LEMMA LockInit == LogInit => LogTypeOK /\ LockInv
<1> SUFFICES ASSUME LogInit PROVE LogTypeOK /\ LockInv
  OBVIOUS
<1>1. LogTypeOK
  BY LogConstants DEF LogConstants, LogInit, LogTypeOK, Pcs, NoCopy, Copy
<1>2. Reading = {} /\ Waiting = {} /\ Writing = {}
  BY DEF LogInit, Reading, Waiting, Writing, ReadPcs, WaitPcs, WritePcs
<1>3. LockInv
  BY <1>2, FS_EmptySet DEF LogInit, LockInv, LockCounts
<1> QED
  BY <1>1, <1>3

\* The sets of threads in the lock are sets of threads, now and in the next state.
LEMMA SidesAreThreads ==
    /\ Reading \in SUBSET Threads /\ Writing \in SUBSET Threads /\ Waiting \in SUBSET Threads
    /\ Reading' \in SUBSET Threads /\ Writing' \in SUBSET Threads /\ Waiting' \in SUBSET Threads
  BY DEF Reading, Writing, Waiting

\* Every step keeps the counters equal to the numbers of threads they count.
LEMMA LockNext ==
    ASSUME LogTypeOK, LockInv, [LogNext]_logVars
    PROVE  LockInv'
<1> USE DEF LockInv, LockCounts
<1>1. CASE UNCHANGED logVars
  BY <1>1 DEF logVars, lockVars, Reading, Writing, Waiting
<1>2. CASE LogNext
  <2> PICK t \in Threads : get_log(t) \/ add_to_log(t) \/ SpuriousLogWakeup(t) \/ Step(t)
    BY <1>2 DEF LogNext
  <2>1. CASE reader_lock(t)
    <3>1. CASE UNCHANGED readers /\ Reading' = Reading
      BY <2>1, <3>1, ReaderLockStep
    <3>2. CASE t \notin Reading /\ Reading' = Reading \cup {t} /\ readers' = readers + 1 /\ ~ReadersMustWait
      BY <2>1, <3>2, ReaderLockStep, ThreadSets, SidesAreThreads DEF ReadersMustWait, LogTypeOK
    <3> QED BY <2>1, <3>1, <3>2, ReaderLockStep
  <2>2. CASE reader_unlock(t)
    <3>1. readers' = Cardinality(Reading') /\ readers # 0
      BY <2>2, ReaderUnlockStep, ThreadSets, SidesAreThreads
    <3> QED BY <2>2, <3>1, ReaderUnlockStep DEF LogTypeOK
  <2>3. CASE writer_lock(t)
    <3>1. CASE /\ t \notin Waiting /\ Waiting' = Waiting \cup {t} /\ Writing' = Writing
               /\ waiting_writers' = waiting_writers + 1 /\ UNCHANGED writers
      BY <2>3, <3>1, WriterLockStep, ThreadSets, SidesAreThreads
    <3>2. CASE /\ t \notin Writing /\ Writing' = Writing \cup {t} /\ Waiting' = Waiting
               /\ writers' = 1 /\ UNCHANGED waiting_writers /\ ~WritersMustWait
      <4>1. Cardinality(Writing') = Cardinality(Writing) + 1
        BY <3>2, ThreadSets, SidesAreThreads
      <4>2. readers = 0 /\ writers = 0
        BY <3>2 DEF WritersMustWait, LogTypeOK
      <4>3. Reading' = Reading /\ readers' = readers
        BY <2>3, WriterLockStep
      <4>4. waiting_writers' = Cardinality(Waiting')
        BY <3>2
      <4>5. writers' = Cardinality(Writing')
        BY <3>2, <4>1, <4>2
      <4> QED BY <4>2, <4>3, <4>4, <4>5
    <3> QED BY <2>3, <3>1, <3>2, WriterLockStep
  <2>4. CASE writer_lock_woken(t)
    <3>1. CASE Waiting' = Waiting /\ Writing' = Writing /\ UNCHANGED <<waiting_writers, writers>>
      BY <2>4, <3>1, WriterWokenStep
    <3>2. CASE /\ t \in Waiting /\ Waiting' = Waiting \ {t}
               /\ t \notin Writing /\ Writing' = Writing \cup {t}
               /\ waiting_writers' = waiting_writers - 1 /\ writers' = 1 /\ ~WritersMustWait
      <4>1. Cardinality(Writing') = Cardinality(Writing) + 1
        BY <3>2, ThreadSets, SidesAreThreads
      <4>2. Cardinality(Waiting') = Cardinality(Waiting) - 1
        BY <3>2, ThreadSets, SidesAreThreads
      <4>3. readers = 0 /\ writers = 0
        BY <3>2 DEF WritersMustWait, LogTypeOK
      <4>4. Reading' = Reading /\ readers' = readers
        BY <2>4, WriterWokenStep
      <4>5. waiting_writers' = Cardinality(Waiting')
        BY <3>2, <4>2
      <4>6. writers' = Cardinality(Writing')
        BY <3>2, <4>1, <4>3
      <4> QED BY <4>3, <4>4, <4>5, <4>6
    <3> QED BY <2>4, <3>1, <3>2, WriterWokenStep
  <2>5. CASE writer_unlock(t)
    <3>1. Cardinality(Writing') = Cardinality(Writing) - 1 /\ Cardinality(Writing) # 0
      BY <2>5, WriterUnlockStep, ThreadSets, SidesAreThreads
    <3>2. writers' = Cardinality(Writing')
      BY <2>5, <3>1, WriterUnlockStep DEF LogTypeOK
    <3> QED BY <2>5, <3>2, WriterUnlockStep
  <2>6. CASE get_log(t) \/ add_to_log(t) \/ SpuriousLogWakeup(t)
               \/ AllocCopy(t) \/ CopyBuffer(t) \/ CopyLength(t)
               \/ GrowBuffer(t) \/ AppendEntry(t) \/ AppendLength(t)
    BY <2>6, QuietLogSteps DEF lockVars
  <2> QED
    BY <2>1, <2>2, <2>3, <2>4, <2>5, <2>6 DEF Step
<1> QED
  BY <1>1, <1>2

\* Every step keeps every variable in its type; readers does not drop below zero
\* because the thread that counts down is one of those counted.
LEMMA TypeNext ==
    ASSUME LogTypeOK, LockInv, [LogNext]_logVars
    PROVE  LogTypeOK'
<1> USE DEF LogTypeOK, Pcs, ReadPcs, WritePcs, WaitPcs
<1>1. CASE UNCHANGED logVars
  BY <1>1 DEF logVars, lockVars, bufVars
<1>2. CASE LogNext
  <2> PICK t \in Threads : get_log(t) \/ add_to_log(t) \/ SpuriousLogWakeup(t) \/ Step(t)
    BY <1>2 DEF LogNext
  <2>1. CASE get_log(t)
    BY <2>1, SidesAreThreads DEF get_log, lockVars, bufVars
  <2>2. CASE add_to_log(t)
    BY <2>2, LogConstants DEF LogConstants, add_to_log, lockVars, bufVars
  <2>3. CASE SpuriousLogWakeup(t)
    BY <2>3 DEF SpuriousLogWakeup, lockVars, bufVars
  <2>4. CASE reader_lock(t)
    <3>1. readers' \in Nat
      BY <2>4, ReaderLockStep
    <3>2. pc' \in [Threads -> Pcs]
      BY <2>4 DEF reader_lock
    <3> QED BY <2>4, <3>1, <3>2 DEF reader_lock, bufVars
  <2>5. CASE AllocCopy(t)
    <3>1. dst' \in [Threads -> Copy]
      <4> DEFINE c == [size |-> length + 1, moved |-> 0, data |-> <<>>, len |-> 0]
      <4>1. c \in Copy
        BY DEF Copy
      <4> HIDE DEF c
      <4> QED
        BY <2>5, <4>1 DEF AllocCopy, c
    <3> QED BY <2>5, <3>1 DEF AllocCopy, lockVars, bufVars
  <2>6. CASE CopyBuffer(t)
    <3>1. dst' \in [Threads -> Copy]
      BY <2>6 DEF CopyBuffer, Copy
    <3> QED BY <2>6, <3>1 DEF CopyBuffer, lockVars, bufVars
  <2>7. CASE CopyLength(t)
    <3>1. dst' \in [Threads -> Copy]
      BY <2>7 DEF CopyLength, Copy
    <3> QED BY <2>7, <3>1 DEF CopyLength, lockVars, bufVars
  <2>8. CASE reader_unlock(t)
    <3>1. readers' \in Nat
      BY <2>8, ReaderUnlockStep, ThreadSets, SidesAreThreads DEF LockInv, LockCounts
    <3>2. pc' \in [Threads -> Pcs]
      BY <2>8 DEF reader_unlock, SignalWriter
    <3>3. dst' \in [Threads -> Copy]
      BY <2>8 DEF reader_unlock, NoCopy, Copy
    <3> QED BY <2>8, <3>1, <3>2, <3>3 DEF reader_unlock, bufVars
  <2>9. CASE writer_lock(t)
    <3>1. waiting_writers' \in Nat /\ writers' \in {0, 1}
      BY <2>9, WriterLockStep
    <3>2. pc' \in [Threads -> Pcs]
      BY <2>9 DEF writer_lock
    <3> QED BY <2>9, <3>1, <3>2 DEF writer_lock, bufVars
  <2>10. CASE writer_lock_woken(t)
    <3>1. waiting_writers' \in Nat
      BY <2>10, WriterWokenStep, ThreadSets, SidesAreThreads DEF LockInv, LockCounts
    <3> QED BY <2>10, <3>1 DEF writer_lock_woken, bufVars
  <2>11. CASE GrowBuffer(t)
    BY <2>11 DEF GrowBuffer, lockVars
  <2>12. CASE AppendEntry(t)
    <3>1. [by |-> t, at |-> length, len |-> len[t]] \in Entry
      BY DEF Entry
    <3>2. buffer' \in Seq(Entry)
      BY <2>12, <3>1 DEF AppendEntry
    <3> QED BY <2>12, <3>2 DEF AppendEntry, lockVars
  <2>13. CASE AppendLength(t)
    BY <2>13 DEF AppendLength, lockVars
  <2>14. CASE writer_unlock(t)
    BY <2>14 DEF writer_unlock, SignalWriter, BroadcastReaders, bufVars
  <2> QED
    BY <2>1, <2>2, <2>3, <2>4, <2>5, <2>6, <2>7, <2>8, <2>9, <2>10, <2>11, <2>12, <2>13, <2>14
    DEF Step
<1> QED
  BY <1>1, <1>2

\* The variables of the log have their types, and the counters of the lock count
\* the threads that are in it, in every reachable state.
THEOREM LockCorrect == LogSpec => [](LogTypeOK /\ LockInv)
<1>1. LogTypeOK /\ LockInv /\ [LogNext]_logVars => (LogTypeOK /\ LockInv)'
  BY LockNext, TypeNext
<1> QED
  BY LockInit, <1>1, PTL DEF LogSpec

\* The counters of the lock are the numbers of threads that read, wait to write
\* and write, for any finite set of threads.
THEOREM LockCountsHold == LogSpec => []LockCounts
<1>1. LockInv => LockCounts
  BY DEF LockInv
<1> QED
  BY LockCorrect, <1>1, PTL

\* add_to_log changes the buffer with no other thread in it.
LEMMA Exclusion ==
    ASSUME LogTypeOK, LockInv
    PROVE  MutualExclusion
<1> SUFFICES ASSUME NEW w \in Writing PROVE Writing = {w} /\ Reading = {}
  BY DEF MutualExclusion
<1>1. writers = 1
  BY ThreadSets, SidesAreThreads DEF LockInv, LockCounts, LogTypeOK
<1>2. \A u \in Writing : u = w
  BY <1>1, ThreadSets, SidesAreThreads DEF LockInv, LockCounts
<1>3. Reading = {}
  BY <1>1, ThreadSets, SidesAreThreads DEF LockInv, LockCounts
<1> QED
  BY <1>2, <1>3

\* Mutual exclusion of writers among themselves and with readers, for any number
\* of threads.
THEOREM MutualExclusionHolds == LogSpec => []MutualExclusion
  BY LockCorrect, Exclusion, PTL

-----------------------------------------------------------------------------
(* Writer priority *)

\* Every step keeps, of the writers a get_log found in front of it, those that
\* are not done in front of it, and lets it in only when there are none.
LEMMA PriorityNext ==
    ASSUME LogTypeOK, LockInv, PriorityInv, [LogNext]_logVars
    PROVE  PriorityInv'
<1> USE DEF PriorityInv, WriterPriority
<1>1. CASE UNCHANGED logVars
  BY <1>1 DEF logVars, lockVars, Reading, Writing, Waiting
<1>2. CASE LogNext
  <2> PICK t \in Threads : get_log(t) \/ add_to_log(t) \/ SpuriousLogWakeup(t) \/ Step(t)
    BY <1>2 DEF LogNext
  <2>1. CASE get_log(t)
    BY <2>1, QuietLogSteps DEF get_log, LogTypeOK, Reading, ReadPcs
  <2>2. CASE reader_lock(t)
    <3>1. CASE ReadersMustWait
      BY <2>2, <3>1, ReaderLockStep DEF reader_lock, LogTypeOK
    <3>2. CASE ~ReadersMustWait
      <4>1. writers = 0 /\ waiting_writers = 0
        BY <3>2 DEF ReadersMustWait, LogTypeOK
      <4>2. Waiting = {} /\ Writing = {}
        BY <4>1, ThreadSets, SidesAreThreads DEF LockInv, LockCounts
      <4>3. ahead[t] = {}
        BY <2>2, <4>2 DEF reader_lock
      <4>4. Reading' = Reading \cup {t} /\ Writing' = Writing /\ Waiting' = Waiting
        BY <2>2, <3>2, ReaderLockStep
      <4>5. /\ ahead' = ahead
            /\ \A u \in Threads : pc'[u] \in {"rd_lock", "rd_wait"} => pc[u] \in {"rd_lock", "rd_wait"}
        BY <2>2, <3>2 DEF reader_lock, LogTypeOK
      <4> QED BY <4>3, <4>4, <4>5
    <3> QED BY <3>1, <3>2
  <2>3. CASE reader_unlock(t)
    <3>1. /\ ahead' = ahead
          /\ \A u \in Threads : pc'[u] \in {"rd_lock", "rd_wait"} => pc[u] \in {"rd_lock", "rd_wait"}
      BY <2>3 DEF reader_unlock, SignalWriter, LogTypeOK
    <3> QED BY <2>3, <3>1, ReaderUnlockStep
  <2>4. CASE writer_lock(t)
    <3>1. /\ ahead' = ahead
          /\ \A u \in Threads : pc'[u] \in {"rd_lock", "rd_wait"} => pc[u] \in {"rd_lock", "rd_wait"}
      BY <2>4 DEF writer_lock, LogTypeOK
    <3> QED BY <2>4, <3>1, WriterLockStep
  <2>5. CASE writer_lock_woken(t)
    <3>1. /\ ahead' = ahead
          /\ \A u \in Threads : pc'[u] \in {"rd_lock", "rd_wait"} => pc[u] \in {"rd_lock", "rd_wait"}
      BY <2>5 DEF writer_lock_woken, LogTypeOK
    <3> QED BY <2>5, <3>1, WriterWokenStep
  <2>6. CASE writer_unlock(t)
    <3>1. /\ \A u \in Threads : ahead'[u] = ahead[u] \ {t}
          /\ \A u \in Threads : pc'[u] \in {"rd_lock", "rd_wait"} => pc[u] \in {"rd_lock", "rd_wait"}
      BY <2>6 DEF writer_unlock, SignalWriter, BroadcastReaders, LogTypeOK
    <3> QED BY <2>6, <3>1, WriterUnlockStep, SidesAreThreads
  <2>7. CASE add_to_log(t) \/ SpuriousLogWakeup(t)
               \/ AllocCopy(t) \/ CopyBuffer(t) \/ CopyLength(t)
               \/ GrowBuffer(t) \/ AppendEntry(t) \/ AppendLength(t)
    <3>1. /\ ahead' = ahead
          /\ \A u \in Threads : pc'[u] \in {"rd_lock", "rd_wait"} => pc[u] \in {"rd_lock", "rd_wait"}
      BY <2>7 DEF add_to_log, SpuriousLogWakeup, AllocCopy, CopyBuffer, CopyLength,
                  GrowBuffer, AppendEntry, AppendLength, LogTypeOK
    <3> QED BY <2>7, <3>1, QuietLogSteps
  <2> QED
    BY <2>1, <2>2, <2>3, <2>4, <2>5, <2>6, <2>7 DEF Step
<1> QED
  BY <1>1, <1>2

\* Writer priority, as log.h promises it, for any number of threads.
THEOREM WriterPriorityHolds == LogSpec => []WriterPriority
<1>1. LogInit => PriorityInv
  BY DEF LogInit, PriorityInv, WriterPriority, Reading, ReadPcs
<1>2. LogTypeOK /\ LockInv /\ PriorityInv /\ [LogNext]_logVars => PriorityInv'
  BY PriorityNext
<1>3. PriorityInv => WriterPriority
  BY DEF PriorityInv
<1> QED
  BY LockCorrect, <1>1, <1>2, <1>3, PTL DEF LogSpec

-----------------------------------------------------------------------------
(* Wake-ups *)

\* Every step leaves somebody awake for those it leaves asleep.
LEMMA WakeupNext ==
    ASSUME LogTypeOK, LockInv, LockInv', NoLostLogWakeup, [LogNext]_logVars
    PROVE  NoLostLogWakeup'
<1> USE DEF NoLostLogWakeup
<1>1. CASE UNCHANGED logVars
  BY <1>1 DEF logVars, lockVars, Reading, Writing, Waiting
<1>2. CASE LogNext
  <2> PICK t \in Threads : get_log(t) \/ add_to_log(t) \/ SpuriousLogWakeup(t) \/ Step(t)
    BY <1>2 DEF LogNext
  <2>1. CASE reader_lock(t)
    <3>1. ReadersMustWait => Waiting \cup Writing # {}
      BY ThreadSets, SidesAreThreads DEF ReadersMustWait, LockInv, LockCounts
    <3>2. CASE ReadersMustWait
      BY <2>1, <3>1, <3>2, ReaderLockStep DEF reader_lock, LogTypeOK
    <3>3. CASE ~ReadersMustWait
      BY <2>1, <3>3, ReaderLockStep DEF reader_lock, LogTypeOK
    <3> QED BY <3>2, <3>3
  <2>2. CASE reader_unlock(t)
    <3>1. CASE readers' = 0
      BY <2>2, <3>1, ReaderUnlockStep DEF reader_unlock, SignalWriter, LogTypeOK
    <3>2. CASE readers' # 0
      <4>1. Reading' # {}
        BY <3>2, ThreadSets, SidesAreThreads DEF LockInv, LockCounts
      <4> QED BY <2>2, <3>2, <4>1, ReaderUnlockStep DEF reader_unlock, LogTypeOK
    <3> QED BY <3>1, <3>2
  <2>3. CASE writer_lock(t)
    <3>1. WritersMustWait => Reading \cup Writing # {}
      BY ThreadSets, SidesAreThreads DEF WritersMustWait, LockInv, LockCounts
    <3> QED BY <2>3, <3>1, WriterLockStep DEF writer_lock, LogTypeOK
  <2>4. CASE writer_lock_woken(t)
    <3>1. WritersMustWait => Reading \cup Writing # {}
      BY ThreadSets, SidesAreThreads DEF WritersMustWait, LockInv, LockCounts
    <3> QED BY <2>4, <3>1, WriterWokenStep DEF writer_lock_woken, LogTypeOK
  <2>5. CASE writer_unlock(t)
    <3>1. CASE waiting_writers > 0
      <4>1. Waiting # {}
        BY <3>1, ThreadSets, SidesAreThreads DEF LockInv, LockCounts
      <4> QED BY <2>5, <3>1, <4>1, WriterUnlockStep DEF writer_unlock, SignalWriter, LogTypeOK
    <3>2. CASE ~(waiting_writers > 0)
      <4>1. Waiting = {}
        BY <3>2, ThreadSets, SidesAreThreads DEF LockInv, LockCounts, LogTypeOK
      <4>2. \A u \in Threads : pc'[u] # "rd_wait" /\ pc'[u] # "wr_wait"
        BY <2>5, <3>2, <4>1 DEF writer_unlock, BroadcastReaders, LogTypeOK, Waiting, WaitPcs
      <4> QED BY <4>2
    <3> QED BY <3>1, <3>2
  <2>6. CASE SpuriousLogWakeup(t)
    BY <2>6, QuietLogSteps DEF SpuriousLogWakeup, LogTypeOK
  <2>7. CASE get_log(t) \/ add_to_log(t)
               \/ AllocCopy(t) \/ CopyBuffer(t) \/ CopyLength(t)
               \/ GrowBuffer(t) \/ AppendEntry(t) \/ AppendLength(t)
    <3>1. \A u \in Threads : \A p \in {"rd_wait", "wr_wait", "wr_woken"} : pc'[u] = p <=> pc[u] = p
      BY <2>7 DEF get_log, add_to_log, AllocCopy, CopyBuffer, CopyLength,
                  GrowBuffer, AppendEntry, AppendLength, LogTypeOK
    <3> QED BY <2>7, <3>1, QuietLogSteps
  <2> QED
    BY <2>1, <2>2, <2>3, <2>4, <2>5, <2>6, <2>7 DEF Step
<1> QED
  BY <1>1, <1>2

\* No thread sleeps with nobody left to wake it, for any number of threads: the
\* safety half of every call returning.
THEOREM NoLostLogWakeupHolds == LogSpec => []NoLostLogWakeup
<1>1. LogInit => NoLostLogWakeup
  BY DEF LogInit, NoLostLogWakeup
<1>2. LogTypeOK /\ LockInv /\ LockInv' /\ NoLostLogWakeup /\ [LogNext]_logVars => NoLostLogWakeup'
  BY WakeupNext
<1> QED
  BY LockCorrect, <1>1, <1>2, PTL DEF LogSpec

-----------------------------------------------------------------------------
(* The buffer *)

\* Every step keeps the text and its zero inside the buffer.  The length changes
\* only under the write lock, so no other thread has measured it.
LEMMA BufferNext ==
    ASSUME LogTypeOK, MutualExclusion, BufferFits, [LogNext]_logVars
    PROVE  BufferFits'
<1> USE DEF BufferFits, LogTypeOK
<1>1. CASE UNCHANGED logVars
  BY <1>1 DEF logVars, bufVars
<1>2. CASE LogNext
  <2> PICK t \in Threads : get_log(t) \/ add_to_log(t) \/ SpuriousLogWakeup(t) \/ Step(t)
    BY <1>2 DEF LogNext
  <2>1. CASE get_log(t) BY <2>1 DEF get_log, bufVars
  <2>2. CASE add_to_log(t) BY <2>2 DEF add_to_log, bufVars
  <2>3. CASE SpuriousLogWakeup(t) BY <2>3 DEF SpuriousLogWakeup, bufVars
  <2>4. CASE reader_lock(t) BY <2>4 DEF reader_lock, bufVars
  <2>5. CASE AllocCopy(t) BY <2>5 DEF AllocCopy, bufVars
  <2>6. CASE CopyBuffer(t) BY <2>6 DEF CopyBuffer, bufVars
  <2>7. CASE CopyLength(t) BY <2>7 DEF CopyLength, bufVars
  <2>8. CASE reader_unlock(t) BY <2>8 DEF reader_unlock, SignalWriter, bufVars
  <2>9. CASE writer_lock(t) BY <2>9 DEF writer_lock, bufVars
  <2>10. CASE writer_lock_woken(t) BY <2>10 DEF writer_lock_woken, bufVars
  <2>11. CASE GrowBuffer(t)
    <3>1. \A u \in Threads \ {t} : pc[u] \notin WritePcs /\ pc[u] \notin ReadPcs
      BY <2>11 DEF GrowBuffer, MutualExclusion, Writing, Reading, WritePcs
    <3> QED BY <2>11, <3>1 DEF GrowBuffer, TooSmall, WritePcs, ReadPcs
  <2>12. CASE AppendEntry(t) BY <2>12 DEF AppendEntry
  <2>13. CASE AppendLength(t)
    <3>1. \A u \in Threads \ {t} : pc[u] \notin WritePcs /\ pc[u] \notin ReadPcs
      BY <2>13 DEF AppendLength, MutualExclusion, Writing, Reading, WritePcs
    <3> QED BY <2>13, <3>1 DEF AppendLength, WritePcs, ReadPcs
  <2>14. CASE writer_unlock(t) BY <2>14 DEF writer_unlock, SignalWriter, BroadcastReaders, bufVars
  <2> QED
    BY <2>1, <2>2, <2>3, <2>4, <2>5, <2>6, <2>7, <2>8, <2>9, <2>10, <2>11, <2>12, <2>13, <2>14
    DEF Step
<1> QED
  BY <1>1, <1>2

\* No memcpy of get_log or add_to_log leaves its block, for entries of any length
\* and any initial capacity.
THEOREM BufferFitsHolds == LogSpec => []BufferFits
<1>1. LogInit => BufferFits
  BY LogConstants DEF LogConstants, LogInit, BufferFits
<1>2. LogTypeOK /\ MutualExclusion /\ BufferFits /\ [LogNext]_logVars => BufferFits'
  BY BufferNext
<1> QED
  BY LockCorrect, MutualExclusionHolds, <1>1, <1>2, PTL DEF LogSpec

-----------------------------------------------------------------------------
(* Linearizability: ServerLog implements AtomicLog.  get_log takes effect when it *)
(* reads log->length and add_to_log when it writes it; what each has copied by    *)
(* then is what the lock has kept still for it.                                   *)

WriterPcs == {"wr_lock"} \cup WaitPcs \cup WritePcs

\* The entry add_to_log puts at the end of the buffer.
NewEntry(t) == [by |-> t, at |-> length, len |-> len[t]]

\* What the threads inside the lock have done so far.
DataInv ==
    /\ \A t \in Threads : pc[t] = "rd_len" => dst[t].data = buffer
    /\ \A t \in Threads : pc[t] = "wr_len" => buffer = Append(Committed, NewEntry(t))
    /\ \A t \in Threads : pc[t] \notin WriterPcs => len[t] = 0
    /\ Committed \in Seq(Entry)

\* Dropping the entry that was just appended gives the sequence back.
LEMMA DropAppended ==
    ASSUME NEW S, NEW s \in Seq(S), NEW e \in S
    PROVE  SubSeq(Append(s, e), 1, Len(Append(s, e)) - 1) = s
<1>1. Len(Append(s, e)) - 1 = Len(s) /\ Len(s) \in Nat /\ Append(s, e) \in Seq(S)
  BY AppendProperties
<1>2. \A i \in 1 .. Len(s) : Append(s, e)[i] = s[i] /\ Append(s, e)[i] \in S
  BY AppendProperties
<1>3. /\ SubSeq(Append(s, e), 1, Len(s)) \in Seq(S)
      /\ Len(SubSeq(Append(s, e), 1, Len(s))) = Len(s)
      /\ \A i \in 1 .. Len(s) : SubSeq(Append(s, e), 1, Len(s))[i] = s[i]
  BY <1>1, <1>2, SubSeqProperties, SMT
<1> QED
  BY <1>1, <1>3, SeqEqual

\* While one thread writes, no other is at wr_len, and nobody reads.
LEMMA OnlyWriter ==
    ASSUME LogTypeOK, MutualExclusion, NEW t \in Threads, pc[t] \in WritePcs
    PROVE  \A u \in Threads \ {t} : pc[u] \notin WritePcs /\ pc[u] \notin ReadPcs
  BY DEF MutualExclusion, Writing, Reading, WritePcs, ReadPcs

\* While one thread reads, no thread writes and the buffer is the committed log.
LEMMA OnlyReaders ==
    ASSUME LogTypeOK, MutualExclusion, NEW t \in Threads, pc[t] \in ReadPcs
    PROVE  (\A u \in Threads : pc[u] \notin WritePcs) /\ Committed = buffer
<1>1. \A u \in Threads : pc[u] \notin WritePcs
  BY DEF MutualExclusion, Writing, Reading
<1> QED
  BY <1>1 DEF Committed, WritePcs

\* The steps other than those on the buffer leave the log as it is, and move no
\* thread from or to the steps on it.
LEMMA LogUntouched ==
    ASSUME LogTypeOK, UNCHANGED buffer,
           \A u \in Threads : pc'[u] = "wr_len" <=> pc[u] = "wr_len"
    PROVE  Committed' = Committed
  BY DEF Committed

\* A step of t that keeps dst, the buffer and the length.
LEMMA Simple ==
    ASSUME LogTypeOK, DataInv, UNCHANGED <<buffer, length>>,
           \A u \in Threads : pc'[u] = "wr_len" <=> pc[u] = "wr_len",
           \A u \in Threads : pc'[u] = "rd_len" => pc[u] = "rd_len" /\ dst'[u] = dst[u],
           \A u \in Threads : pc'[u] \notin WriterPcs =>
             \/ pc[u] \notin WriterPcs /\ len'[u] = len[u]
             \/ len'[u] = 0,
           \A u \in Threads : pc'[u] = "wr_len" => len'[u] = len[u]
    PROVE  DataInv'
<1>1. Committed' = Committed
  BY LogUntouched
<1> QED
  BY <1>1 DEF DataInv, NewEntry

\* Every step keeps what the threads inside the lock have done.
LEMMA DataNext ==
    ASSUME LogTypeOK, LogTypeOK', MutualExclusion, DataInv, [LogNext]_logVars
    PROVE  DataInv'
<1> USE DEF LogTypeOK
<1>1. CASE UNCHANGED logVars
  BY <1>1 DEF logVars, bufVars, DataInv, Committed, NewEntry
<1>2. CASE LogNext
  <2> PICK t \in Threads : get_log(t) \/ add_to_log(t) \/ SpuriousLogWakeup(t) \/ Step(t)
    BY <1>2 DEF LogNext
  <2> USE DEF WriterPcs, WritePcs, WaitPcs
  <2>1. CASE get_log(t)
    <3>1. UNCHANGED <<buffer, length, dst, len>> /\ pc' = [pc EXCEPT ![t] = "rd_lock"] /\ pc[t] = "idle"
      BY <2>1 DEF get_log, bufVars
    <3> QED BY <3>1, Simple
  <2>2. CASE add_to_log(t)
    <3>1. /\ UNCHANGED <<buffer, length, dst>> /\ pc' = [pc EXCEPT ![t] = "wr_lock"] /\ pc[t] = "idle"
          /\ \A u \in Threads \ {t} : len'[u] = len[u]
      BY <2>2 DEF add_to_log, bufVars
    <3> QED BY <3>1, Simple
  <2>3. CASE SpuriousLogWakeup(t)
    BY <2>3, Simple DEF SpuriousLogWakeup, bufVars
  <2>4. CASE reader_lock(t)
    BY <2>4, Simple DEF reader_lock, bufVars
  <2>5. CASE AllocCopy(t)
    <3>1. /\ UNCHANGED <<buffer, length, len>> /\ pc' = [pc EXCEPT ![t] = "rd_copy"] /\ pc[t] = "rd_alloc"
          /\ \A u \in Threads \ {t} : dst'[u] = dst[u]
      BY <2>5 DEF AllocCopy, bufVars
    <3> QED BY <3>1, Simple
  <2>6. CASE CopyBuffer(t)
    <3>1. /\ UNCHANGED <<buffer, length, len>> /\ pc' = [pc EXCEPT ![t] = "rd_len"] /\ pc[t] = "rd_copy"
          /\ \A u \in Threads \ {t} : dst'[u] = dst[u]
          /\ dst'[t].data = buffer
      BY <2>6 DEF CopyBuffer, bufVars
    <3>2. Committed' = Committed
      BY <3>1, LogUntouched
    <3> QED BY <3>1, <3>2 DEF DataInv, NewEntry
  <2>7. CASE CopyLength(t)
    <3>1. /\ UNCHANGED <<buffer, length, len>> /\ pc' = [pc EXCEPT ![t] = "rd_unlock"] /\ pc[t] = "rd_len"
          /\ \A u \in Threads \ {t} : dst'[u] = dst[u]
      BY <2>7 DEF CopyLength, bufVars
    <3> QED BY <3>1, Simple
  <2>8. CASE reader_unlock(t)
    <3>1. /\ UNCHANGED <<buffer, length, len>>
          /\ \A u \in Threads \ {t} : dst'[u] = dst[u]
          /\ \A u \in Threads : pc'[u] = "rd_len" <=> pc[u] = "rd_len"
          /\ \A u \in Threads : pc'[u] = "wr_len" <=> pc[u] = "wr_len"
          /\ \A u \in Threads : pc'[u] \notin WriterPcs => pc[u] \notin WriterPcs
          /\ pc[t] = "rd_unlock" /\ pc'[t] = "idle"
      BY <2>8 DEF reader_unlock, SignalWriter, bufVars
    <3> QED BY <3>1, Simple
  <2>9. CASE writer_lock(t)
    BY <2>9, Simple DEF writer_lock, bufVars
  <2>10. CASE writer_lock_woken(t)
    BY <2>10, Simple DEF writer_lock_woken, bufVars
  <2>11. CASE GrowBuffer(t)
    BY <2>11, Simple DEF GrowBuffer
  <2>12. CASE AppendEntry(t)
    <3>1. \A u \in Threads \ {t} : pc[u] \notin WritePcs /\ pc[u] \notin ReadPcs
      BY <2>12, OnlyWriter DEF AppendEntry
    <3>2. Committed = buffer
      BY <2>12, <3>1 DEF Committed, AppendEntry
    <3>3. NewEntry(t) \in Entry
      BY DEF NewEntry, Entry
    <3>4. /\ pc' = [pc EXCEPT ![t] = "wr_len"] /\ UNCHANGED <<length, len, dst>>
          /\ buffer' = Append(buffer, NewEntry(t))
      BY <2>12 DEF AppendEntry, NewEntry
    <3>5. Committed' = SubSeq(buffer', 1, Len(buffer') - 1)
      BY <3>4 DEF Committed
    <3>6. Committed' = buffer
      BY <3>3, <3>4, <3>5, DropAppended
    <3>7. NewEntry(t)' = NewEntry(t)
      BY <3>4 DEF NewEntry
    <3>8. \A u \in Threads : (pc'[u] = "rd_len" => FALSE) /\ (pc'[u] = "wr_len" => u = t)
      BY <3>1, <3>4 DEF ReadPcs
    <3>9. \A u \in Threads : pc'[u] \notin WriterPcs => len'[u] = 0
      BY <3>4 DEF DataInv
    <3> QED BY <3>2, <3>4, <3>6, <3>7, <3>8, <3>9 DEF DataInv
  <2>13. CASE AppendLength(t)
    <3>1. \A u \in Threads \ {t} : pc[u] \notin WritePcs /\ pc[u] \notin ReadPcs
      BY <2>13, OnlyWriter DEF AppendLength
    <3>2. pc' = [pc EXCEPT ![t] = "wr_unlock"] /\ UNCHANGED <<buffer, len, dst>> /\ pc[t] = "wr_len"
      BY <2>13 DEF AppendLength
    <3>3. \A u \in Threads : pc'[u] # "wr_len" /\ pc'[u] # "rd_len"
      BY <3>1, <3>2 DEF ReadPcs
    <3>4. Committed' = buffer
      BY <3>2, <3>3 DEF Committed
    <3> QED BY <3>2, <3>3, <3>4 DEF DataInv
  <2>14. CASE writer_unlock(t)
    <3>1. /\ UNCHANGED <<buffer, length, dst>>
          /\ \A u \in Threads \ {t} : len'[u] = len[u]
          /\ len'[t] = 0
          /\ \A u \in Threads : pc'[u] = "rd_len" <=> pc[u] = "rd_len"
          /\ \A u \in Threads : pc'[u] = "wr_len" <=> pc[u] = "wr_len"
          /\ \A u \in Threads \ {t} : pc'[u] \notin WriterPcs => pc[u] \notin WriterPcs
          /\ pc[t] = "wr_unlock"
      BY <2>14 DEF writer_unlock, SignalWriter, BroadcastReaders, bufVars
    <3> QED BY <3>1, Simple
  <2> QED
    BY <2>1, <2>2, <2>3, <2>4, <2>5, <2>6, <2>7, <2>8, <2>9, <2>10, <2>11, <2>12, <2>13, <2>14
    DEF Step
<1> QED
  BY <1>1, <1>2

-----------------------------------------------------------------------------
(* The simulation *)

\* The mapped state does not change when a thread moves within its phase.
LEMMA Stutter ==
    ASSUME UNCHANGED <<buffer, length, len>>,
           \A u \in Threads : pc'[u] = "wr_len" <=> pc[u] = "wr_len",
           \A u \in Threads : PhaseOf(pc'[u]) = PhaseOf(pc[u]),
           \A u \in Threads : ReplyOf(u)' = ReplyOf(u)
    PROVE  UNCHANGED Atomic!vars
<1>1. Committed' = Committed
  BY DEF Committed
<1>2. Phases' = Phases
  BY DEF Phases
<1>3. Replies' = Replies
  BY DEF Replies
<1> QED
  BY <1>1, <1>2, <1>3 DEF Atomic!vars

\* Every step of the threads is a step of the abstract log or leaves it alone.
LEMMA Simulation ==
    ASSUME LogTypeOK, LogTypeOK', MutualExclusion, DataInv, DataInv', [LogNext]_logVars
    PROVE  [Atomic!Next]_(Atomic!vars)
<1> USE DEF LogTypeOK
<1>1. CASE UNCHANGED logVars
  BY <1>1 DEF logVars, bufVars, Atomic!vars, Committed, Phases, Replies, ReplyOf
<1>2. CASE LogNext
  <2> PICK t \in Threads : get_log(t) \/ add_to_log(t) \/ SpuriousLogWakeup(t) \/ Step(t)
    BY <1>2 DEF LogNext
  <2>1. CASE get_log(t)
    <3>1. UNCHANGED <<buffer, length, dst, len>> /\ pc' = [pc EXCEPT ![t] = "rd_lock"] /\ pc[t] = "idle"
      BY <2>1 DEF get_log, bufVars
    <3>2. Committed' = Committed
      BY <3>1 DEF Committed
    <3>3. Phases[t] = "out" /\ Phases' = [Phases EXCEPT ![t] = "get"]
      BY <3>1 DEF Phases, PhaseOf, ReadPcs
    <3>4. Replies' = Replies
      BY <3>1 DEF Replies, ReplyOf
    <3>5. Atomic!CallGet(t)
      BY <3>1, <3>2, <3>3, <3>4 DEF Atomic!CallGet
    <3> QED BY <3>5 DEF Atomic!Next
  <2>2. CASE add_to_log(t)
    <3>1. /\ UNCHANGED <<buffer, length, dst>> /\ pc' = [pc EXCEPT ![t] = "wr_lock"] /\ pc[t] = "idle"
          /\ \E l \in EntryLens : len' = [len EXCEPT ![t] = l]
      BY <2>2 DEF add_to_log, bufVars
    <3>2. Committed' = Committed
      BY <3>1 DEF Committed
    <3>3. Phases[t] = "out" /\ Phases' = [Phases EXCEPT ![t] = "add"]
      BY <3>1 DEF Phases, PhaseOf, ReadPcs
    <3>4. Replies' = Replies
      BY <3>1 DEF Replies, ReplyOf
    <3>5. \E l \in EntryLens : Atomic!CallAdd(t, l)
      BY <3>1, <3>2, <3>3, <3>4 DEF Atomic!CallAdd
    <3> QED BY <3>5 DEF Atomic!Next
  <2>3. CASE CopyLength(t)
    <3>1. /\ UNCHANGED <<buffer, length, len>> /\ pc' = [pc EXCEPT ![t] = "rd_unlock"] /\ pc[t] = "rd_len"
          /\ \A u \in Threads \ {t} : dst'[u] = dst[u]
          /\ dst'[t].data = dst[t].data /\ dst'[t].len = length
      BY <2>3 DEF CopyLength, bufVars
    <3>2. Committed' = Committed /\ dst[t].data = Committed
      BY <3>1, OnlyReaders DEF Committed, DataInv, ReadPcs
    <3>3. Phases[t] = "get" /\ Phases' = [Phases EXCEPT ![t] = "done"]
      BY <3>1 DEF Phases, PhaseOf, ReadPcs
    <3>4. Replies' = [Replies EXCEPT ![t] = [text |-> Committed, len |-> length]]
      BY <3>1, <3>2 DEF Replies, ReplyOf
    <3>5. Atomic!Get(t)
      BY <3>1, <3>2, <3>3, <3>4 DEF Atomic!Get
    <3> QED BY <3>5 DEF Atomic!Next
  <2>4. CASE AppendLength(t)
    <3>1. /\ pc' = [pc EXCEPT ![t] = "wr_unlock"] /\ UNCHANGED <<buffer, len, dst>> /\ pc[t] = "wr_len"
          /\ length' = length + len[t]
      BY <2>4 DEF AppendLength
    <3>2. \A u \in Threads : pc'[u] # "wr_len"
      BY <3>1, OnlyWriter DEF WritePcs
    <3>3. Committed' = Append(Committed, [by |-> t, at |-> length, len |-> len[t]])
      BY <3>1, <3>2 DEF Committed, DataInv, NewEntry
    <3>4. Phases[t] = "add" /\ Phases' = [Phases EXCEPT ![t] = "done"]
      BY <3>1 DEF Phases, PhaseOf, ReadPcs
    <3>5. Replies' = Replies
      BY <3>1 DEF Replies, ReplyOf
    <3>6. Atomic!Add(t)
      BY <3>1, <3>3, <3>4, <3>5 DEF Atomic!Add
    <3> QED BY <3>6 DEF Atomic!Next
  <2>5. CASE reader_unlock(t)
    <3>1. /\ UNCHANGED <<buffer, length, len>> /\ pc[t] = "rd_unlock" /\ pc'[t] = "idle"
          /\ \A u \in Threads \ {t} : dst'[u] = dst[u]
      BY <2>5 DEF reader_unlock, SignalWriter, bufVars
    <3>2. \A u \in Threads \ {t} : pc'[u] = pc[u] \/ (pc[u] = "wr_wait" /\ pc'[u] = "wr_woken")
      BY <2>5 DEF reader_unlock, SignalWriter
    <3>3. Committed' = Committed
      BY <3>1, <3>2 DEF Committed
    <3>4. Phases[t] = "done" /\ Phases' = [Phases EXCEPT ![t] = "out"]
      BY <3>1, <3>2 DEF Phases, PhaseOf, ReadPcs
    <3>5. len[t] = 0
      BY <3>1 DEF DataInv, WriterPcs, WaitPcs, WritePcs
    <3>6. Replies' = [Replies EXCEPT ![t] = Atomic!NoReply]
      BY <3>1, <3>2 DEF Replies, ReplyOf, Atomic!NoReply
    <3>7. Atomic!Return(t)
      BY <3>1, <3>3, <3>4, <3>5, <3>6 DEF Atomic!Return
    <3> QED BY <3>7 DEF Atomic!Next
  <2>6. CASE writer_unlock(t)
    <3>1. /\ UNCHANGED <<buffer, length, dst>> /\ pc[t] = "wr_unlock" /\ pc'[t] = "idle"
          /\ len' = [len EXCEPT ![t] = 0]
      BY <2>6 DEF writer_unlock, SignalWriter, BroadcastReaders, bufVars
    <3>2. \A u \in Threads \ {t} :
            \/ pc'[u] = pc[u]
            \/ pc[u] = "wr_wait" /\ pc'[u] = "wr_woken"
            \/ pc[u] = "rd_wait" /\ pc'[u] = "rd_lock"
      BY <2>6 DEF writer_unlock, SignalWriter, BroadcastReaders
    <3>3. Committed' = Committed
      BY <3>1, <3>2 DEF Committed
    <3>4. Phases[t] = "done" /\ Phases' = [Phases EXCEPT ![t] = "out"]
      BY <3>1, <3>2 DEF Phases, PhaseOf, ReadPcs
    <3>5. Replies' = [Replies EXCEPT ![t] = Atomic!NoReply]
      BY <3>1, <3>2 DEF Replies, ReplyOf, Atomic!NoReply
    <3>6. Atomic!Return(t)
      BY <3>1, <3>3, <3>4, <3>5 DEF Atomic!Return
    <3> QED BY <3>6 DEF Atomic!Next
  <2>7. CASE AppendEntry(t)
    <3>1. /\ pc' = [pc EXCEPT ![t] = "wr_len"] /\ pc[t] = "wr_copy"
          /\ UNCHANGED <<length, len, dst>> /\ buffer' = Append(buffer, NewEntry(t))
      BY <2>7 DEF AppendEntry, NewEntry
    <3>2. NewEntry(t) \in Entry
      BY DEF NewEntry, Entry
    <3>3. Committed = buffer
      BY <3>1, OnlyWriter DEF Committed, WritePcs
    <3>4. Committed' = SubSeq(buffer', 1, Len(buffer') - 1)
      BY <3>1 DEF Committed
    <3>5. Committed' = Committed
      BY <3>1, <3>2, <3>3, <3>4, DropAppended
    <3>6. Phases' = Phases
      BY <3>1 DEF Phases, PhaseOf, ReadPcs
    <3>7. Replies' = Replies
      BY <3>1 DEF Replies, ReplyOf
    <3> QED BY <3>1, <3>5, <3>6, <3>7 DEF Atomic!vars
  <2>8. CASE SpuriousLogWakeup(t) \/ reader_lock(t) \/ AllocCopy(t) \/ CopyBuffer(t)
               \/ writer_lock(t) \/ writer_lock_woken(t) \/ GrowBuffer(t)
    <3>1. UNCHANGED <<buffer, length, len>>
      BY <2>8 DEF SpuriousLogWakeup, reader_lock, AllocCopy, CopyBuffer,
                  writer_lock, writer_lock_woken, GrowBuffer, bufVars
    <3>2. \A u \in Threads :
            \/ pc'[u] = pc[u]
            \/ {pc[u], pc'[u]} \subseteq {"rd_lock", "rd_wait", "rd_alloc", "rd_copy", "rd_len"}
            \/ {pc[u], pc'[u]} \subseteq {"wr_lock", "wr_wait", "wr_woken", "wr_grow", "wr_copy"}
      BY <2>8 DEF SpuriousLogWakeup, reader_lock, AllocCopy, CopyBuffer,
                  writer_lock, writer_lock_woken, GrowBuffer
    <3>3. \A u \in Threads : pc[u] = "rd_unlock" => dst'[u] = dst[u]
      BY <2>8 DEF SpuriousLogWakeup, reader_lock, AllocCopy, CopyBuffer,
                  writer_lock, writer_lock_woken, GrowBuffer
    <3>4. \A u \in Threads : pc'[u] = "wr_len" <=> pc[u] = "wr_len"
      BY <3>2
    <3>5. \A u \in Threads : PhaseOf(pc'[u]) = PhaseOf(pc[u])
      BY <3>2 DEF PhaseOf, ReadPcs
    <3>6. \A u \in Threads : ReplyOf(u)' = ReplyOf(u)
      BY <3>2, <3>3 DEF ReplyOf
    <3> QED BY <3>1, <3>4, <3>5, <3>6, Stutter
  <2> QED
    BY <2>1, <2>2, <2>3, <2>4, <2>5, <2>6, <2>7, <2>8 DEF Step
<1> QED
  BY <1>1, <1>2

\* The log of log.c implements the atomic log, whatever the number of threads, the
\* lengths of the entries and the initial capacity of the buffer.
THEOREM LogIsLinearizable == LogSpec => ImplementsAtomicLog
<1>1. LogInit => DataInv /\ Atomic!Init
  <2> SUFFICES ASSUME LogInit PROVE DataInv /\ Atomic!Init
    OBVIOUS
  <2>1. Committed = <<>>
    BY DEF LogInit, Committed
  <2>2. DataInv
    BY <2>1 DEF LogInit, DataInv
  <2>3. Phases = [t \in Threads |-> "out"] /\ Replies = [t \in Threads |-> Atomic!NoReply]
    <3>1. \A t \in Threads : pc[t] = "idle"
      BY DEF LogInit
    <3>2. \A t \in Threads : PhaseOf(pc[t]) = "out"
      BY <3>1 DEF PhaseOf, ReadPcs
    <3>3. \A t \in Threads : ReplyOf(t) = Atomic!NoReply
      BY <3>1 DEF ReplyOf, Atomic!NoReply
    <3> QED BY <3>2, <3>3 DEF Phases, Replies
  <2> QED BY <2>1, <2>2, <2>3 DEF LogInit, Atomic!Init
<1>2. LogTypeOK /\ LogTypeOK' /\ MutualExclusion /\ DataInv /\ [LogNext]_logVars => DataInv'
  BY DataNext
<1>3. LogTypeOK /\ LogTypeOK' /\ MutualExclusion /\ DataInv /\ DataInv' /\ [LogNext]_logVars
        => [Atomic!Next]_(Atomic!vars)
  BY Simulation
<1> QED
  BY LockCorrect, MutualExclusionHolds, <1>1, <1>2, <1>3, PTL
  DEF LogSpec, ImplementsAtomicLog, Atomic!Spec

-----------------------------------------------------------------------------
(* The linked list of queue.c is a first-in first-out queue *)

\* No job is queued twice.
Distinct(jobs) == \A i, k \in 1 .. Len(jobs) : jobs[i] = jobs[k] => i = k

Queued(jobs, j) == \E i \in 1 .. Len(jobs) : jobs[i] = j

\* enqueue appends: it links an unlinked job behind all others.
LEMMA EnqueueAppends ==
    ASSUME NEW q \in Queue, NEW jobs \in Seq(Jobs), NEW j \in Jobs,
           Represents(q, jobs), Distinct(jobs), ~Queued(jobs, j), q.next[j] = NULL
    PROVE  /\ enqueue(q, j) \in Queue
           /\ Represents(enqueue(q, j), Append(jobs, j))
           /\ Distinct(Append(jobs, j))
<1> DEFINE new == Append(jobs, j)
<1>1. /\ new \in Seq(Jobs) /\ Len(new) = Len(jobs) + 1 /\ new # <<>>
      /\ \A i \in 1 .. Len(jobs) : new[i] = jobs[i]
      /\ new[Len(jobs) + 1] = j
  BY AppendProperties
<1>2. Distinct(new)
  BY <1>1 DEF Distinct, Queued
<1>3. CASE jobs = <<>>
  <2>1. Len(jobs) = 0 /\ Len(new) = 1 /\ new[1] = j /\ q.tail = NULL /\ q.currSize = 0
    BY <1>1, <1>3 DEF Represents
  <2>2. enqueue(q, j) = [head |-> j, tail |-> j, next |-> q.next, currSize |-> 1]
    BY <2>1 DEF enqueue
  <2>3. enqueue(q, j) \in Queue
    BY <2>2 DEF Queue
  <2>4. Represents(enqueue(q, j), new)
    BY <1>1, <2>1, <2>2 DEF Represents
  <2> QED
    BY <1>2, <2>3, <2>4
<1>4. CASE jobs # <<>>
  <2>1. Len(jobs) \in Nat /\ Len(jobs) > 0 /\ q.tail = jobs[Len(jobs)] /\ q.tail \in Jobs /\ q.tail # NULL
    BY <1>4, NullIsNoJob, EmptySeq DEF Represents
  <2>2. enqueue(q, j) = [head |-> q.head, tail |-> j, next |-> [q.next EXCEPT ![q.tail] = j],
                         currSize |-> q.currSize + 1]
    BY <2>1 DEF enqueue
  <2>3. enqueue(q, j) \in Queue
    BY <2>1, <2>2 DEF Queue
  <2>4. \A i \in 1 .. Len(new) :
          enqueue(q, j).next[new[i]] = IF i = Len(new) THEN NULL ELSE new[i + 1]
    <3> TAKE i \in 1 .. Len(new)
    <3>1. CASE i = Len(new)
      BY <1>1, <2>1, <2>2, <3>1 DEF Queue, Queued
    <3>2. CASE i = Len(jobs)
      BY <1>1, <2>1, <2>2, <3>2 DEF Queue
    <3>3. CASE i < Len(jobs)
      BY <1>1, <2>1, <2>2, <3>3 DEF Queue, Distinct, Represents
    <3> QED BY <1>1, <2>1, <3>1, <3>2, <3>3
  <2> QED
    BY <1>1, <1>2, <1>4, <2>1, <2>2, <2>3, <2>4 DEF Represents
<1> QED
  BY <1>2, <1>3, <1>4

\* dequeue returns the job that was queued first and leaves the others in order.
LEMMA DequeueTakesFirst ==
    ASSUME NEW q \in Queue, NEW jobs \in Seq(Jobs),
           Represents(q, jobs), Distinct(jobs), ~isEmpty(q)
    PROVE  /\ jobs # <<>> /\ dequeued(q) = jobs[1] /\ dequeued(q) \in Jobs
           /\ dequeue(q) \in Queue
           /\ Represents(dequeue(q), Tail(jobs))
           /\ Distinct(Tail(jobs))
           /\ Len(Tail(jobs)) = Len(jobs) - 1
           /\ \A i \in 1 .. Len(Tail(jobs)) : Tail(jobs)[i] = jobs[i + 1] /\ jobs[i + 1] # jobs[1]
           /\ \A j \in Jobs : q.next[j] = NULL => dequeue(q).next[j] = NULL
<1> DEFINE rest == Tail(jobs)
<1>1. jobs # <<>> /\ q.head = jobs[1] /\ q.head \in Jobs /\ q.head # NULL
  BY NullIsNoJob, EmptySeq DEF isEmpty, Represents
<1>2. /\ Len(jobs) \in Nat /\ Len(jobs) > 0
      /\ rest \in Seq(Jobs) /\ Len(rest) = Len(jobs) - 1
      /\ \A i \in 1 .. Len(rest) : rest[i] = jobs[i + 1]
  BY <1>1, HeadTailProperties, EmptySeq
<1>a. q.currSize = Len(jobs) /\ q.currSize # 0 /\ q.currSize - 1 \in Nat
  <2>1. q.currSize = Len(jobs)
    BY DEF Represents
  <2> HIDE DEF rest
  <2> QED
    BY <1>2, <2>1
<1>3. dequeued(q) = jobs[1]
  BY <1>1, <1>a DEF dequeued
<1>4. dequeue(q) = [head |-> q.next[q.head],
                    tail |-> IF q.next[q.head] = NULL THEN NULL ELSE q.tail,
                    next |-> [q.next EXCEPT ![q.head] = NULL], currSize |-> q.currSize - 1]
  BY <1>1, <1>3 DEF dequeue
<1>5. dequeue(q) \in Queue
  <2>1. /\ q.next \in [Jobs -> Jobs \cup {NULL}] /\ q.tail \in Jobs \cup {NULL}
        /\ [q.next EXCEPT ![q.head] = NULL] \in [Jobs -> Jobs \cup {NULL}]
    BY DEF Queue
  <2>2. q.next[q.head] \in Jobs \cup {NULL}
    BY <1>1, <2>1
  <2> QED
    BY <1>4, <1>a, <2>1, <2>2 DEF Queue
<1>6. Distinct(rest) /\ \A i \in 1 .. Len(rest) : jobs[i + 1] # jobs[1]
  BY <1>2 DEF Distinct
<1>7. q.next[q.head] = IF Len(jobs) = 1 THEN NULL ELSE jobs[2]
  <2> HIDE DEF rest
  <2>1. 1 \in 1 .. Len(jobs)
    BY <1>2
  <2>2. q.next[jobs[1]] = IF 1 = Len(jobs) THEN NULL ELSE jobs[1 + 1]
    BY <2>1 DEF Represents
  <2> QED
    BY <1>1, <2>2
<1>8. rest = <<>> <=> Len(jobs) = 1
  <2>1. rest = <<>> <=> Len(rest) = 0
    BY <1>2, EmptySeq
  <2> QED
    BY <1>2, <2>1
<1>9. Len(jobs) # 1 => jobs[2] # NULL /\ jobs[2] = rest[1] /\ jobs[Len(jobs)] = rest[Len(rest)]
  BY <1>2, NullIsNoJob
<1>10. \A i \in 1 .. Len(rest) :
         dequeue(q).next[rest[i]] = IF i = Len(rest) THEN NULL ELSE rest[i + 1]
  <2> HIDE DEF rest
  <2> TAKE i \in 1 .. Len(rest)
  <2>1. i + 1 \in 1 .. Len(jobs) /\ rest[i] = jobs[i + 1] /\ jobs[i + 1] # jobs[1]
        /\ jobs[i + 1] \in Jobs
    BY <1>2, <1>6
  <2>2. q.next[jobs[i + 1]] = IF i + 1 = Len(jobs) THEN NULL ELSE jobs[i + 1 + 1]
    BY <2>1 DEF Represents
  <2>3. dequeue(q).next = [q.next EXCEPT ![q.head] = NULL]
    BY <1>4
  <2>4. dequeue(q).next[rest[i]] = q.next[jobs[i + 1]]
    BY <1>1, <2>1, <2>3 DEF Queue
  <2>5. i # Len(rest) => rest[i + 1] = jobs[i + 1 + 1]
    BY <1>2
  <2>6. i = Len(rest) <=> i + 1 = Len(jobs)
    BY <1>2
  <2> QED
    BY <2>2, <2>4, <2>5, <2>6
<1>11. Represents(dequeue(q), rest)
  <2>1. dequeue(q).currSize = Len(rest)
    BY <1>2, <1>4, <1>a
  <2>2. dequeue(q).head = IF rest = <<>> THEN NULL ELSE rest[1]
    BY <1>4, <1>7, <1>8, <1>9
  <2>3. q.tail = jobs[Len(jobs)]
    BY <1>1 DEF Represents
  <2>4. dequeue(q).tail = IF rest = <<>> THEN NULL ELSE rest[Len(rest)]
    BY <1>4, <1>7, <1>8, <1>9, <2>3
  <2> QED
    BY <1>10, <2>1, <2>2, <2>4 DEF Represents
<1>12. \A j \in Jobs : q.next[j] = NULL => dequeue(q).next[j] = NULL
  BY <1>1, <1>4 DEF Queue
<1> QED
  BY <1>1, <1>2, <1>3, <1>5, <1>6, <1>11, <1>12

\* A new cell does not disturb the list.
LEMMA CreateJobKeepsList ==
    ASSUME NEW q \in Queue, NEW jobs \in Seq(Jobs), NEW j \in Jobs,
           Represents(q, jobs), ~Queued(jobs, j)
    PROVE  /\ createJob(q, j) \in Queue /\ createJob(q, j).next[j] = NULL
           /\ createJob(q, j).currSize = q.currSize
           /\ Represents(createJob(q, j), jobs)
  BY DEF createJob, Queue, Represents, Queued

-----------------------------------------------------------------------------
(* The pool *)

HasJob == {"handle", "hung", "close", "free"}

\* Who has a job, as the program counters tell it: the master between createJob
\* and enqueue, a worker from dequeue to free, and the queue.  A job is with
\* one of them only, and is not freed.
MasterJob ==
    /\ mjob # NULL <=> master = "enqueue"
    /\ mjob # NULL => mjob \in live /\ ~Queued(order, mjob) /\ queue.next[mjob] = NULL

QueuedJobs == \A i \in 1 .. Len(order) : order[i] \in live

WorkerJobs ==
    /\ \A w \in Workers : wjob[w] # NULL <=> worker[w] \in HasJob
    /\ \A w \in Workers : wjob[w] # NULL =>
         wjob[w] \in live /\ wjob[w] # mjob /\ ~Queued(order, wjob[w])
    /\ \A v, w \in Workers : wjob[v] # NULL /\ wjob[v] = wjob[w] => v = w

\* No job leaks, and the descriptors of jobs that are not closed are theirs alone.
Descriptors ==
    /\ \A j \in live : j = mjob \/ Queued(order, j) \/ \E w \in Workers : wjob[w] = j
    /\ \A j \in live : jobFd[j] \in Fds
    /\ \A j \in live \ Closed : jobFd[j] \in open
    /\ \A i, j \in live \ Closed : jobFd[i] = jobFd[j] => i = j

ListInv == TypeOK /\ QueueIsList /\ Distinct(order) /\ MasterJob /\ QueuedJobs /\ WorkerJobs

PoolInv == ListInv /\ BoundedLoad

-----------------------------------------------------------------------------
(* Counting workers and queued jobs. *)

\* A set of workers has a number of members, which a member more or less changes
\* by one.
LEMMA WorkerSets ==
    ASSUME NEW S \in SUBSET Workers
    PROVE  /\ Cardinality(S) \in Nat
           /\ \A x : x \notin S => Cardinality(S \cup {x}) = Cardinality(S) + 1
           /\ \A x \in S : Cardinality(S \ {x}) = Cardinality(S) - 1 /\ Cardinality(S) > 0
<1>1. IsFiniteSet(S)
  BY FS_Subset, PoolConstants
<1>2. Cardinality(S) \in Nat
  BY <1>1, FS_CardinalityType
<1>3. \A x : x \notin S => Cardinality(S \cup {x}) = Cardinality(S) + 1
  BY <1>1, FS_AddElement
<1>4. \A x \in S : Cardinality(S \ {x}) = Cardinality(S) - 1 /\ Cardinality(S) > 0
  <2> TAKE x \in S
  <2>1. Cardinality(S \ {x}) = Cardinality(S) - 1
    BY <1>1, FS_RemoveElement
  <2>2. Cardinality(S) # 0
    BY <1>1, FS_EmptySet
  <2> QED
    BY <1>2, <2>1, <2>2
<1> QED
  BY <1>2, <1>3, <1>4

\* The length of the list and its end tell the same: workers test the head,
\* dequeue tests currSize.
LEMMA EmptyIsZero ==
    ASSUME TypeOK, QueueIsList
    PROVE  /\ queue.currSize = Len(order) /\ Len(order) \in Nat
           /\ isEmpty(queue) <=> queue.currSize = 0
<1>1. queue.currSize = Len(order) /\ Len(order) \in Nat /\ order \in Seq(Jobs)
  BY DEF TypeOK, QueueIsList, Represents
<1>2. CASE order = <<>>
  BY <1>1, <1>2 DEF QueueIsList, Represents, isEmpty
<1>3. CASE order # <<>>
  <2>1. Len(order) # 0 /\ order[1] \in Jobs
    BY <1>1, <1>3, EmptySeq
  <2> QED
    BY <1>1, <1>3, <2>1, NullIsNoJob DEF QueueIsList, Represents, isEmpty
<1> QED
  BY <1>2, <1>3

-----------------------------------------------------------------------------
(* The bound on the load *)

\* Every step keeps active_jobs the number of busy workers and the load within
\* queue_size: only the master takes a place, and it looked for one.
LEMMA LoadNext ==
    ASSUME PoolInv, [Next]_vars
    PROVE  BoundedLoad'
<1> USE DEF PoolInv, ListInv
<1>1. /\ queue.currSize \in Nat /\ active_jobs \in Nat /\ MaxSize \in Nat /\ InHand \in {0, 1}
      /\ queue.currSize = Len(order) /\ isEmpty(queue) <=> queue.currSize = 0
  BY EmptyIsZero, PoolConstants DEF TypeOK, Queue, InHand
<1>2. CASE UNCHANGED <<queue, active_jobs>> /\ Busy' = Busy /\ InHand' <= InHand /\ InHand' \in {0, 1}
  BY <1>1, <1>2 DEF BoundedLoad
<1>3. CASE CheckRoom
  <2>1. Busy' = Busy
    BY <1>3 DEF CheckRoom, Busy
  <2>2. InHand' = IF NoRoom THEN 0 ELSE 1
    BY <1>3 DEF CheckRoom, InHand
  <2>3. ~NoRoom => queue.currSize + active_jobs + 1 <= MaxSize
    BY <1>1 DEF NoRoom
  <2>4. UNCHANGED <<queue, active_jobs>>
    BY <1>3 DEF CheckRoom, poolVars
  <2>5. InHand = 0
    BY <1>3 DEF CheckRoom, InHand
  <2> QED
    BY <1>1, <2>1, <2>2, <2>3, <2>4, <2>5 DEF BoundedLoad
<1>4. CASE Accept
  <2>1. Busy' = Busy /\ InHand' = 1 /\ InHand = 1 /\ active_jobs' = active_jobs
    BY <1>4 DEF Accept, Busy, InHand
  <2>2. queue'.currSize = queue.currSize
    BY <1>4 DEF Accept, createJob
  <2> QED
    BY <1>1, <2>1, <2>2 DEF BoundedLoad
<1>5. CASE Enqueue
  <2>1. InHand' = 0 /\ InHand = 1 /\ active_jobs' = active_jobs
    BY <1>5 DEF Enqueue, InHand
  <2>2. queue'.currSize = queue.currSize + 1
    BY <1>5 DEF Enqueue, enqueue
  <2>3. Busy' = Busy
    BY <1>5 DEF Enqueue, Busy, SignalNotEmpty, Asleep, BusyPcs, TypeOK
  <2> QED
    BY <1>1, <2>1, <2>2, <2>3 DEF BoundedLoad
<1>6. ASSUME NEW w \in Workers, TakeJob(w) PROVE BoundedLoad'
  <2>1. w \notin Busy /\ Busy' = Busy \cup {w}
    BY <1>6 DEF TakeJob, Busy, BusyPcs, TypeOK
  <2>2. Cardinality(Busy') = Cardinality(Busy) + 1
    BY <2>1, WorkerSets DEF Busy
  <2>3. active_jobs' = active_jobs + 1 /\ queue.currSize # 0
    BY <1>1, <1>6 DEF TakeJob
  <2>4. dequeued(queue) # NULL
    BY <1>1, <1>6, <2>3 DEF TakeJob, dequeued, isEmpty
  <2>5. queue'.currSize = queue.currSize - 1
    BY <1>6, <2>4 DEF TakeJob, dequeue
  <2>6. InHand' = InHand
    BY <1>6 DEF TakeJob, SignalNotFull, InHand
  <2> QED
    BY <1>1, <2>2, <2>3, <2>5, <2>6 DEF BoundedLoad
<1>7. ASSUME NEW w \in Workers, FinishJob(w) PROVE BoundedLoad'
  <2>1. w \in Busy /\ Busy' = Busy \ {w}
    BY <1>7 DEF FinishJob, Busy, BusyPcs, TypeOK
  <2>2. Cardinality(Busy') = Cardinality(Busy) - 1
    BY <2>1, WorkerSets DEF Busy
  <2>3. active_jobs' = active_jobs - 1 /\ queue' = queue
    BY <1>7 DEF FinishJob
  <2>4. InHand' = InHand
    BY <1>7 DEF FinishJob, SignalNotFull, InHand
  <2> QED
    BY <1>1, <2>2, <2>3, <2>4 DEF BoundedLoad
<1>8. CASE AcceptFails \/ SpuriousWakeup \/ UNCHANGED vars
  <2>1. UNCHANGED <<queue, active_jobs>>
    BY <1>8 DEF AcceptFails, SpuriousWakeup, vars, poolVars
  <2>2. Busy' = Busy
    BY <1>8 DEF AcceptFails, SpuriousWakeup, vars, Busy, Asleep, BusyPcs, TypeOK
  <2>3. InHand' = InHand
    BY <1>8 DEF AcceptFails, SpuriousWakeup, vars, InHand
  <2> QED
    BY <1>1, <1>2, <2>1, <2>2, <2>3
<1>9. ASSUME NEW w \in Workers, WaitForJob(w) \/ requestHandle(w) \/ CloseJob(w) \/ FreeJob(w)
      PROVE  BoundedLoad'
  <2>1. UNCHANGED <<queue, active_jobs>> /\ InHand' = InHand
    BY <1>9 DEF WaitForJob, requestHandle, CloseJob, FreeJob, poolVars, InHand
  <2>2. Busy' = Busy
    BY <1>9 DEF WaitForJob, requestHandle, CloseJob, FreeJob, Busy, BusyPcs, TypeOK
  <2> QED
    BY <1>1, <1>2, <2>1, <2>2
<1> QED
  BY <1>3, <1>4, <1>5, <1>6, <1>7, <1>8, <1>9 DEF Next, WorkerStep

-----------------------------------------------------------------------------
(* The list, and who has which job *)

\* Steps that leave the jobs where they are.
LEMMA QuietSteps ==
    ASSUME PoolInv,
           \/ CheckRoom \/ AcceptFails \/ SpuriousWakeup \/ UNCHANGED vars
           \/ \E w \in Workers : WaitForJob(w) \/ requestHandle(w) \/ CloseJob(w) \/ FinishJob(w)
    PROVE  ListInv'
<1> USE DEF PoolInv, ListInv
<1>1. UNCHANGED <<queue, jobFd, live, mjob, wjob, order>> /\ open' \subseteq open
  BY DEF CheckRoom, AcceptFails, SpuriousWakeup, WaitForJob, requestHandle, CloseJob, FinishJob, vars, poolVars
<1>2. active_jobs' \in Nat
  <2>1. CASE \E w \in Workers : FinishJob(w)
    <3>1. PICK w \in Workers : FinishJob(w)
      BY <2>1
    <3>2. w \in Busy
      BY <3>1 DEF FinishJob, Busy, BusyPcs
    <3>3. active_jobs > 0
      BY <3>2, WorkerSets DEF Busy, BoundedLoad
    <3> QED
      BY <3>1, <3>3 DEF FinishJob, TypeOK
  <2>2. CASE ~\E w \in Workers : FinishJob(w)
    <3>1. active_jobs' = active_jobs
      BY <2>2 DEF CheckRoom, AcceptFails, SpuriousWakeup, WaitForJob, requestHandle, CloseJob, vars, poolVars
    <3> QED
      BY <3>1 DEF TypeOK
  <2> QED
    BY <2>1, <2>2
<1> DEFINE PcsKept ==
      /\ master' \in MasterPcs /\ worker' \in [Workers -> WorkerPcs] /\ running' \in BOOLEAN
      /\ master' = "enqueue" <=> master = "enqueue"
      /\ \A w \in Workers : worker'[w] \in HasJob <=> worker[w] \in HasJob
<1>3. PcsKept
  <2> USE DEF TypeOK, MasterPcs, WorkerPcs, BusyPcs, HasJob
  <2>1. CASE CheckRoom
    BY <2>1 DEF CheckRoom
  <2>2. CASE AcceptFails
    BY <2>2 DEF AcceptFails
  <2>3. CASE SpuriousWakeup
    BY <2>3 DEF SpuriousWakeup, Asleep
  <2>4. CASE UNCHANGED vars
    BY <2>4 DEF vars
  <2>5. ASSUME NEW w \in Workers, WaitForJob(w) PROVE PcsKept
    BY <2>5 DEF WaitForJob
  <2>6. ASSUME NEW w \in Workers, requestHandle(w) PROVE PcsKept
    BY <2>6 DEF requestHandle
  <2>7. ASSUME NEW w \in Workers, FinishJob(w) PROVE PcsKept
    BY <2>7 DEF FinishJob, SignalNotFull
  <2>8. ASSUME NEW w \in Workers, CloseJob(w) PROVE PcsKept
    BY <2>8 DEF CloseJob
  <2> QED
    BY <2>1, <2>2, <2>3, <2>4, <2>5, <2>6, <2>7, <2>8
<1>4. TypeOK'
  BY <1>1, <1>2, <1>3 DEF TypeOK
<1>5. QueueIsList' /\ Distinct(order)'
  BY <1>1 DEF QueueIsList
<1>6. MasterJob' /\ QueuedJobs'
  BY <1>1, <1>3 DEF MasterJob, QueuedJobs
<1>7. WorkerJobs'
  BY <1>1, <1>3 DEF WorkerJobs
<1> QED
  BY <1>4, <1>5, <1>6, <1>7

\* Accept and createJob bring a job nobody has.
LEMMA AcceptStep ==
    ASSUME PoolInv, Accept
    PROVE  ListInv'
<1> USE DEF PoolInv, ListInv
<1>1. PICK fd \in Fds \ open, j \in Jobs \ live :
        /\ open' = open \cup {fd} /\ live' = live \cup {j}
        /\ jobFd' = [jobFd EXCEPT ![j] = fd]
        /\ queue' = createJob(queue, j) /\ mjob' = j
  BY DEF Accept
<1>2. /\ master' = "enqueue" /\ mjob = NULL
      /\ UNCHANGED <<active_jobs, worker, wjob, order, running>>
  BY DEF Accept, MasterJob
<1>3. ~Queued(order, j)
  BY DEF QueuedJobs, Queued
<1>4. /\ queue' \in Queue /\ queue'.next[j] = NULL
      /\ Represents(queue', order)
  BY <1>1, <1>3, CreateJobKeepsList DEF TypeOK, QueueIsList
<1>5. TypeOK'
  BY <1>1, <1>2, <1>4 DEF TypeOK, MasterPcs
<1>6. QueueIsList' /\ Distinct(order)'
  BY <1>2, <1>4 DEF QueueIsList
<1>7. MasterJob' /\ QueuedJobs'
  BY <1>1, <1>2, <1>3, <1>4, NullIsNoJob DEF MasterJob, QueuedJobs
<1>8. WorkerJobs'
  BY <1>1, <1>2 DEF WorkerJobs
<1> QED
  BY <1>5, <1>6, <1>7, <1>8

\* enqueue hands the job of the master to the queue.
LEMMA EnqueueStep ==
    ASSUME PoolInv, Enqueue
    PROVE  ListInv'
<1> USE DEF PoolInv, ListInv
<1>1. /\ mjob \in Jobs /\ mjob \in live /\ ~Queued(order, mjob) /\ queue.next[mjob] = NULL
      /\ mjob' = NULL /\ master' = "check"
      /\ queue' = enqueue(queue, mjob) /\ order' = Append(order, mjob)
      /\ UNCHANGED <<jobFd, live, open, active_jobs, wjob, running>>
  BY DEF Enqueue, MasterJob, TypeOK
<1>2. /\ queue' \in Queue /\ Represents(queue', order') /\ Distinct(order')
  BY <1>1, EnqueueAppends DEF TypeOK, QueueIsList
<1>3. /\ order \in Seq(Jobs) /\ order' \in Seq(Jobs) /\ Len(order') = Len(order) + 1 /\ Len(order) \in Nat
      /\ \A i \in 1 .. Len(order) : order'[i] = order[i]
      /\ order'[Len(order) + 1] = mjob
  BY <1>1, AppendProperties DEF TypeOK
<1>4. /\ worker' \in [Workers -> WorkerPcs]
      /\ \A w \in Workers : worker'[w] \in HasJob <=> worker[w] \in HasJob
  BY DEF Enqueue, SignalNotEmpty, Asleep, TypeOK, WorkerPcs, BusyPcs, HasJob
<1>5. TypeOK'
  BY <1>1, <1>2, <1>3, <1>4 DEF TypeOK, MasterPcs
<1>6. QueueIsList' /\ Distinct(order)'
  BY <1>2 DEF QueueIsList
<1>7. MasterJob'
  BY <1>1 DEF MasterJob
<1>8. QueuedJobs'
  BY <1>1, <1>3 DEF QueuedJobs
<1>9. ASSUME NEW j, j # mjob, ~Queued(order, j) PROVE ~Queued(order', j)
  BY <1>3, <1>9 DEF Queued
<1>10. WorkerJobs'
  <2>1. \A w \in Workers : wjob'[w] # NULL <=> worker'[w] \in HasJob
    BY <1>1, <1>4 DEF WorkerJobs
  <2>2. \A w \in Workers : wjob'[w] # NULL => wjob'[w] \in live' /\ wjob'[w] # mjob' /\ ~Queued(order', wjob'[w])
    BY <1>1, <1>9 DEF WorkerJobs
  <2> QED
    BY <1>1, <2>1, <2>2 DEF WorkerJobs
<1> QED
  BY <1>5, <1>6, <1>7, <1>8, <1>10

\* dequeue hands the first job of the queue to a worker.
LEMMA TakeJobStep ==
    ASSUME PoolInv, NEW w \in Workers, TakeJob(w)
    PROVE  ListInv'
<1> USE DEF PoolInv, ListInv
<1> DEFINE j == dequeued(queue)
<1>1. /\ queue' = dequeue(queue) /\ order' = Tail(order) /\ active_jobs' = active_jobs + 1
      /\ wjob' = [wjob EXCEPT ![w] = j] /\ worker' = [worker EXCEPT ![w] = "handle"]
      /\ UNCHANGED <<jobFd, live, open, mjob, running>>
      /\ worker[w] = "take" /\ ~isEmpty(queue)
  BY DEF TakeJob
<1>2. /\ order # <<>> /\ j = order[1] /\ j \in Jobs
      /\ queue' \in Queue /\ Represents(queue', order') /\ Distinct(order')
      /\ Len(order') = Len(order) - 1
      /\ \A i \in 1 .. Len(order') : order'[i] = order[i + 1] /\ order[i + 1] # j
      /\ \A k \in Jobs : queue.next[k] = NULL => queue'.next[k] = NULL
  BY <1>1, DequeueTakesFirst DEF TypeOK, QueueIsList
<1>3. order \in Seq(Jobs) /\ order' \in Seq(Jobs) /\ Len(order) \in Nat /\ Len(order) > 0
  BY <1>1, <1>2, HeadTailProperties, EmptySeq DEF TypeOK
<1> HIDE DEF j
<1>4. Queued(order, j) /\ j \in live /\ j # mjob /\ j # NULL
  BY <1>2, <1>3, NullIsNoJob DEF Queued, QueuedJobs, MasterJob
<1>5. ~Queued(order', j)
  BY <1>2, <1>3 DEF Queued
<1>6. ASSUME NEW k, ~Queued(order, k) PROVE ~Queued(order', k)
  BY <1>2, <1>3, <1>6 DEF Queued
<1>7. /\ master' \in MasterPcs /\ (master' = "enqueue" <=> master = "enqueue")
  BY DEF TakeJob, SignalNotFull, TypeOK, MasterPcs
<1>8. TypeOK'
  BY <1>1, <1>2, <1>3, <1>7 DEF TypeOK, WorkerPcs, BusyPcs
<1>9. QueueIsList' /\ Distinct(order)'
  BY <1>2 DEF QueueIsList
<1>10. MasterJob'
  BY <1>1, <1>2, <1>6, <1>7 DEF MasterJob, TypeOK
<1>11. QueuedJobs'
  BY <1>1, <1>2, <1>3 DEF QueuedJobs
<1>12. WorkerJobs'
  <2>1. \A v \in Workers : v # w => wjob'[v] = wjob[v] /\ worker'[v] = worker[v]
    BY <1>1 DEF TypeOK
  <2>2. wjob'[w] = j /\ worker'[w] \in HasJob
    BY <1>1 DEF TypeOK, HasJob
  <2>3. \A v \in Workers : wjob'[v] # NULL <=> worker'[v] \in HasJob
    BY <1>4, <2>1, <2>2 DEF WorkerJobs
  <2>4. \A v \in Workers : wjob'[v] # NULL => wjob'[v] \in live' /\ wjob'[v] # mjob' /\ ~Queued(order', wjob'[v])
    BY <1>1, <1>4, <1>5, <1>6, <2>1, <2>2 DEF WorkerJobs
  <2>5. \A u, v \in Workers : wjob'[u] # NULL /\ wjob'[u] = wjob'[v] => u = v
    BY <1>4, <2>1, <2>2 DEF WorkerJobs
  <2> QED
    BY <2>3, <2>4, <2>5 DEF WorkerJobs
<1> QED
  BY <1>8, <1>9, <1>10, <1>11, <1>12

\* A worker frees its own job.
LEMMA FreeJobStep ==
    ASSUME PoolInv, NEW w \in Workers, FreeJob(w)
    PROVE  ListInv'
<1> USE DEF PoolInv, ListInv
<1>1. /\ live' = live \ {wjob[w]}
      /\ wjob' = [wjob EXCEPT ![w] = NULL] /\ worker' = [worker EXCEPT ![w] = "finish"]
      /\ UNCHANGED <<queue, jobFd, open, active_jobs, master, mjob, order, running>>
      /\ worker[w] = "free"
  BY DEF FreeJob
<1>2. wjob[w] # NULL /\ wjob[w] # mjob /\ ~Queued(order, wjob[w])
  BY <1>1 DEF WorkerJobs, HasJob
<1>3. TypeOK'
  BY <1>1 DEF TypeOK, WorkerPcs, BusyPcs
<1>4. QueueIsList' /\ Distinct(order)'
  BY <1>1 DEF QueueIsList
<1>5. MasterJob'
  BY <1>1, <1>2 DEF MasterJob
<1>6. QueuedJobs'
  BY <1>1, <1>2 DEF QueuedJobs, Queued
<1>7. WorkerJobs'
  <2>1. \A v \in Workers : v # w => wjob'[v] = wjob[v] /\ worker'[v] = worker[v]
    BY <1>1 DEF TypeOK
  <2>2. wjob'[w] = NULL /\ worker'[w] \notin HasJob
    BY <1>1 DEF TypeOK, HasJob
  <2>3. \A v \in Workers : v # w /\ wjob[v] # NULL => wjob[v] # wjob[w]
    BY DEF WorkerJobs
  <2> QED
    BY <1>1, <2>1, <2>2, <2>3 DEF WorkerJobs
<1> QED
  BY <1>3, <1>4, <1>5, <1>6, <1>7

\* Initially there is no job.
LEMMA PoolInit == Init => PoolInv
<1> SUFFICES ASSUME Init PROVE PoolInv
  OBVIOUS
<1> USE DEF Init, createQueue
<1>1. TypeOK
  BY DEF TypeOK, Queue, MasterPcs, WorkerPcs
<1>2. QueueIsList /\ Distinct(order) /\ QueuedJobs
  BY DEF QueueIsList, Represents, Distinct, QueuedJobs
<1>3. MasterJob /\ WorkerJobs
  BY DEF MasterJob, WorkerJobs, HasJob
<1>4. BoundedLoad
  <2>1. Busy = {}
    BY DEF Busy, BusyPcs
  <2> QED
    BY <2>1, FS_EmptySet, PoolConstants DEF BoundedLoad, InHand
<1> QED
  BY <1>1, <1>2, <1>3, <1>4 DEF PoolInv, ListInv

\* The invariant of the pool is inductive.
LEMMA PoolNext == PoolInv /\ [Next]_vars => PoolInv'
<1> SUFFICES ASSUME PoolInv, [Next]_vars PROVE PoolInv'
  OBVIOUS
<1>1. BoundedLoad'
  BY LoadNext
<1>2. ListInv'
  BY QuietSteps, AcceptStep, EnqueueStep, TakeJobStep, FreeJobStep DEF Next, WorkerStep
<1> QED
  BY <1>1, <1>2 DEF PoolInv

\* The invariant holds in every reachable state.
THEOREM PoolCorrect == Spec => []PoolInv
  BY PoolInit, PoolNext, PTL DEF Spec

\* The state of the pool has its types: no counter of server.c or queue.c falls
\* below zero.
THEOREM PoolTypes == Spec => []TypeOK
<1>1. PoolInv => TypeOK
  BY DEF PoolInv, ListInv
<1> QED
  BY <1>1, PoolCorrect, PTL

\* The server never holds more than queue_size connections.
THEOREM BoundedLoadHolds == Spec => []BoundedLoad
<1>1. PoolInv => BoundedLoad
  BY DEF PoolInv
<1> QED
  BY <1>1, PoolCorrect, PTL

\* The linked list of queue.c always holds the queued jobs in their order.
THEOREM QueueIsListHolds == Spec => []QueueIsList
<1>1. PoolInv => QueueIsList
  BY DEF PoolInv, ListInv
<1> QED
  BY <1>1, PoolCorrect, PTL

-----------------------------------------------------------------------------
(* The condition variables *)

\* The master is woken by every step that makes room.
LEMMA MasterWakeup ==
    ASSUME PoolInv, NoLostWakeup, [Next]_vars
    PROVE  master' = "wait" => NoRoom'
<1> USE DEF PoolInv, ListInv
<1>1. CASE CheckRoom
  <2>1. UNCHANGED <<queue, active_jobs>> /\ (master' = "wait" => NoRoom)
    BY <1>1 DEF CheckRoom, poolVars
  <2> QED
    BY <2>1 DEF NoRoom
<1>2. CASE Accept \/ Enqueue \/ \E w \in Workers : TakeJob(w) \/ FinishJob(w)
  <2>1. master' # "wait"
    BY <1>2 DEF Accept, Enqueue, TakeJob, FinishJob, SignalNotFull
  <2> QED
    BY <2>1
<1>3. CASE \/ AcceptFails \/ SpuriousWakeup \/ UNCHANGED vars
           \/ \E w \in Workers : WaitForJob(w) \/ requestHandle(w) \/ CloseJob(w) \/ FreeJob(w)
  <2>1. UNCHANGED <<queue, active_jobs>> /\ (master' = "wait" => master = "wait")
    BY <1>3 DEF AcceptFails, SpuriousWakeup, WaitForJob, requestHandle, CloseJob, FreeJob, vars, poolVars
  <2> QED
    BY <2>1 DEF NoRoom, NoLostWakeup
<1> QED
  BY <1>1, <1>2, <1>3 DEF Next, WorkerStep

\* While workers sleep there are enough awake ones for the jobs in the queue.
LEMMA WorkerWakeup ==
    ASSUME PoolInv, NoLostWakeup, [Next]_vars
    PROVE  Asleep' # {} => queue'.currSize <= Cardinality(Takers')
<1> USE DEF PoolInv, ListInv
<1>1. /\ queue.currSize \in Nat /\ Cardinality(Takers) \in Nat
      /\ isEmpty(queue) <=> queue.currSize = 0
  BY EmptyIsZero, WorkerSets DEF TypeOK, Queue, Takers
<1>2. CASE Enqueue
  <2>1. queue'.currSize = queue.currSize + 1
    BY <1>2 DEF Enqueue, enqueue
  <2>2. CASE Asleep = {}
    <3>1. Asleep' = {}
      BY <1>2, <2>2 DEF Enqueue, SignalNotEmpty, Asleep
    <3> QED
      BY <3>1
  <2>3. ASSUME NEW w \in Asleep, worker' = [worker EXCEPT ![w] = "take"]
        PROVE  queue'.currSize <= Cardinality(Takers')
    <3>1. w \notin Takers /\ Takers' = Takers \cup {w}
      BY <2>3 DEF Takers, Asleep, TypeOK
    <3>2. Cardinality(Takers') = Cardinality(Takers) + 1
      BY <3>1, WorkerSets DEF Takers
    <3>3. queue.currSize <= Cardinality(Takers)
      BY <2>3 DEF NoLostWakeup
    <3> QED
      BY <1>1, <2>1, <3>2, <3>3
  <2> QED
    BY <1>2, <2>2, <2>3 DEF Enqueue, SignalNotEmpty
<1>3. ASSUME NEW w \in Workers, TakeJob(w) PROVE Asleep' # {} => queue'.currSize <= Cardinality(Takers')
  <2>1. w \in Takers /\ Takers' = Takers \ {w} /\ Asleep' = Asleep
    BY <1>3 DEF TakeJob, Takers, Asleep, TypeOK
  <2>2. Cardinality(Takers') = Cardinality(Takers) - 1
    BY <2>1, WorkerSets DEF Takers
  <2>3. dequeued(queue) # NULL
    BY <1>1, <1>3 DEF TakeJob, dequeued, isEmpty
  <2>4. queue'.currSize = queue.currSize - 1
    BY <1>3, <2>3 DEF TakeJob, dequeue
  <2> QED
    BY <1>1, <2>1, <2>2, <2>4 DEF NoLostWakeup
<1>4. ASSUME NEW w \in Workers, WaitForJob(w) PROVE Asleep' # {} => queue'.currSize <= Cardinality(Takers')
  <2>1. queue' = queue /\ queue.currSize = 0
    BY <1>1, <1>4 DEF WaitForJob, poolVars
  <2>2. Cardinality(Takers') \in Nat
    BY WorkerSets DEF Takers
  <2> QED
    BY <2>1, <2>2
<1>5. ASSUME NEW w \in Workers, w \notin Takers, worker' = [worker EXCEPT ![w] = "take"],
             queue' = queue
      PROVE  Asleep' # {} => queue'.currSize <= Cardinality(Takers')
  <2>1. Takers' = Takers \cup {w} /\ Asleep' \subseteq Asleep
    BY <1>5 DEF Takers, Asleep, TypeOK
  <2>2. Cardinality(Takers') = Cardinality(Takers) + 1
    BY <1>5, <2>1, WorkerSets DEF Takers
  <2>3. Asleep' # {} => queue.currSize <= Cardinality(Takers)
    BY <2>1 DEF NoLostWakeup
  <2> QED
    BY <1>1, <1>5, <2>2, <2>3
<1>6. CASE \E w \in Workers : FinishJob(w)
  BY <1>5, <1>6 DEF FinishJob, Takers
<1>7. CASE \E w \in Asleep : worker' = [worker EXCEPT ![w] = "take"] /\ queue' = queue
  BY <1>5, <1>7 DEF Asleep, Takers
<1>8. CASE Takers' = Takers /\ Asleep' = Asleep /\ queue'.currSize = queue.currSize
  BY <1>8 DEF NoLostWakeup
<1>9. CASE SpuriousWakeup
  <2>1. queue' = queue
    BY <1>9 DEF SpuriousWakeup, poolVars
  <2>2. CASE worker' = worker
    BY <1>8, <2>1, <2>2 DEF Takers, Asleep
  <2> QED
    BY <1>7, <1>9, <2>1, <2>2 DEF SpuriousWakeup
<1>10. CASE \/ CheckRoom \/ AcceptFails \/ Accept \/ UNCHANGED vars
  <2>1. worker' = worker /\ queue'.currSize = queue.currSize
    BY <1>10 DEF CheckRoom, AcceptFails, Accept, createJob, vars, poolVars
  <2> QED
    BY <1>8, <2>1 DEF Takers, Asleep
<1>11. ASSUME NEW w \in Workers, requestHandle(w) \/ CloseJob(w) \/ FreeJob(w)
       PROVE  Asleep' # {} => queue'.currSize <= Cardinality(Takers')
  <2>1. queue' = queue
    BY <1>11 DEF requestHandle, CloseJob, FreeJob, poolVars
  <2>2. Takers' = Takers /\ Asleep' = Asleep
    BY <1>11 DEF requestHandle, CloseJob, FreeJob, Takers, Asleep, TypeOK
  <2> QED
    BY <1>8, <2>1, <2>2
<1> QED
  BY <1>2, <1>3, <1>4, <1>6, <1>9, <1>10, <1>11 DEF Next, WorkerStep

\* No thread of the server sleeps through the signal it waits for.
THEOREM NoLostWakeupHolds == Spec => []NoLostWakeup
<1>1. Init => NoLostWakeup
  BY DEF Init, NoLostWakeup, Asleep
<1>2. PoolInv /\ NoLostWakeup /\ [Next]_vars => NoLostWakeup'
  BY MasterWakeup, WorkerWakeup DEF NoLostWakeup
<1> QED
  BY <1>1, <1>2, PoolCorrect, PTL DEF Spec

-----------------------------------------------------------------------------
(* The owners of jobs and descriptors *)

\* Only CloseJob and FreeJob change who has closed its job.
LEMMA StillOpen ==
    ASSUME TypeOK,
           \/ CheckRoom \/ AcceptFails \/ SpuriousWakeup \/ Accept \/ Enqueue \/ UNCHANGED vars
           \/ \E w \in Workers : WaitForJob(w) \/ TakeJob(w) \/ requestHandle(w) \/ FinishJob(w)
    PROVE  \A v \in Workers : worker'[v] = "free" <=> worker[v] = "free"
<1>1. CASE CheckRoom \/ AcceptFails \/ SpuriousWakeup \/ Accept \/ Enqueue \/ UNCHANGED vars
  BY <1>1 DEF CheckRoom, AcceptFails, SpuriousWakeup, Accept, Enqueue, SignalNotEmpty, Asleep, TypeOK, vars
<1>2. ASSUME NEW w \in Workers, WaitForJob(w) \/ TakeJob(w) \/ requestHandle(w) \/ FinishJob(w)
      PROVE  \A v \in Workers : worker'[v] = "free" <=> worker[v] = "free"
  BY <1>2 DEF WaitForJob, TakeJob, requestHandle, FinishJob, TypeOK
<1> QED
  BY <1>1, <1>2

\* A job that is closed is with the worker that closed it.
LEMMA ClosedIs ==
    ASSUME PoolInv, NEW j
    PROVE  /\ j \in Closed <=> \E v \in Workers : worker[v] = "free" /\ wjob[v] = j
           /\ j \in Closed => j \in live /\ j # mjob /\ ~Queued(order, j)
           /\ \A v \in Workers : wjob[v] # NULL => (wjob[v] \in Closed <=> worker[v] = "free")
<1> USE DEF PoolInv, ListInv
<1>1. \A i : i \in Closed <=> \E v \in Workers : worker[v] = "free" /\ wjob[v] = i
  BY DEF Closed
<1> QED
  BY <1>1 DEF WorkerJobs, HasJob

\* Every step keeps the descriptors of jobs apart and leaks no job.
LEMMA DescriptorsNext ==
    ASSUME PoolInv, Descriptors, [Next]_vars
    PROVE  Descriptors'
<1> USE DEF PoolInv, ListInv
<1>1. ASSUME UNCHANGED wjob, \A v \in Workers : worker'[v] = "free" <=> worker[v] = "free"
      PROVE  Closed' = Closed
  BY <1>1 DEF Closed
<1>2. CASE \/ CheckRoom \/ AcceptFails \/ SpuriousWakeup \/ UNCHANGED vars
           \/ \E w \in Workers : WaitForJob(w) \/ requestHandle(w) \/ FinishJob(w)
  <2>1. UNCHANGED <<jobFd, live, open, mjob, wjob, order>>
    BY <1>2 DEF CheckRoom, AcceptFails, SpuriousWakeup, WaitForJob, requestHandle, FinishJob, vars, poolVars
  <2>2. Closed' = Closed
    BY <1>1, <1>2, <2>1, StillOpen
  <2> QED
    BY <2>1, <2>2 DEF Descriptors
<1>3. CASE Accept
  <2>1. PICK fd \in Fds \ open, j \in Jobs \ live :
          /\ open' = open \cup {fd} /\ live' = live \cup {j}
          /\ jobFd' = [jobFd EXCEPT ![j] = fd] /\ mjob' = j
    BY <1>3 DEF Accept
  <2>2. mjob = NULL /\ UNCHANGED <<wjob, order>>
    BY <1>3 DEF Accept, MasterJob
  <2>3. jobFd'[j] = fd /\ \A k \in live : jobFd'[k] = jobFd[k]
    BY <2>1 DEF TypeOK
  <2>4. \A k \in live : k # NULL
    BY NullIsNoJob DEF TypeOK
  <2>5. \A k \in live' : k = mjob' \/ Queued(order', k) \/ \E w \in Workers : wjob'[w] = k
    BY <2>1, <2>2, <2>4 DEF Descriptors
  <2>6. Closed' = Closed
    BY <1>1, <1>3, <2>2, StillOpen
  <2>7. \A k \in live' : jobFd'[k] \in Fds
    BY <2>1, <2>3 DEF Descriptors
  <2>8. \A k \in live' \ Closed' : jobFd'[k] \in open'
    BY <2>1, <2>3, <2>6 DEF Descriptors
  <2>9. \A i, k \in live' \ Closed' : jobFd'[i] = jobFd'[k] => i = k
    BY <2>1, <2>3, <2>6 DEF Descriptors
  <2> QED
    BY <2>5, <2>7, <2>8, <2>9 DEF Descriptors
<1>4. CASE Enqueue
  <2>1. /\ mjob \in Jobs /\ order' = Append(order, mjob) /\ order \in Seq(Jobs)
        /\ UNCHANGED <<jobFd, live, open, wjob>>
    BY <1>4 DEF Enqueue, MasterJob, TypeOK
  <2>2. /\ Len(order') = Len(order) + 1 /\ Len(order) \in Nat /\ order'[Len(order) + 1] = mjob
        /\ \A i \in 1 .. Len(order) : order'[i] = order[i]
    BY <2>1, AppendProperties
  <2>3. Queued(order', mjob) /\ \A k \in live : Queued(order, k) => Queued(order', k)
    BY <2>2 DEF Queued
  <2>4. Closed' = Closed
    BY <1>1, <1>4, <2>1, StillOpen
  <2> QED
    BY <2>1, <2>3, <2>4 DEF Descriptors
<1>5. ASSUME NEW w \in Workers, TakeJob(w) PROVE Descriptors'
  <2>1. /\ order' = Tail(order) /\ wjob' = [wjob EXCEPT ![w] = dequeued(queue)]
        /\ UNCHANGED <<jobFd, live, open, mjob>> /\ worker[w] = "take" /\ ~isEmpty(queue)
    BY <1>5 DEF TakeJob
  <2>2. /\ dequeued(queue) = order[1] /\ Len(order') = Len(order) - 1
        /\ \A i \in 1 .. Len(order') : order'[i] = order[i + 1]
    BY <2>1, DequeueTakesFirst DEF TypeOK, QueueIsList
  <2>3. Len(order) \in Nat
    BY DEF TypeOK
  <2>4. \A k \in live : Queued(order, k) => Queued(order', k) \/ k = dequeued(queue)
    <3> SUFFICES ASSUME NEW k \in live, NEW i \in 1 .. Len(order), order[i] = k, i # 1
                 PROVE  Queued(order', k)
      BY <2>2 DEF Queued
    <3>1. i - 1 \in 1 .. Len(order') /\ order'[i - 1] = k
      BY <2>2, <2>3
    <3> QED
      BY <3>1 DEF Queued
  <2>5. wjob[w] = NULL /\ wjob'[w] = dequeued(queue) /\ \A v \in Workers : v # w => wjob'[v] = wjob[v]
    BY <2>1 DEF WorkerJobs, HasJob, TypeOK
  <2>6. \A k \in live : k # NULL
    BY NullIsNoJob DEF TypeOK
  <2>7. \A k \in live' : k = mjob' \/ Queued(order', k) \/ \E v \in Workers : wjob'[v] = k
    BY <2>1, <2>4, <2>5, <2>6 DEF Descriptors
  <2>8. Closed' = Closed
    <3>1. \A v \in Workers : worker'[v] = "free" <=> worker[v] = "free"
      BY <1>5, StillOpen
    <3> QED
      BY <2>1, <2>5, <3>1 DEF Closed
  <2> QED
    BY <2>1, <2>7, <2>8 DEF Descriptors
<1>6. ASSUME NEW w \in Workers, CloseJob(w) PROVE Descriptors'
  <2>1. /\ open' = open \ {jobFd[wjob[w]]} /\ worker[w] = "close" /\ worker' = [worker EXCEPT ![w] = "free"]
        /\ UNCHANGED <<jobFd, live, mjob, wjob, order>>
    BY <1>6 DEF CloseJob
  <2>2. wjob[w] \in live \ Closed
    BY <2>1, ClosedIs DEF WorkerJobs, HasJob
  <2>3. Closed' = Closed \cup {wjob[w]}
    <3>1. worker'[w] = "free" /\ \A v \in Workers : v # w => worker'[v] = worker[v]
      BY <2>1 DEF TypeOK
    <3> QED
      BY <2>1, <3>1 DEF Closed
  <2> QED
    BY <2>1, <2>2, <2>3 DEF Descriptors
<1>7. ASSUME NEW w \in Workers, FreeJob(w) PROVE Descriptors'
  <2>1. /\ live' = live \ {wjob[w]} /\ wjob' = [wjob EXCEPT ![w] = NULL]
        /\ worker' = [worker EXCEPT ![w] = "finish"]
        /\ UNCHANGED <<jobFd, open, mjob, order>> /\ worker[w] = "free"
    BY <1>7 DEF FreeJob
  <2>2. wjob[w] \in live
    BY <2>1 DEF WorkerJobs, HasJob
  <2>3. \A v \in Workers : v # w => wjob'[v] = wjob[v] /\ worker'[v] = worker[v]
    BY <2>1 DEF TypeOK
  <2>4. \A k \in live' : k = mjob' \/ Queued(order', k) \/ \E v \in Workers : wjob'[v] = k
    BY <2>1, <2>3 DEF Descriptors
  <2>5. Closed \subseteq Closed' \cup {wjob[w]} /\ wjob[w] \in Closed
    BY <2>1, <2>3 DEF Closed
  <2>6. live' \ Closed' \subseteq live \ Closed
    BY <2>1, <2>5
  <2> QED
    BY <2>1, <2>4, <2>6 DEF Descriptors
<1> QED
  BY <1>2, <1>3, <1>4, <1>5, <1>6, <1>7 DEF Next, WorkerStep

\* A job that is not freed has one holder, and a freed one none.
LEMMA HolderCount ==
    ASSUME PoolInv, Descriptors, NEW j \in Jobs
    PROVE  Cardinality(Holder(j)) = IF j \in live THEN 1 ELSE 0
<1> USE DEF PoolInv, ListInv
<1>1. j # NULL
  BY NullIsNoJob
<1>2. CASE j \notin live
  <2>1. Holder(j) = {}
    BY <1>1, <1>2 DEF Holder, MasterJob, QueuedJobs, WorkerJobs
  <2> QED
    BY <1>2, <2>1, FS_EmptySet
<1>3. CASE j \in live /\ mjob = j
  <2>1. Holder(j) = {"master"}
    BY <1>1, <1>3 DEF Holder, MasterJob, Queued, WorkerJobs
  <2> QED
    BY <1>3, <2>1, FS_Singleton
<1>4. CASE j \in live /\ Queued(order, j)
  <2>1. PICK i \in 1 .. Len(order) : order[i] = j
    BY <1>4 DEF Queued
  <2>2. Holder(j) = {i}
    BY <1>1, <1>4, <2>1 DEF Holder, MasterJob, Distinct, WorkerJobs
  <2> QED
    BY <1>4, <2>2, FS_Singleton
<1>5. CASE j \in live /\ \E w \in Workers : wjob[w] = j
  <2>1. PICK w \in Workers : wjob[w] = j
    BY <1>5
  <2>2. Holder(j) = {w}
    BY <1>1, <2>1 DEF Holder, Queued, WorkerJobs
  <2> QED
    BY <1>5, <2>2, FS_Singleton
<1> QED
  BY <1>2, <1>3, <1>4, <1>5 DEF Descriptors

\* Every job has exactly one owner, and so has its descriptor until it is closed,
\* although no lock is held from close to free.
THEOREM OneOwnerHolds == Spec => []OneOwner
<1>1. Init => Descriptors
  BY DEF Init, Descriptors
<1>2. PoolInv /\ Descriptors /\ [Next]_vars => Descriptors'
  BY DescriptorsNext
<1>3. PoolInv /\ Descriptors => OneOwner
  BY HolderCount DEF OneOwner, Descriptors
<1> QED
  BY <1>1, <1>2, <1>3, PoolCorrect, PTL DEF Spec

-----------------------------------------------------------------------------
(* The pool implements the bounded first-come first-served service.  A        *)
(* connection joins the line when it is accepted, before its job is queued;   *)
(* enqueue and the condition variables are invisible to clients.              *)

RefInv == PoolInv /\ Descriptors

\* The descriptors of jobs that are not freed are descriptors.
LEMMA FdOfLiveJob ==
    ASSUME RefInv, NEW j \in live
    PROVE  j \in Jobs /\ jobFd[j] \in Fds /\ jobFd[j] # NULL /\ (j \notin Closed => jobFd[j] \in open)
  BY PoolConstants DEF RefInv, PoolInv, ListInv, TypeOK, Descriptors

\* The line, element by element.
LineFacts ==
    /\ Line \in Seq(Fds)
    /\ Len(Line) = Len(order) + (IF mjob = NULL THEN 0 ELSE 1)
    /\ \A i \in 1 .. Len(order) : Line[i] = jobFd[order[i]]
    /\ mjob # NULL => Line[Len(order) + 1] = jobFd[mjob]

\* The line consists of the queued connections and the one the master holds.
LEMMA LineIs == RefInv => LineFacts
<1> SUFFICES ASSUME RefInv PROVE LineFacts
  OBVIOUS
<1> USE DEF RefInv, PoolInv, ListInv
<1> DEFINE front == [i \in 1 .. Len(order) |-> jobFd[order[i]]]
           back == IF mjob = NULL THEN <<>> ELSE <<jobFd[mjob]>>
<1>1. Len(order) \in Nat
  BY DEF TypeOK
<1>2. \A i \in 1 .. Len(order) : jobFd[order[i]] \in Fds
  BY FdOfLiveJob DEF QueuedJobs
<1>3. front \in Seq(Fds) /\ Len(front) = Len(order) /\ \A i \in 1 .. Len(order) : front[i] = jobFd[order[i]]
  BY <1>1, <1>2, IsASeq
<1>4. mjob # NULL => jobFd[mjob] \in Fds
  BY FdOfLiveJob DEF MasterJob
<1>5. back \in Seq(Fds) /\ Len(back) = (IF mjob = NULL THEN 0 ELSE 1) /\ (mjob # NULL => back[1] = jobFd[mjob])
  BY <1>4
<1>6. Line = front \o back
  BY DEF Line
<1> HIDE DEF front, back
<1>7. /\ Line \in Seq(Fds) /\ Len(Line) = Len(front) + Len(back)
      /\ \A i \in 1 .. Len(front) + Len(back) :
           Line[i] = IF i <= Len(front) THEN front[i] ELSE back[i - Len(front)]
  <2>1. front \in Seq(Fds) /\ back \in Seq(Fds)
    BY <1>3, <1>5
  <2> HIDE DEF RefInv, PoolInv, ListInv
  <2> QED
    BY <1>6, <2>1, ConcatProperties
<1>8. mjob # NULL => Line[Len(order) + 1] = jobFd[mjob]
  <2> SUFFICES ASSUME mjob # NULL PROVE Line[Len(order) + 1] = jobFd[mjob]
    OBVIOUS
  <2>1. Len(back) = 1 /\ Len(order) + 1 \in 1 .. Len(front) + Len(back) /\ Len(order) + 1 - Len(front) = 1
    BY <1>1, <1>3, <1>5
  <2>2. Line[Len(order) + 1] = back[1]
    BY <1>1, <1>3, <1>7, <2>1
  <2> QED
    BY <1>5, <2>2
<1>9. \A i \in 1 .. Len(order) : Line[i] = jobFd[order[i]]
  BY <1>1, <1>3, <1>5, <1>7
<1> QED
  BY <1>3, <1>5, <1>7, <1>8, <1>9 DEF LineFacts

\* A step that changes none of the jobs is a stutter of the service.
LEMMA StutterStep ==
    ASSUME UNCHANGED <<jobFd, mjob, wjob, order>>,
           \A v \in Workers : worker'[v] = "free" <=> worker[v] = "free"
    PROVE  UNCHANGED Service!vars
<1>1. Line' = Line
  BY DEF Line
<1>2. Serving' = Serving
  BY DEF Serving
<1> QED
  BY <1>1, <1>2 DEF Service!vars

\* The workers the service sees serving are among the busy ones.
LEMMA ServingIsBusy ==
    ASSUME RefInv
    PROVE  /\ \A w \in Workers : Serving[w] = NULL <=> wjob[w] = NULL \/ worker[w] = "free"
           /\ \A w \in Workers : Serving[w] # NULL => Serving[w] = jobFd[wjob[w]]
           /\ Service!Busy \subseteq Busy
           /\ Cardinality(Service!Busy) \in Nat /\ Cardinality(Service!Busy) <= active_jobs
<1> USE DEF RefInv, PoolInv, ListInv
<1>1. \A w \in Workers : wjob[w] # NULL => jobFd[wjob[w]] # NULL
  BY FdOfLiveJob DEF WorkerJobs
<1>2. /\ \A w \in Workers : Serving[w] = NULL <=> wjob[w] = NULL \/ worker[w] = "free"
      /\ \A w \in Workers : Serving[w] # NULL => Serving[w] = jobFd[wjob[w]]
  BY <1>1 DEF Serving
<1>3. Service!Busy \subseteq Busy
  BY <1>2 DEF Service!Busy, Busy, BusyPcs, HasJob, WorkerJobs
<1>4. IsFiniteSet(Busy)
  BY FS_Subset, PoolConstants DEF Busy
<1>5. Cardinality(Service!Busy) \in Nat /\ Cardinality(Service!Busy) <= Cardinality(Busy)
  BY <1>3, <1>4, FS_Subset, FS_CardinalityType
<1> QED
  BY <1>2, <1>3, <1>5 DEF BoundedLoad

\* Accept of the server is Accept of the service: there is room, and the
\* descriptor is not one of those in use.
LEMMA AcceptRefines ==
    ASSUME RefInv, RefInv', Accept
    PROVE  \E fd \in Fds : Service!Accept(fd)
<1> USE DEF RefInv, PoolInv, ListInv
<1>1. PICK fd \in Fds \ open, j \in Jobs \ live :
        /\ open' = open \cup {fd} /\ live' = live \cup {j}
        /\ jobFd' = [jobFd EXCEPT ![j] = fd] /\ mjob' = j /\ queue' = createJob(queue, j)
  BY DEF Accept
<1>2. mjob = NULL /\ mjob' # NULL /\ UNCHANGED <<wjob, worker, order>> /\ InHand = 1
  BY <1>1, NullIsNoJob DEF Accept, MasterJob, InHand
<1>3. jobFd'[j] = fd /\ \A k \in live : jobFd'[k] = jobFd[k]
  BY <1>1 DEF TypeOK
<1>4. /\ Line \in Seq(Fds) /\ Len(Line) = Len(order) /\ Len(order) \in Nat
      /\ \A i \in 1 .. Len(order) : Line[i] = jobFd[order[i]]
  BY <1>2, LineIs DEF TypeOK, LineFacts
<1>5. /\ Line' \in Seq(Fds) /\ Len(Line') = Len(order) + 1
      /\ \A i \in 1 .. Len(order) : Line'[i] = jobFd'[order[i]]
      /\ Line'[Len(order) + 1] = fd
  <2>1. LineFacts'
    BY LineIs, PTL
  <2> QED
    BY <1>1, <1>2, <1>3, <2>1 DEF LineFacts
<1>6. \A i \in 1 .. Len(order) : order[i] \in live
  BY DEF QueuedJobs
<1>7. Line' = Append(Line, fd)
  <2>1. /\ Append(Line, fd) \in Seq(Fds) /\ Len(Append(Line, fd)) = Len(order) + 1
        /\ \A i \in 1 .. Len(order) : Append(Line, fd)[i] = Line[i]
        /\ Append(Line, fd)[Len(order) + 1] = fd
    BY <1>4, AppendProperties
  <2>2. \A i \in 1 .. Len(order) + 1 : Line'[i] = Append(Line, fd)[i]
    BY <1>3, <1>4, <1>5, <1>6, <2>1
  <2> QED
    BY <1>5, <2>1, <2>2, SeqEqual
<1>8. Serving' = Serving
  BY <1>2, <1>3 DEF Serving, WorkerJobs
<1>9. fd \notin Service!InLine
  <2>1. \A i \in 1 .. Len(order) : order[i] \notin Closed
    BY ClosedIs DEF Queued
  <2> QED
    BY <1>1, <1>4, <1>6, <2>1, FdOfLiveJob DEF Service!InLine
<1>10. fd \notin Service!Served
  <2> SUFFICES ASSUME NEW w \in Workers, Serving[w] # NULL PROVE fd # Serving[w]
    BY DEF Service!Served, Service!Busy
  <2>1. wjob[w] # NULL /\ worker[w] # "free" /\ Serving[w] = jobFd[wjob[w]]
    BY ServingIsBusy
  <2>2. wjob[w] \in live \ Closed
    BY <2>1, ClosedIs DEF WorkerJobs
  <2> QED
    BY <1>1, <2>1, <2>2, FdOfLiveJob
<1>11. Len(Line) + Cardinality(Service!Busy) < MaxSize
  <2>1. queue.currSize = Len(order) /\ active_jobs \in Nat /\ MaxSize \in Nat
    BY EmptyIsZero, PoolConstants DEF TypeOK
  <2>2. queue.currSize + active_jobs + 1 <= MaxSize
    BY <1>2 DEF BoundedLoad
  <2> QED
    BY <1>4, <2>1, <2>2, ServingIsBusy
<1>12. Service!Cardinality(Service!Busy) = Cardinality(Service!Busy)
  BY DEF Service!Cardinality, Cardinality
<1>13. Service!Accept(fd)
  BY <1>12, <1>7, <1>8, <1>9, <1>10, <1>11 DEF Service!Accept
<1> QED
  BY <1>1, <1>13

\* enqueue leaves the line as it is: the master's connection was its last.
LEMMA EnqueueRefines ==
    ASSUME RefInv, RefInv', Enqueue
    PROVE  UNCHANGED Service!vars
<1> USE DEF RefInv, PoolInv, ListInv
<1>1. /\ mjob \in Jobs /\ mjob # NULL /\ mjob' = NULL /\ order' = Append(order, mjob)
      /\ order \in Seq(Jobs) /\ UNCHANGED <<jobFd, wjob>>
  BY NullIsNoJob DEF Enqueue, MasterJob, TypeOK
<1>2. /\ Len(order') = Len(order) + 1 /\ Len(order) \in Nat /\ order'[Len(order) + 1] = mjob
      /\ \A i \in 1 .. Len(order) : order'[i] = order[i]
  BY <1>1, AppendProperties
<1>3. /\ Line \in Seq(Fds) /\ Len(Line) = Len(order) + 1
      /\ \A i \in 1 .. Len(order) : Line[i] = jobFd[order[i]]
      /\ Line[Len(order) + 1] = jobFd[mjob]
  BY <1>1, LineIs DEF LineFacts
<1>4. /\ Line' \in Seq(Fds) /\ Len(Line') = Len(order')
      /\ \A i \in 1 .. Len(order') : Line'[i] = jobFd[order'[i]]
  <2>1. LineFacts'
    BY LineIs, PTL
  <2> QED
    BY <1>1, <1>2, <2>1 DEF LineFacts
<1>5. \A i \in 1 .. Len(order) + 1 : Line'[i] = Line[i]
  BY <1>2, <1>3, <1>4
<1>6. Line' = Line
  BY <1>2, <1>3, <1>4, <1>5, SeqEqual
<1>7. Serving' = Serving
  <2>1. \A v \in Workers : worker'[v] = "free" <=> worker[v] = "free"
    BY StillOpen
  <2> QED
    BY <1>1, <2>1 DEF Serving
<1> QED
  BY <1>6, <1>7 DEF Service!vars

\* The worker that dequeues takes the connection at the head of the line.
LEMMA TakeJobRefines ==
    ASSUME RefInv, RefInv', NEW w \in Workers, TakeJob(w)
    PROVE  Service!Dispatch(w)
<1> USE DEF RefInv, PoolInv, ListInv
<1>1. /\ order' = Tail(order) /\ wjob' = [wjob EXCEPT ![w] = dequeued(queue)]
      /\ UNCHANGED <<jobFd, mjob>> /\ worker[w] = "take" /\ ~isEmpty(queue)
  BY DEF TakeJob
<1>2. /\ order # <<>> /\ dequeued(queue) = order[1] /\ dequeued(queue) \in Jobs
      /\ Len(order') = Len(order) - 1
      /\ \A i \in 1 .. Len(order') : order'[i] = order[i + 1]
  BY <1>1, DequeueTakesFirst DEF TypeOK, QueueIsList
<1>3. Len(order) \in Nat /\ Len(order) > 0
  BY <1>2, EmptySeq DEF TypeOK
<1> DEFINE m == IF mjob = NULL THEN 0 ELSE 1
<1>4. m \in {0, 1}
  OBVIOUS
<1>5. /\ Line \in Seq(Fds) /\ Len(Line) = Len(order) + m
      /\ \A i \in 1 .. Len(order) : Line[i] = jobFd[order[i]]
      /\ m = 1 => Line[Len(order) + 1] = jobFd[mjob]
  BY LineIs DEF LineFacts
<1>6. /\ Line' \in Seq(Fds) /\ Len(Line') = Len(order') + m
      /\ \A i \in 1 .. Len(order') : Line'[i] = jobFd[order'[i]]
      /\ m = 1 => Line'[Len(order') + 1] = jobFd[mjob]
  <2>1. LineFacts'
    BY LineIs, PTL
  <2>2. jobFd' = jobFd /\ mjob' = mjob
    BY <1>1
  <2> QED
    BY <2>1, <2>2 DEF LineFacts
<1> HIDE DEF m
<1>7. Line # <<>> /\ Head(Line) = jobFd[order[1]]
  BY <1>3, <1>4, <1>5
<1>8. Line' = Tail(Line)
  <2>1. /\ Tail(Line) \in Seq(Fds) /\ Len(Tail(Line)) = Len(Line) - 1
        /\ \A i \in 1 .. Len(Tail(Line)) : Tail(Line)[i] = Line[i + 1]
    BY <1>5, <1>7, HeadTailProperties
  <2>2. Len(Line') = Len(Tail(Line)) /\ Len(Line') = Len(order) - 1 + m
    BY <1>2, <1>3, <1>4, <1>5, <1>6, <2>1
  <2>3. ASSUME NEW i \in 1 .. Len(Line') PROVE Line'[i] = Tail(Line)[i]
    <3>1. Tail(Line)[i] = Line[i + 1]
      BY <2>1, <2>2
    <3>2. CASE i \in 1 .. Len(order')
      <4>1. i + 1 \in 1 .. Len(order) /\ order'[i] = order[i + 1]
        BY <1>2, <1>3, <3>2
      <4> QED
        BY <1>5, <1>6, <3>1, <3>2, <4>1
    <3>3. CASE i \notin 1 .. Len(order')
      <4>1. m = 1 /\ i = Len(order') + 1 /\ i + 1 = Len(order) + 1
        BY <1>2, <1>3, <1>4, <2>2, <2>3, <3>3
      <4> QED
        BY <1>5, <1>6, <3>1, <4>1
    <3> QED
      BY <3>2, <3>3
  <2> QED
    BY <1>6, <2>1, <2>2, <2>3, SeqEqual
<1>9. wjob[w] = NULL /\ dequeued(queue) # NULL
  BY <1>1, <1>2, NullIsNoJob DEF WorkerJobs, HasJob
<1>10. Serving' = [Serving EXCEPT ![w] = jobFd[order[1]]]
  <2>1. \A v \in Workers : worker'[v] = "free" <=> worker[v] = "free"
    BY StillOpen
  <2> QED
    BY <1>1, <1>2, <1>9, <2>1 DEF Serving, TypeOK
<1>11. Serving[w] = NULL
  BY <1>9 DEF Serving
<1> QED
  BY <1>7, <1>8, <1>10, <1>11 DEF Service!Dispatch

\* close ends the service of a connection.
LEMMA CloseJobRefines ==
    ASSUME RefInv, NEW w \in Workers, CloseJob(w)
    PROVE  Service!Close(w)
<1> USE DEF RefInv, PoolInv, ListInv
<1>1. /\ worker[w] = "close" /\ worker' = [worker EXCEPT ![w] = "free"]
      /\ UNCHANGED <<jobFd, mjob, wjob, order>>
  BY DEF CloseJob
<1>2. Serving[w] # NULL
  BY <1>1, ServingIsBusy DEF WorkerJobs, HasJob
<1>3. Serving' = [Serving EXCEPT ![w] = NULL]
  BY <1>1 DEF Serving, TypeOK
<1>4. Line' = Line
  BY <1>1 DEF Line
<1> QED
  BY <1>2, <1>3, <1>4 DEF Service!Close

\* free is invisible.
LEMMA FreeJobRefines ==
    ASSUME RefInv, NEW w \in Workers, FreeJob(w)
    PROVE  UNCHANGED Service!vars
<1> USE DEF RefInv, PoolInv, ListInv
<1>1. /\ worker[w] = "free" /\ worker' = [worker EXCEPT ![w] = "finish"]
      /\ wjob' = [wjob EXCEPT ![w] = NULL] /\ UNCHANGED <<jobFd, mjob, order>>
  BY DEF FreeJob
<1>2. Serving' = Serving
  BY <1>1 DEF Serving, TypeOK
<1>3. Line' = Line
  BY <1>1 DEF Line
<1> QED
  BY <1>2, <1>3 DEF Service!vars

\* The pool implements the bounded service: connections are served in the order
\* of their accept, each by one worker, with at most queue_size of them inside.
THEOREM PoolImplementsService == Spec => ImplementsBoundedService
<1>1. Init => Service!Init
  <2> SUFFICES ASSUME Init PROVE Service!Init
    OBVIOUS
  <2>1. Line = <<>>
    BY DEF Init, Line
  <2>2. Serving = [w \in Workers |-> NULL]
    BY DEF Init, Serving
  <2> QED
    BY <2>1, <2>2 DEF Service!Init
<1>2. RefInv /\ RefInv' /\ [Next]_vars => [Service!Next]_(Service!vars)
  <2> SUFFICES ASSUME RefInv, RefInv', [Next]_vars PROVE [Service!Next]_(Service!vars)
    OBVIOUS
  <2>1. CASE Accept
    BY <2>1, AcceptRefines DEF Service!Next
  <2>2. CASE Enqueue
    BY <2>2, EnqueueRefines
  <2>3. ASSUME NEW w \in Workers, TakeJob(w) PROVE Service!Next
    BY <2>3, TakeJobRefines DEF Service!Next
  <2>4. ASSUME NEW w \in Workers, CloseJob(w) PROVE Service!Next
    BY <2>4, CloseJobRefines DEF Service!Next
  <2>5. CASE \/ CheckRoom \/ AcceptFails \/ SpuriousWakeup \/ UNCHANGED vars
             \/ \E w \in Workers : WaitForJob(w) \/ requestHandle(w) \/ FinishJob(w)
    <3>1. UNCHANGED <<jobFd, mjob, wjob, order>>
      BY <2>5 DEF CheckRoom, AcceptFails, SpuriousWakeup, WaitForJob, requestHandle, FinishJob, vars, poolVars
    <3>2. \A v \in Workers : worker'[v] = "free" <=> worker[v] = "free"
      BY <2>5, StillOpen DEF RefInv, PoolInv, ListInv
    <3> QED
      BY <3>1, <3>2, StutterStep
  <2>6. ASSUME NEW w \in Workers, FreeJob(w) PROVE UNCHANGED Service!vars
    BY <2>6, FreeJobRefines
  <2> QED
    BY <2>1, <2>2, <2>3, <2>4, <2>5, <2>6 DEF Next, WorkerStep
<1>3. Spec => []RefInv
  <2>1. Init => Descriptors
    BY DEF Init, Descriptors
  <2>2. PoolInv /\ Descriptors /\ [Next]_vars => Descriptors'
    BY DescriptorsNext
  <2>3. RefInv <=> PoolInv /\ Descriptors
    BY DEF RefInv
  <2> QED
    BY <2>1, <2>2, <2>3, PoolCorrect, PTL DEF Spec
<1> QED
  BY <1>1, <1>2, <1>3, PTL DEF Spec, ImplementsBoundedService, Service!Spec
=============================================================================
