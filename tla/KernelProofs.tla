----------------------------- MODULE KernelProofs -----------------------------
(***************************************************************************)
(* What kernel/signal.c keeps of its queues, and that nobody misses a      *)
(* signal; and, at the end, what the calls of hw2.c keep, for any number   *)
(* of tasks, of calls under way and any height, however tasks fork and     *)
(* exit meanwhile.                                                         *)
(*                                                                         *)
(* The invariant of the signals has three parts.  Core is that of          *)
(* SignalsProofs; QueueInv counts the entries and says which signals they  *)
(* stand for; AwareInv says who knows of which signal.  QueueInv is kept   *)
(* only together with Core, AwareInv only together with both.              *)
(***************************************************************************)
EXTENDS SignalsProofs, SyscallBan

-----------------------------------------------------------------------------
(* The queues: every entry is counted once *)

Own(g) == [t \in Threads |-> FreeAll(g.task[t].pending.list)]

LEMMA QueuedIs ==
    ASSUME NEW g \in Group
    PROVE  /\ Own(g) \in [Threads -> Nat] /\ Own(g) \in [Threads -> Int] /\ FreeAll(g.shared.list) \in Nat
           /\ Queued(g) = Total(Own(g), Threads) + FreeAll(g.shared.list) /\ Total(Own(g), Threads) \in Int
<1>1. g.shared \in Pending /\ \A t \in Threads : g.task[t].pending \in Pending
  BY GroupType, TaskType
<1>2. FreeAll(g.shared.list) \in Nat /\ \A t \in Threads : FreeAll(g.task[t].pending.list) \in Nat
  BY <1>1, FreeAllType
<1>3. Own(g) \in [Threads -> Nat] /\ Own(g) \in [Threads -> Int]
  BY <1>2 DEF Own
<1>4. Queued(g) = Total(Own(g), Threads) + FreeAll(g.shared.list)
  BY DEF Queued, Total, Own
<1>5. leader \in Threads /\ IsFiniteSet(Threads)
  BY ThreadsFinite
<1>6. Total(Own(g), Threads) \in Int
  BY <1>3, <1>5, TotalChange
<1> QED
  BY <1>2, <1>3, <1>4, <1>6

\* One thread's queue and that of the process may change.
LEMMA QueuedOne ==
    ASSUME NEW g \in Group, NEW h \in Group, NEW t \in Threads,
           \A u \in Threads : u # t => FreeAll(h.task[u].pending.list) = FreeAll(g.task[u].pending.list)
    PROVE  Queued(h) = Queued(g) - FreeAll(g.task[t].pending.list) + FreeAll(h.task[t].pending.list)
                                 - FreeAll(g.shared.list) + FreeAll(h.shared.list)
<1>1. /\ Own(g) \in [Threads -> Int] /\ Own(h) \in [Threads -> Int]
      /\ FreeAll(g.shared.list) \in Nat /\ FreeAll(h.shared.list) \in Nat
      /\ Queued(g) = Total(Own(g), Threads) + FreeAll(g.shared.list) /\ Total(Own(g), Threads) \in Int
      /\ Queued(h) = Total(Own(h), Threads) + FreeAll(h.shared.list) /\ Total(Own(h), Threads) \in Int
  BY QueuedIs
<1>2. \A u \in Threads : Own(g)[u] = FreeAll(g.task[u].pending.list) /\ Own(h)[u] = FreeAll(h.task[u].pending.list)
  BY DEF Own
<1>3. \A u \in Threads \ {t} : Own(h)[u] = Own(g)[u]
  BY <1>2
<1>4. Total(Own(h), Threads) = Total(Own(g), Threads) - Own(g)[t] + Own(h)[t]
  <2>1. PICK a, b, S : a = Own(g) /\ b = Own(h) /\ S = Threads
    OBVIOUS
  <2>2. IsFiniteSet(S) /\ a \in [S -> Int] /\ b \in [S -> Int] /\ t \in S /\ \A u \in S \ {t} : b[u] = a[u]
    BY <1>1, <1>3, <2>1, ThreadsFinite
  <2>3. Total(b, S) = Total(a, S) - a[t] + b[t]
    BY <2>2, TotalChange
  <2> QED
    BY <2>1, <2>3
<1>5. Own(g)[t] \in Int /\ Own(h)[t] \in Int
  BY <1>1
<1> QED
  BY <1>1, <1>2, <1>4, <1>5

\* Every queue may change.
LEMMA QueuedAll ==
    ASSUME NEW g \in Group, NEW h \in Group, NEW d \in [Threads -> Int],
           \A u \in Threads : FreeAll(h.task[u].pending.list) = FreeAll(g.task[u].pending.list) - d[u]
    PROVE  /\ Total(d, Threads) \in Int
           /\ Queued(h) = Queued(g) - Total(d, Threads) - FreeAll(g.shared.list) + FreeAll(h.shared.list)
<1>1. /\ Own(g) \in [Threads -> Int] /\ Own(h) \in [Threads -> Int]
      /\ FreeAll(g.shared.list) \in Nat /\ FreeAll(h.shared.list) \in Nat
      /\ Queued(g) = Total(Own(g), Threads) + FreeAll(g.shared.list) /\ Total(Own(g), Threads) \in Int
      /\ Queued(h) = Total(Own(h), Threads) + FreeAll(h.shared.list) /\ Total(Own(h), Threads) \in Int
  BY QueuedIs
<1>2. \A u \in Threads : Own(g)[u] = FreeAll(g.task[u].pending.list) /\ Own(h)[u] = FreeAll(h.task[u].pending.list)
  BY DEF Own
<1>3. \A u \in Threads : Own(g)[u] \in Int /\ Own(h)[u] \in Int /\ d[u] \in Int
  BY <1>1
<1>4. \A u \in Threads : Own(g)[u] = Own(h)[u] + d[u]
  BY <1>2, <1>3
<1>5. Total(d, Threads) \in Int /\ Total(Own(g), Threads) = Total(Own(h), Threads) + Total(d, Threads)
  <2>1. PICK a, b, S : a = Own(g) /\ b = Own(h) /\ S = Threads
    OBVIOUS
  <2>2. IsFiniteSet(S) /\ a \in [S -> Int] /\ b \in [S -> Int] /\ d \in [S -> Int] /\ \A u \in S : a[u] = b[u] + d[u]
    BY <1>1, <1>4, <2>1, ThreadsFinite
  <2>3. Total(d, S) \in Int /\ Total(a, S) = Total(b, S) + Total(d, S)
    BY <2>2, TotalAdd
  <2> QED
    BY <2>1, <2>3
<1> QED
  BY <1>1, <1>5

\* The entry of the timer is in one place at most, and then there is a timer.
TimerOnce(g) ==
    \A x, y \in Queues, i, j \in Nat : PreallocAt(g, x, i) /\ PreallocAt(g, y, j) => x = y /\ i = j /\ g.timer

Counted(g) == g.sigpending = Queued(g) + (IF g.timer THEN 1 ELSE 0)

LEMMA QueueType ==
    ASSUME NEW g \in Group, NEW x \in Queues
    PROVE  QueueOf(g, x) \in Pending
BY GroupType, TaskType DEF QueueOf, Queues

LEMMA OnceShrinks ==
    ASSUME NEW g \in Group, NEW h, TimerOnce(g), g.timer => h.timer,
           \A x \in Queues : Shrinks(QueueOf(g, x), QueueOf(h, x))
    PROVE  TimerOnce(h)
<1> SUFFICES ASSUME NEW x \in Queues, NEW y \in Queues, NEW i \in Nat, NEW j \in Nat,
                    PreallocAt(h, x, i), PreallocAt(h, y, j)
             PROVE  x = y /\ i = j /\ h.timer
  BY DEF TimerOnce
<1> DEFINE p(z) == QueueOf(g, z)
           q(z) == QueueOf(h, z)
<1>1. ASSUME NEW z \in Queues
      PROVE  \E e \in [1 .. Len(q(z).list) -> 1 .. Len(p(z).list)] :
               /\ \A a \in 1 .. Len(q(z).list) : q(z).list[a] = p(z).list[e[a]]
               /\ \A a, b \in 1 .. Len(q(z).list) : a < b => e[a] < e[b]
  BY QueueType, ShrinkPlaces
<1>2. PICK e \in [1 .. Len(q(x).list) -> 1 .. Len(p(x).list)] :
               /\ \A a \in 1 .. Len(q(x).list) : q(x).list[a] = p(x).list[e[a]]
               /\ \A a, b \in 1 .. Len(q(x).list) : a < b => e[a] < e[b]
  BY <1>1
<1>3. PICK f \in [1 .. Len(q(y).list) -> 1 .. Len(p(y).list)] :
               \A a \in 1 .. Len(q(y).list) : q(y).list[a] = p(y).list[f[a]]
  BY <1>1
<1>4. i \in 1 .. Len(q(x).list) /\ q(x).list[i].prealloc /\ j \in 1 .. Len(q(y).list) /\ q(y).list[j].prealloc
  BY DEF PreallocAt
<1>5. e[i] \in 1 .. Len(p(x).list) /\ f[j] \in 1 .. Len(p(y).list)
  BY <1>2, <1>3, <1>4
<1>6. e[i] \in Nat /\ f[j] \in Nat
  BY <1>5
<1>7. PreallocAt(g, x, e[i]) /\ PreallocAt(g, y, f[j])
  BY <1>2, <1>3, <1>4, <1>5 DEF PreallocAt
<1>8. x = y /\ g.timer
  BY <1>6, <1>7 DEF TimerOnce
<1>9. j \in 1 .. Len(q(x).list) /\ q(x).list[j].prealloc
  BY <1>4, <1>8
<1>10. e[j] \in 1 .. Len(p(x).list) /\ e[j] \in Nat
  BY <1>2, <1>9
<1>11. PreallocAt(g, x, e[j])
  BY <1>2, <1>9, <1>10 DEF PreallocAt
<1>12. e[i] = e[j]
  BY <1>6, <1>7, <1>10, <1>11 DEF TimerOnce
<1>13. ~(i < j) /\ ~(j < i)
  BY <1>2, <1>4, <1>6, <1>9, <1>10, <1>12
<1> QED
  BY <1>8, <1>13

\* Until the process is to die an entry is in a list only with its signal in the set.
ListInv(g) ==
    ~signal_group_exit(g) => /\ \A x \in Queues : Listed(QueueOf(g, x))
                             /\ \A t \in Threads : FaultFirst(g.task[t].pending)

QueueInv(g) == Counted(g) /\ TimerOnce(g) /\ ListInv(g)

LEMMA QueueAre ==
    ASSUME NEW g
    PROVE  QueueOf(g, 0) = g.shared /\ 0 \in Queues
           /\ \A t \in Threads : t \in Queues /\ QueueOf(g, t) = g.task[t].pending /\ t # 0
BY ThreadsFinite DEF QueueOf, Queues

\* The lists stay as they are; bits may be set.
LEMMA QueueSame ==
    ASSUME NEW g \in Group, NEW h \in Group, QueueInv(g), h.sigpending = g.sigpending, h.timer = g.timer,
           \A x \in Queues : QueueOf(h, x).list = QueueOf(g, x).list,
           ~signal_group_exit(h) => /\ ~signal_group_exit(g)
                                    /\ \A x \in Queues : QueueOf(g, x).signal \subseteq QueueOf(h, x).signal
    PROVE  QueueInv(h)
<1>1. h.shared.list = g.shared.list /\ \A t \in Threads : h.task[t].pending.list = g.task[t].pending.list
  BY QueueAre
<1>2. Own(h) = Own(g)
  BY <1>1 DEF Own
<1>3. Queued(h) = Queued(g)
  BY <1>1, <1>2, QueuedIs
<1>4. Counted(h)
  BY <1>3 DEF QueueInv, Counted
<1>5. TimerOnce(h)
  BY DEF QueueInv, TimerOnce, PreallocAt
<1>6. ListInv(h)
  <2> SUFFICES ASSUME ~signal_group_exit(h)
               PROVE  /\ \A x \in Queues : Listed(QueueOf(h, x))
                      /\ \A t \in Threads : FaultFirst(h.task[t].pending)
    BY DEF ListInv
  <2>1. (\A x \in Queues : Listed(QueueOf(g, x))) /\ \A t \in Threads : FaultFirst(g.task[t].pending)
    BY DEF QueueInv, ListInv
  <2>2. \A x \in Queues : Listed(QueueOf(h, x))
    BY <2>1 DEF Listed
  <2>3. ASSUME NEW t \in Threads
        PROVE  FaultFirst(h.task[t].pending)
    <3>1. h.task[t].pending.list = g.task[t].pending.list /\ FaultFirst(g.task[t].pending)
      BY <1>1, <2>1
    <3> QED
      BY <3>1 DEF FaultFirst
  <2> QED
    BY <2>2, <2>3
<1> QED
  BY <1>4, <1>5, <1>6 DEF QueueInv

LEMMA QueueTook ==
    ASSUME NEW g \in Group, NEW h \in Group, QueueInv(g), NEW t \in Threads, NEW sig, Took(g, h, t, sig),
           ~signal_group_exit(g) => Listed(h.task[t].pending) /\ Listed(h.shared)
    PROVE  QueueInv(h)
<1>1. PICK shared \in BOOLEAN, c \in Pending, freed \in Nat : TookFrom(g, h, t, sig, shared, c, freed)
  BY DEF Took
<1> DEFINE p == PendingOf(g, t, shared)
           x0 == IF shared THEN 0 ELSE t
<1>2. /\ h.flags = g.flags /\ h.timer = g.timer /\ \A u \in Threads : u # t => h.task[u] = g.task[u]
      /\ h.task[t].pending = (IF shared THEN g.task[t].pending ELSE c)
      /\ h.shared = (IF shared THEN c ELSE g.shared) /\ Shrinks(p, c)
      /\ h.sigpending = g.sigpending - freed /\ FreeAll(c.list) = FreeAll(p.list) - freed
  BY <1>1 DEF TookFrom
<1>3. p \in Pending /\ g.shared \in Pending /\ \A u \in Threads : g.task[u].pending \in Pending
  BY PendingOfType, GroupType, TaskType
<1>4. p = (IF shared THEN g.shared ELSE g.task[t].pending)
  BY DEF PendingOf
<1>5. g.sigpending \in Int /\ FreeAll(g.shared.list) \in Nat /\ FreeAll(g.task[t].pending.list) \in Nat
      /\ FreeAll(c.list) \in Nat /\ Queued(g) \in Int
  BY <1>3, GroupType, FreeAllType, QueuedIs
<1> HIDE DEF p
<1>6. Counted(h)
  <2>1. Queued(h) = Queued(g) - FreeAll(g.task[t].pending.list) + FreeAll(h.task[t].pending.list)
                              - FreeAll(g.shared.list) + FreeAll(h.shared.list)
    BY <1>2, QueuedOne
  <2>2. Queued(h) = Queued(g) - freed
    BY <1>2, <1>4, <1>5, <2>1
  <2> QED
    BY <1>2, <1>5, <2>2 DEF QueueInv, Counted
<1>7. \A x \in Queues : Shrinks(QueueOf(g, x), QueueOf(h, x))
  <2>1. Shrinks(g.shared, h.shared)
    BY <1>2, <1>3, <1>4, ShrinkSelf
  <2>2. \A u \in Threads : Shrinks(g.task[u].pending, h.task[u].pending)
    BY <1>2, <1>3, <1>4, ShrinkSelf
  <2> QED
    BY <2>1, <2>2 DEF QueueOf, Queues
<1>8. TimerOnce(h)
  BY <1>2, <1>7, OnceShrinks DEF QueueInv
<1>9. ListInv(h)
  <2> SUFFICES ASSUME ~signal_group_exit(h)
               PROVE  /\ \A x \in Queues : Listed(QueueOf(h, x))
                      /\ \A u \in Threads : FaultFirst(h.task[u].pending)
    BY DEF ListInv
  <2>1. ~signal_group_exit(g)
    BY <1>2 DEF signal_group_exit
  <2>2. (\A x \in Queues : Listed(QueueOf(g, x))) /\ \A u \in Threads : FaultFirst(g.task[u].pending)
    BY <2>1 DEF QueueInv, ListInv
  <2>3. \A x \in Queues : Listed(QueueOf(h, x))
    <3>1. Listed(h.shared) /\ Listed(h.task[t].pending)
      BY <2>1
    <3>2. \A u \in Threads : u # t => Listed(h.task[u].pending)
      BY <1>2, <2>2, QueueAre
    <3> QED
      BY <3>1, <3>2 DEF QueueOf, Queues
  <2>4. \A u \in Threads : FaultFirst(h.task[u].pending)
    <3>1. \A u \in Threads : Shrinks(g.task[u].pending, h.task[u].pending)
      BY <1>7, QueueAre
    <3>2. ASSUME NEW u \in Threads
          PROVE  FaultFirst(h.task[u].pending)
      <4>1. g.task[u].pending \in Pending /\ Shrinks(g.task[u].pending, h.task[u].pending) /\ FaultFirst(g.task[u].pending)
        BY <1>3, <2>2, <3>1
      <4> QED
        BY <4>1, ShrinkFaultFirst
    <3> QED
      BY <3>2
  <2> QED
    BY <2>3, <2>4
<1> QED
  BY <1>6, <1>8, <1>9 DEF QueueInv

\* The signals of a mask have left every queue.
LEMMA QueueFlush ==
    ASSUME NEW g \in Group, NEW h \in Group, QueueInv(g), NEW mask, h.timer = g.timer,
           signal_group_exit(h) = signal_group_exit(g), h.sigpending = FlushAll(g, mask).sigpending,
           h.shared = flush_sigqueue_mask(mask, g.shared).pending,
           \A t \in Threads : h.task[t].pending = flush_sigqueue_mask(mask, g.task[t].pending).pending
    PROVE  QueueInv(h)
<1> DEFINE f(p) == flush_sigqueue_mask(mask, p)
           freed == [t \in Threads |-> f(g.task[t].pending).freed]
<1>1. g.shared \in Pending /\ \A u \in Threads : g.task[u].pending \in Pending
  BY GroupType, TaskType
<1>2. ASSUME NEW p \in Pending
      PROVE  /\ Shrinks(p, f(p).pending) /\ f(p).freed \in Nat
             /\ FreeAll(f(p).pending.list) = FreeAll(p.list) - f(p).freed /\ (Listed(p) => Listed(f(p).pending))
  BY FlushMaskIs
<1>3. h.sigpending = g.sigpending - f(g.shared).freed - Total(freed, Threads)
  BY FlushAllIs
<1> HIDE DEF f
<1>4. freed \in [Threads -> Int] /\ \A t \in Threads : freed[t] = f(g.task[t].pending).freed
  BY <1>1, <1>2
<1>5. h.shared = f(g.shared).pending /\ \A t \in Threads : h.task[t].pending = f(g.task[t].pending).pending
  BY DEF f
<1> HIDE DEF freed
<1>6. Counted(h)
  <2>1. \A u \in Threads : FreeAll(h.task[u].pending.list) = FreeAll(g.task[u].pending.list) - freed[u]
    BY <1>1, <1>2, <1>4, <1>5
  <2>2. /\ Total(freed, Threads) \in Int
        /\ Queued(h) = Queued(g) - Total(freed, Threads) - FreeAll(g.shared.list) + FreeAll(h.shared.list)
    BY <1>4, <2>1, QueuedAll
  <2>3. /\ FreeAll(h.shared.list) = FreeAll(g.shared.list) - f(g.shared).freed /\ f(g.shared).freed \in Nat
        /\ FreeAll(g.shared.list) \in Nat /\ Queued(g) \in Int /\ g.sigpending \in Int
    BY <1>1, <1>2, <1>5, FreeAllType, QueuedIs, GroupType
  <2> QED
    BY <1>3, <2>2, <2>3 DEF QueueInv, Counted
<1>7. \A x \in Queues : Shrinks(QueueOf(g, x), QueueOf(h, x)) /\ (Listed(QueueOf(g, x)) => Listed(QueueOf(h, x)))
  BY <1>1, <1>2, <1>5 DEF QueueOf, Queues
<1>8. TimerOnce(h)
  BY <1>7, OnceShrinks DEF QueueInv
<1>9. ListInv(h)
  <2> SUFFICES ASSUME ~signal_group_exit(h)
               PROVE  /\ \A x \in Queues : Listed(QueueOf(h, x))
                      /\ \A u \in Threads : FaultFirst(h.task[u].pending)
    BY DEF ListInv
  <2>1. (\A x \in Queues : Listed(QueueOf(g, x))) /\ \A u \in Threads : FaultFirst(g.task[u].pending)
    BY DEF QueueInv, ListInv
  <2>2. \A u \in Threads : Shrinks(g.task[u].pending, h.task[u].pending)
    BY <1>7, QueueAre
  <2>3. ASSUME NEW u \in Threads
        PROVE  FaultFirst(h.task[u].pending)
    <3>1. g.task[u].pending \in Pending /\ Shrinks(g.task[u].pending, h.task[u].pending) /\ FaultFirst(g.task[u].pending)
      BY <1>1, <2>1, <2>2
    <3> QED
      BY <3>1, ShrinkFaultFirst
  <2> QED
    BY <1>7, <2>1, <2>3
<1> QED
  BY <1>6, <1>8, <1>9 DEF QueueInv

\* An entry has joined a queue: that of the timer only if it is queued nowhere, that of a fault
\* only if its signal was not pending.
LEMMA QueueAdded ==
    ASSUME NEW g \in Group, QueueInv(g), NEW p \in Threads, NEW shared \in BOOLEAN, NEW q \in Entry,
           NEW k, Added(g, k, p, shared, q), q.prealloc => g.timer /\ ~TimerQueued(g),
           q.positive /\ ~shared => q.sig = SIGSEGV /\ SIGSEGV \notin g.task[p].pending.signal
    PROVE  QueueInv(k)
<1> DEFINE pending == PendingOf(g, p, shared)
           x0 == IF shared THEN 0 ELSE p
<1>1. pending \in Pending /\ q.sig \in AllSignals
  BY PendingOfType DEF Entry
<1>2. g.shared \in Pending /\ (\A u \in Threads : g.task[u].pending \in Pending /\ g.task[u] \in Task) /\ g.sigpending \in Int
  BY GroupType, TaskType
<1>3. pending = QueueOf(g, x0) /\ x0 \in Queues
  BY QueueAre DEF PendingOf
<1> HIDE DEF pending
<1>4. ASSUME NEW new \in Pending, Put(g, k, p, shared, new)
      PROVE  /\ k \in Group /\ k.flags = g.flags /\ k.timer = g.timer /\ QueueOf(k, x0) = new
             /\ \A x \in Queues : x # x0 => QueueOf(k, x) = QueueOf(g, x)
             /\ k.shared = IF shared THEN new ELSE g.shared
             /\ \A u \in Threads : k.task[u].pending = IF ~shared /\ u = p THEN new ELSE g.task[u].pending
  <2>1. /\ k \in Group /\ k.flags = g.flags /\ k.timer = g.timer
        /\ k.shared = IF shared THEN new ELSE g.shared
        /\ \A u \in Threads : IF ~shared /\ u = p
                              THEN k.task[u] = [g.task[u] EXCEPT !.pending = new]
                              ELSE k.task[u] = g.task[u]
    BY <1>4 DEF Put
  <2>2. \A u \in Threads : k.task[u].pending = IF ~shared /\ u = p THEN new ELSE g.task[u].pending
    BY <1>2, <2>1 DEF Task
  <2>3. QueueOf(k, x0) = new
    BY <2>1, <2>2, QueueAre
  <2>4. \A x \in Queues : x # x0 => QueueOf(k, x) = QueueOf(g, x)
    BY <2>1, <2>2, QueueAre DEF QueueOf, Queues
  <2> QED
    BY <2>1, <2>2, <2>3, <2>4
<1>5. CASE Put(g, k, p, shared, SetOnly(pending, q.sig)) /\ k.sigpending = g.sigpending
  <2>1. /\ SetOnly(pending, q.sig) \in Pending /\ SetOnly(pending, q.sig).signal = pending.signal \cup {q.sig}
        /\ SetOnly(pending, q.sig).list = pending.list
    BY <1>1, SetOnlyIs
  <2>2. PICK new : new = SetOnly(pending, q.sig)
    OBVIOUS
  <2>3. /\ k \in Group /\ k.flags = g.flags /\ k.timer = g.timer /\ QueueOf(k, x0) = new
        /\ \A x \in Queues : x # x0 => QueueOf(k, x) = QueueOf(g, x)
    BY <1>4, <1>5, <2>1, <2>2
  <2>4. \A x \in Queues : QueueOf(k, x).list = QueueOf(g, x).list /\ QueueOf(g, x).signal \subseteq QueueOf(k, x).signal
    BY <1>3, <2>1, <2>2, <2>3
  <2>5. signal_group_exit(k) = signal_group_exit(g)
    BY <2>3 DEF signal_group_exit
  <2> QED
    BY <1>5, <2>3, <2>4, <2>5, QueueSame
<1>6. CASE Put(g, k, p, shared, Enqueue(pending, q)) /\ k.sigpending = g.sigpending + sigqueue_free1(q)
  <2>1. PICK new : new = Enqueue(pending, q)
    OBVIOUS
  <2>2. /\ new \in Pending /\ new.signal = pending.signal \cup {q.sig} /\ Len(new.list) = Len(pending.list) + 1
        /\ new.list[Len(pending.list) + 1] = q /\ \A i \in 1 .. Len(pending.list) : new.list[i] = pending.list[i]
        /\ FreeAll(new.list) = FreeAll(pending.list) + sigqueue_free1(q)
        /\ Listed(pending) => Listed(new)
    BY <1>1, <2>1, EnqueueIs
  <2>3. /\ k \in Group /\ k.flags = g.flags /\ k.timer = g.timer /\ QueueOf(k, x0) = new
        /\ \A x \in Queues : x # x0 => QueueOf(k, x) = QueueOf(g, x)
        /\ k.shared = IF shared THEN new ELSE g.shared
        /\ \A u \in Threads : k.task[u].pending = IF ~shared /\ u = p THEN new ELSE g.task[u].pending
    BY <1>4, <1>6, <2>1, <2>2
  <2>4. Len(pending.list) \in Nat
    BY <1>1, PendingType
  <2>5. Counted(k)
    <3>1. Queued(k) = Queued(g) - FreeAll(g.task[p].pending.list) + FreeAll(k.task[p].pending.list)
                                - FreeAll(g.shared.list) + FreeAll(k.shared.list)
      BY <2>3, QueuedOne
    <3>2. FreeAll(g.task[p].pending.list) \in Nat /\ FreeAll(g.shared.list) \in Nat /\ FreeAll(new.list) \in Nat
          /\ Queued(g) \in Int /\ sigqueue_free1(q) \in Int
      BY <1>2, <2>2, FreeAllType, QueuedIs DEF sigqueue_free1
    <3>3. pending = IF shared THEN g.shared ELSE g.task[p].pending
      BY DEF pending, PendingOf
    <3>4. Queued(k) = Queued(g) + sigqueue_free1(q)
      <4>1. FreeAll(new.list) = FreeAll(pending.list) + sigqueue_free1(q)
        BY <2>2
      <4>2. CASE shared
        <5>1. k.shared = new /\ k.task[p].pending = g.task[p].pending /\ pending = g.shared
          BY <2>3, <3>3, <4>2
        <5> QED
          BY <3>1, <3>2, <4>1, <5>1
      <4>3. CASE ~shared
        <5>1. k.shared = g.shared /\ k.task[p].pending = new /\ pending = g.task[p].pending
          BY <2>3, <3>3, <4>3
        <5> QED
          BY <3>1, <3>2, <4>1, <5>1
      <4> QED
        BY <4>2, <4>3
    <3> QED
      BY <1>2, <1>6, <2>3, <3>2, <3>4 DEF QueueInv, Counted
  <2>6. TimerOnce(k)
    <3>1. ASSUME NEW x \in Queues, NEW i \in Nat, PreallocAt(k, x, i)
          PROVE  PreallocAt(g, x, i) \/ (x = x0 /\ i = Len(pending.list) + 1 /\ q.prealloc)
      <4>1. CASE x # x0
        BY <2>3, <3>1, <4>1 DEF PreallocAt
      <4>2. CASE x = x0
        BY <1>3, <2>2, <2>3, <2>4, <3>1, <4>2 DEF PreallocAt
      <4> QED
        BY <4>1, <4>2
    <3>2. ASSUME NEW x \in Queues, NEW i \in Nat, PreallocAt(g, x, i)
          PROVE  ~q.prealloc /\ g.timer
      <4>1. i \in 1 .. Len(QueueOf(g, x).list) /\ QueueOf(g, x).list[i].prealloc
        BY <3>2 DEF PreallocAt
      <4>2. QueueOf(g, x) \in Pending
        BY QueueType
      <4>3. QueueOf(g, x).list[i] \in ToSet(QueueOf(g, x).list)
        BY <4>1, <4>2, PendingType DEF ToSet
      <4>4. TimerQueued(g)
        BY <4>1, <4>3 DEF TimerQueued, QueueOf, Queues
      <4> QED
        BY <3>2, <4>4 DEF QueueInv, TimerOnce
    <3>3. \A x, y \in Queues, i, j \in Nat : PreallocAt(g, x, i) /\ PreallocAt(g, y, j) => x = y /\ i = j
      BY DEF QueueInv, TimerOnce
    <3> SUFFICES ASSUME NEW x \in Queues, NEW y \in Queues, NEW i \in Nat, NEW j \in Nat,
                        PreallocAt(k, x, i), PreallocAt(k, y, j)
                 PROVE  x = y /\ i = j /\ k.timer
      BY DEF TimerOnce
    <3>4. PreallocAt(g, x, i) \/ (x = x0 /\ i = Len(pending.list) + 1 /\ q.prealloc)
      BY <3>1
    <3>5. PreallocAt(g, y, j) \/ (y = x0 /\ j = Len(pending.list) + 1 /\ q.prealloc)
      BY <3>1
    <3>6. k.timer
      BY <2>3, <3>2, <3>4
    <3> QED
      BY <3>2, <3>3, <3>4, <3>5, <3>6
  <2>7. ListInv(k)
    <3> SUFFICES ASSUME ~signal_group_exit(k)
                 PROVE  /\ \A x \in Queues : Listed(QueueOf(k, x))
                        /\ \A u \in Threads : FaultFirst(k.task[u].pending)
      BY DEF ListInv
    <3>1. ~signal_group_exit(g)
      BY <2>3 DEF signal_group_exit
    <3>2. (\A x \in Queues : Listed(QueueOf(g, x))) /\ \A u \in Threads : FaultFirst(g.task[u].pending)
      BY <3>1 DEF QueueInv, ListInv
    <3>3. \A x \in Queues : Listed(QueueOf(k, x))
      BY <1>3, <2>2, <2>3, <3>2
    <3>4. ASSUME NEW u \in Threads
          PROVE  FaultFirst(k.task[u].pending)
      <4>1. CASE shared \/ u # p
        BY <2>3, <3>2, <4>1
      <4>2. CASE ~shared /\ u = p
        <5>1. k.task[u].pending = new /\ pending = g.task[p].pending /\ FaultFirst(pending) /\ Listed(pending)
          BY <1>3, <2>3, <3>2, <4>2, QueueAre
        <5> SUFFICES ASSUME NEW i \in 1 .. Len(new.list), new.list[i].positive
                     PROVE  new.list[i].sig = SIGSEGV /\ \A j \in 1 .. i - 1 : new.list[j].sig # SIGSEGV
          BY <5>1 DEF FaultFirst
        <5>2. CASE i \in 1 .. Len(pending.list)
          <6>1. pending.list[i].sig = SIGSEGV /\ \A j \in 1 .. i - 1 : pending.list[j].sig # SIGSEGV
            BY <2>2, <5>1, <5>2 DEF FaultFirst
          <6>2. \A j \in 1 .. i - 1 : j \in 1 .. Len(pending.list)
            BY <2>4, <5>2
          <6> QED
            BY <2>2, <5>2, <6>1, <6>2
        <5>3. CASE i = Len(pending.list) + 1
          <6>1. q.positive /\ q.sig = SIGSEGV /\ SIGSEGV \notin pending.signal
            BY <2>2, <4>2, <5>1, <5>3
          <6>2. \A j \in 1 .. Len(pending.list) : pending.list[j].sig # SIGSEGV
            BY <5>1, <6>1 DEF Listed
          <6>3. \A j \in 1 .. i - 1 : j \in 1 .. Len(pending.list)
            BY <2>4, <5>3
          <6> QED
            BY <2>2, <5>3, <6>1, <6>2, <6>3
        <5> QED
          BY <2>2, <2>4, <5>2, <5>3
      <4> QED
        BY <4>1, <4>2
    <3> QED
      BY <3>3, <3>4
  <2> QED
    BY <2>5, <2>6, <2>7 DEF QueueInv
<1> QED
  BY <1>5, <1>6 DEF Added, pending

\* How many entries of a list are not that of the timer.
LEMMA FreeOthers ==
    ASSUME NEW p \in Pending, NEW P, P = {i \in 1 .. Len(p.list) : p.list[i].prealloc}
    PROVE  IsFiniteSet(P) /\ Cardinality(P) \in Nat /\ FreeAll(p.list) = Len(p.list) - Cardinality(P)
<1> DEFINE D == 1 .. Len(p.list)
           F == {i \in DOMAIN p.list : ~p.list[i].prealloc}
<1>1. Len(p.list) \in Nat /\ DOMAIN p.list = D
  BY PendingType
<1>2. IsFiniteSet(D) /\ Cardinality(D) = Len(p.list)
  BY <1>1, FS_Interval
<1>3. P \subseteq D /\ F \subseteq D /\ F = D \ P
  BY <1>1
<1>4. IsFiniteSet(P) /\ IsFiniteSet(F)
  BY <1>2, <1>3, FS_Subset
<1>5. P \cap F = {} /\ P \cup F = D
  BY <1>3
<1> HIDE DEF D
<1>6. Cardinality(D) = Cardinality(P) + Cardinality(F) - Cardinality(P \cap F)
  BY <1>4, <1>5, FS_Union
<1>7. Cardinality(P) \in Nat /\ Cardinality(F) \in Nat /\ Cardinality(P \cap F) = 0
  BY <1>4, <1>5, FS_CardinalityType, FS_EmptySet
<1>8. FreeAll(p.list) = Cardinality(F)
  BY DEF FreeAll
<1> QED
  BY <1>1, <1>2, <1>4, <1>6, <1>7, <1>8

\* A timer is made: its entry counts from now on.
LEMMA QueueAlloc ==
    ASSUME NEW g \in Group, NEW h \in Group, QueueInv(g), ~g.timer, h.timer, h.sigpending = g.sigpending + 1,
           h.task = g.task, h.shared = g.shared, h.flags = g.flags
    PROVE  QueueInv(h)
<1>1. Queued(h) = Queued(g)
  BY DEF Queued
<1>2. Queued(g) \in Int /\ g.sigpending \in Int
  BY QueuedIs, GroupType
<1>3. Counted(h)
  BY <1>1, <1>2 DEF QueueInv, Counted
<1>4. \A x \in Queues : QueueOf(h, x) = QueueOf(g, x)
  BY DEF QueueOf
<1>5. TimerOnce(h)
  BY <1>4 DEF QueueInv, TimerOnce, PreallocAt
<1>6. ListInv(h)
  BY <1>4 DEF QueueInv, ListInv, signal_group_exit
<1> QED
  BY <1>3, <1>5, <1>6 DEF QueueInv

\* The timer goes: its entry, when it is queued, is one like the others from now on.
LEMMA QueueDisowned ==
    ASSUME NEW g \in Group, NEW h, QueueInv(g), g.timer, Disowned(g, h)
    PROVE  QueueInv(h)
<1>1. /\ h \in Group /\ h.flags = g.flags /\ h.timer = FALSE /\ h.shared = Disown(g.shared)
      /\ h.sigpending = IF TimerQueued(g) THEN g.sigpending ELSE g.sigpending - 1
      /\ \A u \in Threads : h.task[u].pending = Disown(g.task[u].pending)
  BY DEF Disowned
<1> DEFINE P(x) == {i \in 1 .. Len(QueueOf(g, x).list) : QueueOf(g, x).list[i].prealloc}
<1>2. \A x \in Queues : QueueOf(h, x) = Disown(QueueOf(g, x))
  BY <1>1 DEF QueueOf, Queues
<1>3. ASSUME NEW x \in Queues
      PROVE  /\ QueueOf(g, x) \in Pending /\ IsFiniteSet(P(x)) /\ Cardinality(P(x)) \in Nat
             /\ FreeAll(QueueOf(h, x).list) = FreeAll(QueueOf(g, x).list) + Cardinality(P(x))
             /\ FreeAll(QueueOf(g, x).list) \in Nat
  <2>1. QueueOf(g, x) \in Pending
    BY QueueType
  <2>2. FreeAll(Disown(QueueOf(g, x)).list) = Len(QueueOf(g, x).list) /\ Len(QueueOf(g, x).list) \in Nat
        /\ FreeAll(QueueOf(g, x).list) \in Nat
    BY <2>1, DisownIs, PendingType, FreeAllType
  <2>3. IsFiniteSet(P(x)) /\ Cardinality(P(x)) \in Nat
        /\ FreeAll(QueueOf(g, x).list) = Len(QueueOf(g, x).list) - Cardinality(P(x))
    BY <2>1, FreeOthers
  <2> QED
    BY <1>2, <2>1, <2>2, <2>3
<1>4. \A x \in Queues, i \in Nat : PreallocAt(g, x, i) <=> i \in P(x)
  BY DEF PreallocAt
<1>5. \A x \in Queues : P(x) \subseteq Nat
  BY <1>3, PendingType
<1> HIDE DEF P
<1>6. g.sigpending \in Int /\ Queued(g) \in Int /\ g.sigpending = Queued(g) + 1
  BY GroupType, QueuedIs DEF QueueInv, Counted
<1>7. h.shared = QueueOf(h, 0) /\ g.shared = QueueOf(g, 0) /\ 0 \in Queues
      /\ \A u \in Threads : h.task[u].pending = QueueOf(h, u) /\ g.task[u].pending = QueueOf(g, u) /\ u \in Queues /\ u # 0
  BY QueueAre
<1>8. Counted(h)
  <2>1. CASE ~TimerQueued(g)
    <3>1. \A x \in Queues : P(x) = {}
      <4> SUFFICES ASSUME NEW x \in Queues, NEW i \in P(x)
                   PROVE  FALSE
        OBVIOUS
      <4>1. i \in 1 .. Len(QueueOf(g, x).list) /\ QueueOf(g, x).list[i].prealloc
        BY <1>4, <1>5 DEF PreallocAt
      <4>2. QueueOf(g, x).list[i] \in ToSet(QueueOf(g, x).list)
        BY <1>3, <4>1, PendingType DEF ToSet
      <4> QED
        BY <2>1, <4>1, <4>2 DEF TimerQueued, QueueOf, Queues
    <3>2. \A x \in Queues : FreeAll(QueueOf(h, x).list) = FreeAll(QueueOf(g, x).list)
      BY <1>3, <3>1, FS_EmptySet
    <3>3. Own(h) = Own(g) /\ FreeAll(h.shared.list) = FreeAll(g.shared.list)
      BY <1>7, <3>2 DEF Own
    <3>4. Queued(h) = Queued(g)
      BY <1>1, <3>3, QueuedIs
    <3> QED
      BY <1>1, <1>6, <2>1, <3>4 DEF Counted
  <2>2. CASE TimerQueued(g)
    <3>1. PICK q \in ToSet(g.shared.list) \cup UNION {ToSet(g.task[u].pending.list) : u \in Threads} : q.prealloc
      BY <2>2 DEF TimerQueued
    <3>2. PICK x0 \in Queues : q \in ToSet(QueueOf(g, x0).list)
      BY <1>7, <3>1
    <3>3. PICK i0 \in 1 .. Len(QueueOf(g, x0).list) : QueueOf(g, x0).list[i0] = q
      BY <1>3, <3>2, PendingType DEF ToSet
    <3>4. i0 \in Nat /\ PreallocAt(g, x0, i0)
      BY <3>1, <3>3 DEF PreallocAt
    <3>5. \A x \in Queues : \A i \in P(x) : x = x0 /\ i = i0
      BY <1>4, <1>5, <3>4 DEF QueueInv, TimerOnce
    <3>6. P(x0) = {i0} /\ \A x \in Queues : x # x0 => P(x) = {}
      BY <1>4, <3>4, <3>5
    <3>7. Cardinality(P(x0)) = 1 /\ \A x \in Queues : x # x0 => Cardinality(P(x)) = 0
      BY <3>6, FS_EmptySet, FS_Singleton
    <3>8. /\ FreeAll(QueueOf(h, x0).list) = FreeAll(QueueOf(g, x0).list) + 1
          /\ \A x \in Queues : x # x0 => FreeAll(QueueOf(h, x).list) = FreeAll(QueueOf(g, x).list)
      BY <1>3, <3>7
    <3>9. Queued(h) = Queued(g) + 1
      <4>1. CASE x0 = 0
        <5>1. \A u \in Threads : FreeAll(h.task[u].pending.list) = FreeAll(g.task[u].pending.list)
          BY <1>7, <3>8, <4>1
        <5>2. FreeAll(h.shared.list) = FreeAll(g.shared.list) + 1 /\ FreeAll(g.shared.list) \in Nat
          BY <1>3, <1>7, <3>8, <4>1
        <5>3. Own(h) = Own(g)
          BY <5>1 DEF Own
        <5> QED
          BY <1>1, <1>6, <5>2, <5>3, QueuedIs
      <4>2. CASE x0 # 0
        <5>1. x0 \in Threads
          BY <4>2 DEF Queues
        <5>2. \A u \in Threads : u # x0 => FreeAll(h.task[u].pending.list) = FreeAll(g.task[u].pending.list)
          BY <1>7, <3>8
        <5>3. /\ FreeAll(h.shared.list) = FreeAll(g.shared.list) /\ FreeAll(g.shared.list) \in Nat
              /\ FreeAll(h.task[x0].pending.list) = FreeAll(g.task[x0].pending.list) + 1
              /\ FreeAll(g.task[x0].pending.list) \in Nat
          BY <1>3, <1>7, <3>8, <4>2, <5>1
        <5>4. Queued(h) = Queued(g) - FreeAll(g.task[x0].pending.list) + FreeAll(h.task[x0].pending.list)
                                    - FreeAll(g.shared.list) + FreeAll(h.shared.list)
          BY <1>1, <5>1, <5>2, QueuedOne
        <5> QED
          BY <1>6, <5>3, <5>4
      <4> QED
        BY <4>1, <4>2
    <3> QED
      BY <1>1, <1>6, <2>2, <3>9 DEF Counted
  <2> QED
    BY <2>1, <2>2
<1>9. ASSUME NEW x \in Queues
       PROVE  LET p == QueueOf(g, x)
                  r == QueueOf(h, x)
              IN /\ r.signal = p.signal /\ Len(r.list) = Len(p.list)
                 /\ \A i \in 1 .. Len(p.list) : /\ r.list[i].sig = p.list[i].sig /\ ~r.list[i].prealloc
                                                /\ r.list[i].positive = p.list[i].positive
                 /\ Listed(p) => Listed(r)
  BY <1>2, <1>3, DisownIs
<1>10. TimerOnce(h)
  BY <1>9 DEF TimerOnce, PreallocAt
<1>11. ListInv(h)
  <2> SUFFICES ASSUME ~signal_group_exit(h)
               PROVE  /\ \A x \in Queues : Listed(QueueOf(h, x))
                      /\ \A u \in Threads : FaultFirst(h.task[u].pending)
    BY DEF ListInv
  <2>1. ~signal_group_exit(g)
    BY <1>1 DEF signal_group_exit
  <2>2. (\A x \in Queues : Listed(QueueOf(g, x))) /\ \A u \in Threads : FaultFirst(g.task[u].pending)
    BY <2>1 DEF QueueInv, ListInv
  <2>3. \A x \in Queues : Listed(QueueOf(h, x))
    BY <1>9, <2>2
  <2>4. ASSUME NEW u \in Threads
        PROVE  FaultFirst(h.task[u].pending)
    <3> DEFINE p == g.task[u].pending
               r == h.task[u].pending
    <3>1. /\ FaultFirst(p) /\ Len(r.list) = Len(p.list) /\ Len(p.list) \in Nat
          /\ \A i \in 1 .. Len(p.list) : r.list[i].sig = p.list[i].sig /\ r.list[i].positive = p.list[i].positive
      <4>1. u \in Queues /\ QueueOf(g, u) = p /\ QueueOf(h, u) = r
        BY <1>7
      <4>2. p \in Pending
        BY <1>3, <4>1
      <4>3. Len(p.list) \in Nat
        BY <4>2, PendingType
      <4>4. FaultFirst(p)
        BY <2>2
      <4>5. /\ Len(QueueOf(h, u).list) = Len(QueueOf(g, u).list)
            /\ \A i \in 1 .. Len(QueueOf(g, u).list) :
                 /\ QueueOf(h, u).list[i].sig = QueueOf(g, u).list[i].sig
                 /\ QueueOf(h, u).list[i].positive = QueueOf(g, u).list[i].positive
        BY <1>9, <4>1
      <4> HIDE DEF p, r
      <4> QED
        BY <4>1, <4>3, <4>4, <4>5
    <3> HIDE DEF p, r
    <3> SUFFICES ASSUME NEW i \in 1 .. Len(r.list), r.list[i].positive
                 PROVE  r.list[i].sig = SIGSEGV /\ \A j \in 1 .. i - 1 : r.list[j].sig # SIGSEGV
      BY DEF FaultFirst, r
    <3>2. i \in 1 .. Len(p.list) /\ p.list[i].positive /\ p.list[i].sig = r.list[i].sig
          /\ \A j \in 1 .. i - 1 : j \in 1 .. Len(p.list)
      BY <3>1
    <3>3. p.list[i].sig = SIGSEGV /\ \A j \in 1 .. i - 1 : p.list[j].sig # SIGSEGV
      BY <3>1, <3>2 DEF FaultFirst
    <3> QED
      BY <3>1, <3>2, <3>3
  <2> QED
    BY <2>3, <2>4
<1> QED
  BY <1>8, <1>10, <1>11 DEF QueueInv

\* A thread has left with its queue, the leader with that of the process too.
LEMMA QueueGone ==
    ASSUME NEW g \in Group, NEW h, QueueInv(g), NEW t \in Threads, t = leader => ~g.timer, Gone(g, h, t)
    PROVE  QueueInv(h)
<1>1. /\ h \in Group /\ h.flags = g.flags /\ h.timer = g.timer /\ h.task[t] = DeadTask
      /\ \A u \in Threads : u # t => h.task[u] = g.task[u]
      /\ h.shared = IF t = leader THEN EmptyPending ELSE g.shared
      /\ h.sigpending = g.sigpending - FreeAll(g.task[t].pending.list) - (IF t = leader THEN FreeAll(g.shared.list) ELSE 0)
  BY DEF Gone
<1>2. DeadTask.pending = EmptyPending /\ EmptyPending.list = <<>> /\ EmptyPending \in Pending
  BY DeadTaskIs, NewTypes
<1>3. FreeAll(EmptyPending.list) = 0 /\ Len(EmptyPending.list) = 0
  <2>1. {i \in DOMAIN EmptyPending.list : ~EmptyPending.list[i].prealloc} = {} /\ Len(EmptyPending.list) = 0
    BY <1>2
  <2> QED
    BY <2>1, FS_EmptySet DEF FreeAll
<1>4. /\ FreeAll(g.task[t].pending.list) \in Nat /\ FreeAll(g.shared.list) \in Nat
      /\ g.sigpending \in Int /\ Queued(g) \in Int
      /\ g.shared \in Pending /\ \A u \in Threads : g.task[u].pending \in Pending
  BY GroupType, TaskType, FreeAllType, QueuedIs
<1>5. Counted(h)
  <2>1. Queued(h) = Queued(g) - FreeAll(g.task[t].pending.list) + FreeAll(h.task[t].pending.list)
                              - FreeAll(g.shared.list) + FreeAll(h.shared.list)
    BY <1>1, QueuedOne
  <2>2. Queued(h) = Queued(g) - FreeAll(g.task[t].pending.list) - (IF t = leader THEN FreeAll(g.shared.list) ELSE 0)
    BY <1>1, <1>2, <1>3, <1>4, <2>1
  <2> QED
    BY <1>1, <1>4, <2>2 DEF QueueInv, Counted
<1>6. \A x \in Queues : QueueOf(h, x) = QueueOf(g, x) \/ QueueOf(h, x) = EmptyPending
  BY <1>1, <1>2 DEF QueueOf, Queues
<1>7. \A x \in Queues, i \in Nat : PreallocAt(h, x, i) => PreallocAt(g, x, i)
  <2> SUFFICES ASSUME NEW x \in Queues, NEW i \in Nat, PreallocAt(h, x, i)
               PROVE  PreallocAt(g, x, i)
    OBVIOUS
  <2>1. QueueOf(h, x) # EmptyPending
    BY <1>3 DEF PreallocAt
  <2> QED
    BY <1>6, <2>1 DEF PreallocAt
<1>8. TimerOnce(h)
  BY <1>1, <1>7 DEF QueueInv, TimerOnce
<1>9. ListInv(h)
  <2>1. Listed(EmptyPending) /\ FaultFirst(EmptyPending)
    BY <1>3 DEF Listed, FaultFirst
  <2>2. signal_group_exit(h) = signal_group_exit(g)
    BY <1>1 DEF signal_group_exit
  <2> QED
    BY <1>1, <1>2, <1>6, <2>1, <2>2 DEF QueueInv, ListInv
<1> QED
  BY <1>5, <1>8, <1>9 DEF QueueInv

-----------------------------------------------------------------------------
(* The queues: what the steps do to them *)

\* The queues and their count stay as they are.
LEMMA QueueKept ==
    ASSUME NEW g \in Group, NEW h \in Group, QueueInv(g), h.sigpending = g.sigpending, h.timer = g.timer,
           ~signal_group_exit(h) => ~signal_group_exit(g), h.shared = g.shared,
           \A u \in Threads : h.task[u].pending = g.task[u].pending
    PROVE  QueueInv(h)
<1>1. \A x \in Queues : QueueOf(h, x) = QueueOf(g, x)
  BY DEF QueueOf, Queues
<1> QED
  BY <1>1, QueueSame

LEMMA WokenKeeps ==
    ASSUME NEW a \in Task, NEW b, b = a \/ b = signal_wake_up(a, FALSE) \/ b = signal_wake_up(a, TRUE)
    PROVE  SameTask(a, b) /\ b.pending = a.pending /\ (a.tif => b.tif)
<1>1. FALSE \in BOOLEAN /\ TRUE \in BOOLEAN
  OBVIOUS
<1>2. CASE b = a
  BY <1>2 DEF SameTask
<1>3. CASE b = signal_wake_up(a, FALSE)
  BY <1>1, <1>3, WakeIs
<1>4. CASE b = signal_wake_up(a, TRUE)
  BY <1>1, <1>4, WakeIs
<1> QED
  BY <1>2, <1>3, <1>4

LEMMA QueueBlocks ==
    ASSUME NEW g \in Group, NEW h, QueueInv(g), NEW t \in Threads, NEW newset, BlocksTo(g, h, t, newset)
    PROVE  QueueInv(h)
<1>1. /\ h \in Group /\ h.flags = g.flags /\ h.shared = g.shared /\ h.sigpending = g.sigpending /\ h.timer = g.timer
      /\ h.task[t].pending = g.task[t].pending
      /\ \A u \in Threads : u # t => h.task[u] = g.task[u] \/ h.task[u] = signal_wake_up(g.task[u], FALSE)
  BY DEF BlocksTo
<1>2. \A u \in Threads : g.task[u] \in Task
  BY GroupType
<1>3. \A u \in Threads : h.task[u].pending = g.task[u].pending
  BY <1>1, <1>2, WokenKeeps
<1> QED
  BY <1>1, <1>3, QueueKept DEF signal_group_exit

LEMMA QueueMask ==
    ASSUME NEW g \in Group, QueueInv(g), NEW t \in Members(g), NEW newset \in SUBSET Signo
    PROVE  QueueInv(set_current_blocked(g, t, newset))
<1>1. CASE newset = g.task[t].blocked
  BY <1>1 DEF set_current_blocked
<1>2. CASE newset # g.task[t].blocked
  <2>1. BlocksTo(g, set_task_blocked(g, t, newset), t, newset) /\ t \in Threads
    BY SetTaskBlockedIs DEF Members
  <2> QED
    BY <1>2, <2>1, QueueBlocks DEF set_current_blocked
<1> QED
  BY <1>1, <1>2

\* complete_signal leaves every list alone.
LEMMA QueueComplete ==
    ASSUME NEW g \in Group, QueueInv(g), NEW sig, NEW p \in Members(g), NEW shared \in BOOLEAN, NEW cpu
    PROVE  QueueInv(complete_signal(g, sig, p, shared, cpu))
<1> DEFINE t == Target(g, sig, p, shared, cpu)
<1>1. PICK h : h = complete_signal(g, sig, p, shared, cpu)
  OBVIOUS
<1>2. \/ h = g
      \/ Doom(g, h)
      \/ t # NULL /\ WokenOne(g, h, t, sig = SIGKILL)
  BY <1>1, CompleteIs
<1>3. \A u \in Threads : g.task[u] \in Task /\ g.task[u].pending \in Pending
  BY GroupType, TaskType
<1>4. CASE Doom(g, h)
  <2>1. /\ h \in Group /\ h.flags = {"GROUP_EXIT"} /\ h.shared = g.shared /\ h.sigpending = g.sigpending
        /\ h.timer = g.timer
        /\ \A u \in Threads : h.task[u] = IF u \in Members(g) THEN Doomed(g.task[u]) ELSE g.task[u]
    BY <1>4 DEF Doom
  <2>2. \A u \in Threads : h.task[u].pending.list = g.task[u].pending.list
    <3> SUFFICES ASSUME NEW u \in Threads
                 PROVE  h.task[u].pending.list = g.task[u].pending.list
      OBVIOUS
    <3>1. Doomed(g.task[u]).pending = SetOnly(g.task[u].pending, SIGKILL)
      BY <1>3, DoomedIs
    <3>2. SetOnly(g.task[u].pending, SIGKILL).list = g.task[u].pending.list
      BY <1>3, SignalNumbers, SetOnlyIs
    <3> QED
      BY <2>1, <3>1, <3>2
  <2>3. \A x \in Queues : QueueOf(h, x).list = QueueOf(g, x).list
    BY <2>1, <2>2 DEF QueueOf, Queues
  <2>4. signal_group_exit(h)
    BY <2>1 DEF signal_group_exit
  <2>5. QueueInv(h)
    BY <2>1, <2>3, <2>4, QueueSame
  <2> QED
    BY <1>1, <2>5
<1>5. CASE t # NULL /\ WokenOne(g, h, t, sig = SIGKILL)
  <2>1. t \in Threads
    BY <1>5, TargetIs DEF Members
  <2> HIDE DEF t
  <2>2. /\ h \in Group /\ h.flags = g.flags /\ h.shared = g.shared /\ h.sigpending = g.sigpending
        /\ h.timer = g.timer /\ h.task[t] = signal_wake_up(g.task[t], sig = SIGKILL)
        /\ \A u \in Threads : u # t => h.task[u] = g.task[u]
    BY <1>5 DEF WokenOne
  <2>3. h.task[t].pending = g.task[t].pending
    BY <1>3, <2>1, <2>2, WakeIs
  <2>4. \A u \in Threads : h.task[u].pending = g.task[u].pending
    BY <2>2, <2>3
  <2>5. QueueInv(h)
    BY <2>2, <2>4, QueueKept DEF signal_group_exit
  <2> QED
    BY <1>1, <2>5
<1> QED
  BY <1>1, <1>2, <1>4, <1>5

LEMMA QueuePrepared ==
    ASSUME NEW g \in Group, QueueInv(g), NEW h, NEW mask, Prepared(g, h, mask)
    PROVE  QueueInv(h)
<1>1. /\ h \in Group /\ h.timer = g.timer /\ signal_group_exit(h) = signal_group_exit(g)
      /\ h.sigpending = FlushAll(g, mask).sigpending /\ h.shared = flush_sigqueue_mask(mask, g.shared).pending
      /\ \A t \in Threads : h.task[t].pending = flush_sigqueue_mask(mask, g.task[t].pending).pending
  BY DEF Prepared, PreparedAt
<1> QED
  BY <1>1, QueueFlush

\* A signal is sent; the entry of a fault goes to the queue of its thread.
LEMMA QueueSend ==
    ASSUME NEW g, NEW r, NEW j, Good(g, r, j), KillInv(g), QueueInv(g), NEW sig \in AllSignals, NEW info,
           NEW p \in Members(g), NEW shared \in BOOLEAN, NEW cpu, NEW mem,
           ~shared /\ info \in {"priv", "fault"} => sig = SIGSEGV
    PROVE  QueueInv(send_signal(g, sig, info, p, shared, cpu, mem))
<1> DEFINE n == prepare_signal(g, sig)
           h == send_signal(g, sig, info, p, shared, cpu, mem)
           q == NewEntry(sig, info)
<1>1. g \in Group /\ Good(n, r, JobAfter(j, sig)) /\ \E mask : Prepared(g, n, mask)
  BY PrepareGood DEF Good
<1>2. n \in Group /\ KillInv(n) /\ Members(n) = Members(g) /\ QueueInv(n) /\ p \in Threads
  BY <1>1, PreparedKill, QueuePrepared DEF Prepared, Members
<1>3. /\ q \in Entry /\ q.sig = sig /\ ~q.prealloc
      /\ \/ h = n
         \/ /\ ~legacy_queue(PendingOf(n, p, shared), sig)
            /\ \E k : Added(n, k, p, shared, q) /\ h = complete_signal(k, sig, p, shared, cpu)
  BY <1>1, <1>2, SendIs
<1>4. q.positive => sig \in SYNCHRONOUS_MASK /\ info \in {"priv", "fault"}
  BY DEF NewEntry, Sigqueue
<1> HIDE DEF n, h, q
<1>5. ASSUME NEW k, Added(n, k, p, shared, q), h = complete_signal(k, sig, p, shared, cpu),
             ~legacy_queue(PendingOf(n, p, shared), sig)
      PROVE  QueueInv(h)
  <2>1. q.positive /\ ~shared => q.sig = SIGSEGV /\ SIGSEGV \notin n.task[p].pending.signal
    <3> SUFFICES ASSUME q.positive, ~shared
                 PROVE  q.sig = SIGSEGV /\ SIGSEGV \notin n.task[p].pending.signal
      OBVIOUS
    <3>1. sig = SIGSEGV /\ SIGSEGV < SIGRTMIN
      BY <1>4 DEF SIGSEGV, SIGRTMIN
    <3> QED
      BY <1>3, <1>5, <3>1 DEF legacy_queue, PendingOf
  <2>2. QueueInv(k)
    BY <1>2, <1>3, <1>5, <2>1, QueueAdded
  <2>3. p \in Members(k) /\ k \in Group
    <3>1. q.sig \in SIG_KERNEL_STOP_MASK => JobAfter(j, sig) # "cont"
      BY <1>3 DEF JobAfter
    <3> QED
      <4>1. Good(k, r, JobAfter(j, sig)) /\ p \in Members(k)
        BY <1>1, <1>2, <1>3, <1>5, <3>1, AddedGood
      <4> QED
        BY <4>1 DEF Good
  <2> QED
    BY <1>5, <2>2, <2>3, QueueComplete
<1> QED
  BY <1>2, <1>3, <1>5 DEF h

LEMMA QueueUnblocked ==
    ASSUME NEW g \in Group, QueueInv(g), NEW h, NEW t \in Threads, Unblocked(g, h, t)
    PROVE  QueueInv(h)
<1>1. /\ h \in Group /\ h.shared = g.shared /\ h.flags = g.flags /\ h.sigpending = g.sigpending /\ h.timer = g.timer
      /\ \A u \in Threads : h.task[u].pending = g.task[u].pending
  BY DEF Unblocked
<1> QED
  BY <1>1, QueueKept DEF signal_group_exit

LEMMA QueueAct ==
    ASSUME NEW g \in Group, QueueInv(g), NEW h, ActOnly(g, h)
    PROVE  QueueInv(h) /\ h \in Group
<1>1. /\ h \in Group /\ h.shared = g.shared /\ h.flags = g.flags /\ h.sigpending = g.sigpending /\ h.timer = g.timer
      /\ h.task = g.task
  BY DEF ActOnly
<1> QED
  BY <1>1, QueueKept DEF signal_group_exit

LEMMA QueueForced ==
    ASSUME NEW g, NEW r, NEW j, Good(g, r, j), KillInv(g), QueueInv(g), NEW t \in Threads, NEW info, NEW mem,
           ~Dying(r[t])
    PROVE  QueueInv(force_sig_info(g, SIGSEGV, info, t, mem))
<1>1. g \in Group /\ g.action[SIGKILL].handler = "SIG_DFL"
  BY DEF Good
<1>2. PICK x : x = force_sig_info(g, SIGSEGV, info, t, mem)
  OBVIOUS
<1>3. PICK k : Unblocked(g, k, t) /\ x = send_signal(k, SIGSEGV, info, t, FALSE, {t}, mem)
  <2>1. Forced(g, x, t, info, mem)
    BY <1>1, <1>2, ForceIs
  <2> QED
    BY <2>1 DEF Forced
<1>4. Good(k, r, j) /\ KillInv(k) /\ QueueInv(k)
  BY <1>1, <1>3, UnblockedGood, QueueUnblocked
<1>5. t \in Members(k) /\ SIGSEGV \in AllSignals /\ FALSE \in BOOLEAN
  BY <1>4, MembersBy, SignalNumbers DEF Dying, ExitPcs
<1>6. QueueInv(send_signal(k, SIGSEGV, info, t, FALSE, {t}, mem))
  BY <1>4, <1>5, QueueSend
<1> QED
  BY <1>2, <1>3, <1>6

\* Whatever is left of do_signal_stop: another turn of the loop, or t stops.
LEMMA QueueStop ==
    ASSUME NEW g, Good(g, run, job), KillInv(g), QueueInv(g), NEW t \in Threads, g.task[t].state = "running",
           ~g.task[t].exiting, run[t].pc \in {"loop", "relock", "rearm", "stop"}, do_signal_stop(g, t)
    PROVE  QueueInv(group')
<1> DEFINE new == IF "STOP_PENDING" \in g.task[t].jobctl THEN g ELSE InitiateStop(g, t)
           x == task_participate_group_stop(new, t)
           h == [x.group EXCEPT !.task[t].state = "stopped"]
<1>1. CASE "STOP_PENDING" \notin g.task[t].jobctl /\ StopCancelledMeanwhile(g, t)
  BY <1>1 DEF do_signal_stop
<1>2. CASE ~("STOP_PENDING" \notin g.task[t].jobctl /\ StopCancelledMeanwhile(g, t))
  <2>1. group' = h
    BY <1>2 DEF do_signal_stop
  <2>2. ~signal_group_exit(g)
    <3>1. signal_group_exit(g) => "STOP_PENDING" \notin g.task[t].jobctl
      BY DEF Good, Death, DeathAt, ExitPcs
    <3> QED
      BY <1>2, <3>1 DEF StopCancelledMeanwhile
  <2>3. "STOP_PENDING" \in g.task[t].jobctl \/ "STOP_DEQUEUED" \in g.task[t].jobctl
    BY <1>2 DEF StopCancelledMeanwhile
  <2>4. g.task[t].exiting = FALSE /\ g \in Group
    BY GroupType, TaskType DEF Good
  <2>5. Halted(g, h, t, x.notify)
    BY <2>2, <2>3, <2>4, StopIs
  <2>6. PICK k, last : k = h /\ last = x.notify
    OBVIOUS
  <2> HIDE DEF h, x
  <2>7. Halted(g, k, t, last)
    BY <2>5, <2>6
  <2>8. /\ k \in Group /\ k.shared = g.shared /\ k.sigpending = g.sigpending /\ k.timer = g.timer
        /\ \A u \in Threads : k.task[u].pending = g.task[u].pending
    BY <2>7 DEF Halted, Joins
  <2>9. QueueInv(k)
    BY <2>2, <2>4, <2>8, QueueKept
  <2> QED
    BY <2>1, <2>6, <2>9
<1> QED
  BY <1>1, <1>2

LEMMA QueueDispatch ==
    ASSUME NEW g \in Group, KillInv(g), QueueInv(g), g.action[SIGKILL].handler = "SIG_DFL", NEW t \in Threads,
           g.task[t].state = "running", ~g.task[t].exiting, run[t].pc \in {"loop", "relock", "rearm"},
           NEW sig \in AllSignals \cup {0}, sig # SIGKILL => Good(g, run, job), Dispatch(g, t, sig)
    PROVE  QueueInv(group')
<1>1. CASE group' = g
  BY <1>1
<1>2. CASE sig \in AllSignals /\ group' = [g EXCEPT !.action[sig].handler = "SIG_DFL"]
  BY <1>2, DefaultIs, QueueAct
<1>3. CASE sig # SIGKILL /\ do_signal_stop(g, t)
  BY <1>3, QueueStop
<1> QED
  BY <1>1, <1>2, <1>3, DispatchIs

-----------------------------------------------------------------------------
(* The queues, step by step *)

LEMMA SigwaitQueue ==
    ASSUME Core, QueueInv(group), NEW t \in Threads, NEW set \in Masks, NEW timeout,
           do_sigtimedwait(t, set, timeout)
    PROVE  QueueInv(group')
<1> DEFINE which == Blockable(set)
           d == dequeue_signal(group, t, AllSignals \ which)
           k == d.group
           a == group.task[t]
           c == [k.task[t] EXCEPT !.real_blocked = a.blocked, !.blocked = @ \ which, !.state = "interruptible"]
<1>1. group \in Group /\ a.blocked \subseteq Signo
  BY MaskBits
<1>2. group' = k \/ group' = recalc_sigpending(SetTask(k, t, c), t)
  BY DEF do_sigtimedwait
<1> HIDE DEF which
<1>3. /\ Took(group, k, t, d.sig)
      /\ Listed(group.task[t].pending) => Listed(k.task[t].pending)
      /\ Listed(group.shared) => Listed(k.shared)
  BY <1>1, DequeueSignalIs
<1>4. k \in Group
  BY <1>3, TookKeeps
<1>5. QueueInv(k)
  <2>1. PICK sig : sig = d.sig
    OBVIOUS
  <2>2. ~signal_group_exit(group) => Listed(k.task[t].pending) /\ Listed(k.shared)
    BY <1>3, QueueAre DEF QueueInv, ListInv
  <2> QED
    BY <1>1, <1>3, <1>4, <2>1, <2>2, QueueTook
<1>6. CASE group' = recalc_sigpending(SetTask(k, t, c), t)
  <2>1. k.task[t] \in Task
    BY <1>4, GroupType
  <2>2. c \in Task /\ c.pending = k.task[t].pending
    BY <1>1, <2>1 DEF Task
  <2> HIDE DEF c, k
  <2>3. PICK m : m = SetTask(k, t, c)
    OBVIOUS
  <2>4. OneTask(k, m, t, c)
    BY <1>4, <2>2, <2>3, OneTaskIs
  <2>5. m \in Group /\ m.task[t] = c
    BY <2>4 DEF OneTask
  <2>6. PICK b : OneTask(m, group', t, b) /\ b.pending = c.pending
    BY <1>6, <2>3, <2>5, RecalcOne
  <2>7. /\ group' \in Group /\ group'.shared = k.shared /\ group'.flags = k.flags
        /\ group'.sigpending = k.sigpending /\ group'.timer = k.timer
        /\ \A u \in Threads : group'.task[u].pending = k.task[u].pending
    BY <2>2, <2>4, <2>6 DEF OneTask
  <2> QED
    BY <1>4, <1>5, <2>7, QueueKept DEF signal_group_exit
<1> QED
  BY <1>2, <1>5, <1>6

LEMMA EndSigwaitQueue ==
    ASSUME Core, QueueInv(group), NEW t \in Threads, EndSigwait(t)
    PROVE  QueueInv(group')
<1>1. PICK g1, g2, sig :
        /\ BlocksTo(group, g1, t, group.task[t].real_blocked) /\ Awake(g1, g2, t)
        /\ Took(g2, group', t, sig)
        /\ Listed(g2.task[t].pending) => Listed(group'.task[t].pending)
        /\ Listed(g2.shared) => Listed(group'.shared)
  BY EndSigwaitIs
<1>2. group \in Group
  BY MaskBits
<1>3. QueueInv(g1) /\ g1 \in Group
  BY <1>1, <1>2, QueueBlocks DEF BlocksTo
<1>4. /\ g2 \in Group /\ g2.shared = g1.shared /\ g2.flags = g1.flags /\ g2.sigpending = g1.sigpending
      /\ g2.timer = g1.timer /\ \A u \in Threads : g2.task[u].pending = g1.task[u].pending
  BY <1>1 DEF Awake, OneTask
<1>5. QueueInv(g2)
  BY <1>3, <1>4, QueueKept DEF signal_group_exit
<1>6. ~signal_group_exit(g2) => Listed(group'.task[t].pending) /\ Listed(group'.shared)
  BY <1>1, <1>5, QueueAre DEF QueueInv, ListInv
<1>7. PICK h : h = group'
  OBVIOUS
<1>8. Took(g2, h, t, sig) /\ h \in Group /\ (~signal_group_exit(g2) => Listed(h.task[t].pending) /\ Listed(h.shared))
  BY <1>1, <1>6, <1>7, TookKeeps
<1>9. QueueInv(h)
  BY <1>4, <1>5, <1>8, QueueTook
<1> QED
  BY <1>7, <1>9

LEMMA GetSignalQueue ==
    ASSUME Core, QueueInv(group), NEW t \in Threads, GetSignal(t)
    PROVE  QueueInv(group')
<1> DEFINE d == Dequeue(group, t)
<1>1. InLoop(t)
  BY DEF GetSignal
<1>2. /\ run[t].pc \in {"loop", "relock"} /\ group.task[t].state = "running" /\ ~group.task[t].exiting
      /\ ~Dying(run[t]) /\ group \in Group /\ Good(group, run, job) /\ KillInv(group)
      /\ group.action[SIGKILL].handler = "SIG_DFL"
  BY <1>1, InLoopIs
<1>3. group' = d.group \/ Dispatch(d.group, t, d.sig)
  BY DEF GetSignal
<1>4. /\ Took(group, d.group, t, d.sig) /\ d.sig \in AllSignals \cup {0}
      /\ Listed(group.task[t].pending) /\ FaultFirst(group.task[t].pending) => Listed(d.group.task[t].pending)
      /\ Listed(group.shared) => Listed(d.group.shared)
  BY <1>2, DequeueIs
<1>5. PICK h, sig : h = d.group /\ sig = d.sig
  OBVIOUS
<1> HIDE DEF d
<1>6. Took(group, h, t, sig) /\ sig \in AllSignals \cup {0}
  BY <1>4, <1>5
<1>7. /\ h \in Group /\ h.flags = group.flags /\ h.action = group.action
      /\ h.task[t].state = group.task[t].state /\ h.task[t].exiting = group.task[t].exiting
  BY <1>6, TookKeeps
<1>8. ~signal_group_exit(group) => Listed(h.task[t].pending) /\ Listed(h.shared)
  BY <1>4, <1>5, QueueAre DEF QueueInv, ListInv
<1>9. QueueInv(h)
  BY <1>2, <1>6, <1>7, <1>8, QueueTook
<1>10. CASE Dispatch(d.group, t, d.sig)
  <2>1. run[t].pc \notin ExitPcs \cup {"rearm", "deliver", "stopnotify"} /\ run[t].which \cap SIG_KERNEL_ONLY_MASK = {}
    BY <1>2, MaskBits DEF ExitPcs
  <2>2. KillInv(h) /\ (sig # SIGKILL => Good(h, run, job))
    <3>1. sig # SIGKILL => Good(h, run, job) /\ KillInv(h)
      BY <1>2, <1>6, <2>1, TookMove
    <3>2. PICK q : q = [run EXCEPT ![t].pc = "fatal"]
      OBVIOUS
    <3>3. q[t].pc = "fatal" /\ q[t].which = run[t].which /\ q[t].saved = run[t].saved
          /\ \A u \in Threads : u # t => q[u] = run[u]
      BY <3>2, MaskBits DEF Run
    <3>4. q[t].pc \notin ExitPcs \cup {"rearm", "deliver", "stopnotify"} /\ q[t].which \cap SIG_KERNEL_ONLY_MASK = {}
      BY <2>1, <3>3 DEF ExitPcs
    <3>5. KillInv(h)
      BY <1>2, <1>6, <3>3, <3>4, TookMove
    <3> QED
      BY <3>1, <3>5
  <2>3. ~h.task[t].exiting /\ h.task[t].state = "running" /\ h.action[SIGKILL].handler = "SIG_DFL" /\ Dispatch(h, t, sig)
    BY <1>2, <1>5, <1>7, <1>10
  <2> QED
    BY <1>2, <1>6, <1>7, <1>9, <2>2, <2>3, QueueDispatch
<1> QED
  BY <1>3, <1>5, <1>9, <1>10

\* A thread leaves without its signals.
LEMMA QueueLeft ==
    ASSUME NEW g \in Group, QueueInv(g), NEW h, NEW t \in Threads, Left(g, h, t)
    PROVE  QueueInv(h)
<1>1. /\ h \in Group /\ h.shared = g.shared /\ h.flags = g.flags /\ h.sigpending = g.sigpending /\ h.timer = g.timer
  BY DEF Left
<1>2. \A u \in Threads : h.task[u].pending = g.task[u].pending
  <2>1. LeftBy(g, h, t)
    BY LeftTasks
  <2> QED
    BY <2>1 DEF LeftBy
<1> QED
  BY <1>1, <1>2, QueueKept DEF signal_group_exit

LEMMA ExitSignalsQueue ==
    ASSUME Core, QueueInv(group), NEW t \in Threads, exit_signals(t)
    PROVE  QueueInv(group')
<1> DEFINE a == group.task[t]
           gone == [group EXCEPT !.task[t].exiting = TRUE]
           offered == retarget_shared_pending(gone, t, AllSignals \ a.blocked)
           x == task_participate_group_stop(offered, t)
           stops == a.tif /\ "STOP_PENDING" \in a.jobctl
<1>1. /\ run[t].pc = "exitlock"
      /\ group' = IF stops THEN x.group ELSE IF a.tif THEN offered ELSE gone
  BY DEF exit_signals, Locked
<1>2. Good(group, run, job) /\ group \in Group /\ Death(group, run)
  BY DEF Core, Good
<1>3. Left(group, gone, t) /\ Left(group, offered, t)
  BY <1>2, GoneIs, OfferedIs
<1> HIDE DEF gone, offered
<1>4. QueueInv(gone) /\ QueueInv(offered) /\ offered \in Group
  BY <1>2, <1>3, QueueLeft DEF Left
<1>5. CASE stops
  <2>1. ~signal_group_exit(group)
    BY <1>1, <1>2, <1>5 DEF Death, DeathAt, ExitPcs, Dying
  <2>2. Stopping(offered, Joining(group), t)
    BY <1>2, <1>3, <1>5, <2>1, LeftStopping
  <2>3. PICK h, last : h = x.group /\ last = x.notify
    OBVIOUS
  <2>4. TookPart(offered, h, Joining(group), t, last)
    BY <2>2, <2>3, ParticipateIs
  <2> HIDE DEF x
  <2>5. /\ h \in Group /\ h.shared = offered.shared /\ h.sigpending = offered.sigpending /\ h.timer = offered.timer
        /\ h.task[t] = [offered.task[t] EXCEPT !.jobctl = {}]
        /\ \A u \in Threads : u # t => h.task[u] = offered.task[u]
    BY <2>4 DEF TookPart
  <2>6. offered.task[t] \in Task
    BY <1>4, GroupType
  <2>7. h.task[t].pending = offered.task[t].pending
    BY <2>5, <2>6 DEF Task
  <2>8. ~signal_group_exit(offered)
    BY <2>2 DEF Stopping
  <2>9. \A u \in Threads : h.task[u].pending = offered.task[u].pending
    BY <2>5, <2>7
  <2>10. QueueInv(h)
    BY <1>4, <2>5, <2>8, <2>9, QueueKept
  <2> QED
    BY <1>1, <1>5, <2>3, <2>10
<1> QED
  BY <1>1, <1>4, <1>5

LEMMA GroupExitQueue ==
    ASSUME Core, QueueInv(group), NEW t \in Threads, do_group_exit(t)
    PROVE  QueueInv(group')
<1>1. group' = IF signal_group_exit(group) THEN group
               ELSE zap_other_threads([group EXCEPT !.flags = {"GROUP_EXIT"}], t)
  BY DEF do_group_exit
<1>2. group \in Group /\ \A u \in Threads : group.task[u] \in Task /\ group.task[u].pending \in Pending
  BY MaskBits, GroupType, TaskType
<1>3. PICK h : h = zap_other_threads([group EXCEPT !.flags = {"GROUP_EXIT"}], t)
  OBVIOUS
<1>4. Zapped(group, h, t)
  BY <1>2, <1>3, ZapIs
<1>5. /\ h \in Group /\ h.flags = {"GROUP_EXIT"} /\ h.shared = group.shared /\ h.sigpending = group.sigpending
      /\ h.timer = group.timer
      /\ \A u \in Threads : h.task[u] = IF u \in Members(group) \ {t} THEN Doomed(group.task[u]) ELSE group.task[u]
  BY <1>4 DEF Zapped
<1>6. ASSUME NEW u \in Threads
      PROVE  h.task[u].pending.list = group.task[u].pending.list
  <2>1. Doomed(group.task[u]).pending = SetOnly(group.task[u].pending, SIGKILL)
    BY <1>2, DoomedIs
  <2>2. SetOnly(group.task[u].pending, SIGKILL).list = group.task[u].pending.list
    BY <1>2, SignalNumbers, SetOnlyIs
  <2> QED
    BY <1>5, <2>1, <2>2
<1>7. \A x \in Queues : QueueOf(h, x).list = QueueOf(group, x).list
  BY <1>5, <1>6 DEF QueueOf, Queues
<1>8. signal_group_exit(h)
  BY <1>5 DEF signal_group_exit
<1>9. QueueInv(h)
  BY <1>2, <1>5, <1>7, <1>8, QueueSame
<1> QED
  BY <1>1, <1>3, <1>9

LEMMA MarkedQueue ==
    ASSUME Core, QueueInv(group), NEW t \in Threads, MarkedForDeath(t)
    PROVE  QueueInv(group')
<1> DEFINE a == group.task[t]
           c == [a EXCEPT !.pending.signal = @ \ {SIGKILL}]
           k == [group EXCEPT !.task[t].pending.signal = @ \ {SIGKILL}]
<1>1. signal_group_exit(group) /\ group' = recalc_sigpending(k, t)
  BY DEF MarkedForDeath, Locked
<1>2. group \in Group /\ a \in Task
  BY MaskBits
<1>3. k = SetTask(group, t, c) /\ c \in Task /\ c.pending.list = a.pending.list
  BY <1>2 DEF SetTask, Group, Task, Pending
<1> HIDE DEF c, k
<1>4. OneTask(group, k, t, c)
  BY <1>2, <1>3, OneTaskIs
<1>5. k \in Group /\ k.task[t] = c
  BY <1>4 DEF OneTask
<1>6. PICK b : OneTask(k, group', t, b) /\ b.pending = c.pending
  BY <1>1, <1>5, RecalcOne
<1>7. /\ group' \in Group /\ group'.shared = group.shared /\ group'.flags = group.flags
      /\ group'.sigpending = group.sigpending /\ group'.timer = group.timer
      /\ \A u \in Threads : group'.task[u].pending.list = group.task[u].pending.list
  BY <1>3, <1>4, <1>6 DEF OneTask
<1>8. PICK h : h = group'
  OBVIOUS
<1>9. \A x \in Queues : QueueOf(h, x).list = QueueOf(group, x).list
  BY <1>7, <1>8 DEF QueueOf, Queues
<1>10. /\ h \in Group /\ h.sigpending = group.sigpending /\ h.timer = group.timer /\ signal_group_exit(h)
  BY <1>1, <1>7, <1>8 DEF signal_group_exit
<1>11. QueueInv(h)
  BY <1>2, <1>9, <1>10, QueueSame
<1> QED
  BY <1>8, <1>11

LEMMA SendQueue ==
    ASSUME Core, QueueInv(group), NEW sig \in AllSignals, NEW info, NEW p \in Threads, NEW shared \in BOOLEAN,
           Send(sig, info, p, shared), ~shared => info = "queue"
    PROVE  QueueInv(group')
<1>1. p \in Members(group)
  BY DEF Send
<1>2. PICK mem, cpu : group' = send_signal(group, sig, info, p, shared, cpu, mem)
  BY DEF Send
<1>3. Good(group, run, job) /\ KillInv(group)
  BY DEF Core
<1>4. QueueInv(send_signal(group, sig, info, p, shared, cpu, mem))
  BY <1>1, <1>3, QueueSend
<1> QED
  BY <1>2, <1>4

LEMMA SendSigqueueQueue ==
    ASSUME Core, QueueInv(group), NEW p \in Threads, NEW shared \in BOOLEAN, send_sigqueue(p, shared)
    PROVE  QueueInv(group')
<1> DEFINE n == prepare_signal(group, TimerSignal)
           k == PutPending(n, p, shared, Enqueue(PendingOf(n, p, shared), TimerEntry))
           i == JobAfter(job, TimerSignal)
<1>1. p \in Members(group) /\ group.timer
  BY DEF send_sigqueue
<1>2. PICK cpu : \/ group' = n
                 \/ ~TimerQueued(n) /\ group' = complete_signal(k, TimerSignal, p, shared, cpu)
  BY DEF send_sigqueue, TimerEntry
<1>3. Good(group, run, job) /\ KillInv(group) /\ group \in Group
  BY DEF Core, Good
<1>4. Good(n, run, i) /\ \E mask : Prepared(group, n, mask)
  BY <1>3, PrepareGood
<1>5. n \in Group /\ KillInv(n) /\ Members(n) = Members(group) /\ n.timer /\ QueueInv(n)
  BY <1>1, <1>3, <1>4, PreparedKill, QueuePrepared DEF Prepared
<1> HIDE DEF n
<1>6. Added(n, k, p, shared, TimerEntry) /\ TimerEntry \in Entry /\ TimerEntry.sig = TimerSignal /\ ~TimerEntry.positive
  BY <1>5, SendTimerIs, TimerEntryIs
<1> HIDE DEF k
<1>7. CASE ~TimerQueued(n) /\ group' = complete_signal(k, TimerSignal, p, shared, cpu)
  <2>1. QueueInv(k)
    BY <1>5, <1>6, <1>7, QueueAdded
  <2>2. TimerEntry.sig \in SIG_KERNEL_STOP_MASK => i # "cont"
    BY <1>6 DEF JobAfter
  <2> HIDE DEF i
  <2>3. Good(k, run, i) /\ p \in Members(k)
    BY <1>1, <1>4, <1>5, <1>6, <2>2, AddedGood
  <2>4. k \in Group
    BY <2>3 DEF Good
  <2> QED
    BY <1>7, <2>1, <2>3, <2>4, QueueComplete
<1> QED
  BY <1>2, <1>5, <1>7

LEMMA TimerQueue ==
    ASSUME Core, QueueInv(group), NEW t \in Threads, sigqueue_alloc(t) \/ timer_delete(t)
    PROVE  QueueInv(group')
<1>1. group \in Group
  BY MaskBits
<1>2. CASE sigqueue_alloc(t)
  <2>1. group' = [group EXCEPT !.timer = TRUE, !.sigpending = @ + 1] /\ ~group.timer
    BY <1>2 DEF sigqueue_alloc
  <2>2. PICK h : h = group'
    OBVIOUS
  <2>3. PICK m \in Int : m = group.sigpending + 1
    BY <1>1, GroupType
  <2>4. h = [group EXCEPT !.timer = TRUE, !.sigpending = m]
    BY <2>1, <2>2, <2>3
  <2>5. /\ h \in Group /\ h.task = group.task /\ h.shared = group.shared /\ h.flags = group.flags
        /\ h.timer /\ h.sigpending = group.sigpending + 1
    BY <1>1, <2>3, <2>4 DEF Group
  <2>6. QueueInv(h)
    BY <1>1, <2>1, <2>5, QueueAlloc
  <2> QED
    BY <2>2, <2>6
<1>3. CASE timer_delete(t)
  <2>1. group' = sigqueue_free(group) /\ group.timer
    BY <1>3 DEF timer_delete
  <2>2. Disowned(group, sigqueue_free(group))
    BY <1>1, SigqueueFreeIs
  <2> QED
    BY <1>1, <2>1, <2>2, QueueDisowned
<1> QED
  BY <1>2, <1>3

LEMMA ReleaseQueue ==
    ASSUME Core, QueueInv(group), NEW t \in Threads, release_task(t)
    PROVE  QueueInv(group')
<1>1. PICK k : /\ k = group \/ (t = leader /\ group.timer /\ Disowned(group, k))
               /\ t = leader => ~k.timer
               /\ Gone(k, group', t)
  BY ReleaseIs
<1>2. group \in Group
  BY MaskBits
<1>3. QueueInv(k) /\ k \in Group
  BY <1>1, <1>2, QueueDisowned DEF Disowned
<1>4. PICK h : h = group'
  OBVIOUS
<1>5. QueueInv(h)
  BY <1>1, <1>3, <1>4, QueueGone
<1> QED
  BY <1>4, <1>5

LEMMA SigactionQueue ==
    ASSUME Core, QueueInv(group), NEW t \in Threads, NEW sig \in Settable, NEW act \in Actions, do_sigaction(t, sig, act)
    PROVE  QueueInv(group')
<1> DEFINE new == [group EXCEPT !.action[sig] = [act EXCEPT !.mask = Blockable(@)]]
<1>1. group' = new \/ group' = FlushAll(new, {sig})
  BY DEF do_sigaction
<1>2. Good(group, run, job) /\ group \in Group /\ group.action[SIGKILL].handler = "SIG_DFL"
  BY DEF Core, Good
<1>3. sig \in AllSignals /\ SIGKILL \notin {sig}
  BY SignalNumbers, SignalsConstants DEF SIG_KERNEL_ONLY_MASK
<1>4. [act EXCEPT !.mask = Blockable(@)] \in Action
  BY ActionTypes, BlockableIs DEF Action
<1>5. ActOnly(group, new)
  BY <1>2, <1>3, <1>4, ActIs
<1> HIDE DEF new
<1>6. Good(new, run, job) /\ QueueInv(new) /\ new \in Group
  BY <1>2, <1>5, ActGood, QueueAct
<1>7. QueueInv(FlushAll(new, {sig}))
  BY <1>3, <1>6, FlushPrepared, QueuePrepared
<1> QED
  BY <1>1, <1>6, <1>7

\* Steps in which a thread only goes on, or changes a mask or the state of its task.
LEMMA OwnQueue ==
    ASSUME Core, QueueInv(group), NEW t \in Threads, Sleep(t) \/ NoticeContinue(t) \/ ExitAlone(t)
    PROVE  QueueInv(group')
<1>1. group \in Group /\ group.task[t] \in Task
  BY MaskBits
<1>2. CASE Sleep(t)
  <2>1. PICK s \in {"running", "interruptible"} : group' = [group EXCEPT !.task[t].state = s]
    BY <1>2 DEF Sleep
  <2>2. PICK b : b = [group.task[t] EXCEPT !.state = s]
    OBVIOUS
  <2>3. group' = SetTask(group, t, b) /\ b \in Task /\ b.pending = group.task[t].pending
    BY <1>1, <2>1, <2>2 DEF SetTask, Group, Task
  <2>4. OneTask(group, group', t, b)
    BY <1>1, <2>3, OneTaskIs
  <2>5. /\ group' \in Group /\ group'.shared = group.shared /\ group'.flags = group.flags
        /\ group'.sigpending = group.sigpending /\ group'.timer = group.timer
        /\ \A u \in Threads : group'.task[u].pending = group.task[u].pending
    BY <2>3, <2>4 DEF OneTask
  <2> QED
    BY <1>1, <2>5, QueueKept DEF signal_group_exit
<1>3. CASE NoticeContinue(t)
  <2>1. group' = [group EXCEPT !.flags = group.flags \ {"CLD_STOPPED", "CLD_CONTINUED"}]
    BY <1>3 DEF NoticeContinue
  <2>2. /\ group' \in Group /\ group'.flags = group.flags \ {"CLD_STOPPED", "CLD_CONTINUED"} /\ group'.task = group.task
        /\ group'.shared = group.shared /\ group'.sigpending = group.sigpending /\ group'.timer = group.timer
    BY <1>1, <2>1 DEF Group
  <2> QED
    BY <1>1, <2>2, QueueKept DEF signal_group_exit
<1>4. CASE ExitAlone(t)
  <2>1. group' = [group EXCEPT !.task[t].exiting = TRUE]
    BY <1>4 DEF ExitAlone
  <2>2. PICK h : h = group'
    OBVIOUS
  <2>3. Left(group, h, t)
    BY <1>1, <2>1, <2>2, GoneIs
  <2>4. QueueInv(h)
    BY <1>1, <2>3, QueueLeft
  <2> QED
    BY <2>2, <2>4
<1> QED
  BY <1>2, <1>3, <1>4

LEMMA MaskQueue ==
    ASSUME Core, QueueInv(group), NEW t \in Threads, NEW newset \in SUBSET Signo, NEW v \in Run, Masked(t, newset, v)
    PROVE  QueueInv(group')
<1>1. run[t].pc \in {"user", "restore", "deliver"} /\ group' = set_current_blocked(group, t, newset)
  BY DEF Masked
<1>2. group \in Group /\ t \in Members(group)
  BY <1>1, MaskBits DEF LinkAt, Members
<1> QED
  BY <1>1, <1>2, QueueMask

LEMMA ForcedQueue ==
    ASSUME Core, QueueInv(group), NEW t \in Threads, NEW info, NEW mem, NEW v, Raised(t, info, mem, v)
    PROVE  QueueInv(group')
<1>1. group' = force_sig_info(group, SIGSEGV, info, t, mem)
  BY DEF Raised
<1>2. Good(group, run, job) /\ KillInv(group) /\ ~Dying(run[t])
  BY RaisedFrom
<1> QED
  BY <1>1, <1>2, QueueForced

LEMMA ResetQueue ==
    ASSUME Core, QueueInv(group), NEW t \in Threads, ResetSegv(t)
    PROVE  QueueInv(group')
<1>1. group' = group \/ ActOnly(group, group')
  BY ResetIs
<1>2. group \in Group
  BY MaskBits
<1> QED
  BY <1>1, <1>2, QueueAct

LEMMA StopQueue ==
    ASSUME Core, QueueInv(group), NEW t \in Threads, JoinGroupStop(t) \/ Stop(t)
    PROVE  QueueInv(group')
<1>1. (InLoop(t) \/ Locked(t, "stop")) /\ do_signal_stop(group, t)
  BY DEF JoinGroupStop, Stop
<1> QED
  BY <1>1, InLoopIs, QueueStop

LEMMA RearmedQueue ==
    ASSUME Core, QueueInv(group), NEW t \in Threads, Rearmed(t)
    PROVE  QueueInv(group')
<1>1. Locked(t, "rearm") /\ run[t].pc = "rearm" /\ Dispatch(group, t, run[t].sig)
  BY DEF Rearmed, Locked
<1>2. /\ group.task[t].state = "running" /\ ~group.task[t].exiting /\ run[t] \in Run /\ group \in Group
      /\ Good(group, run, job) /\ KillInv(group) /\ group.action[SIGKILL].handler = "SIG_DFL"
  BY <1>1, InLoopIs
<1>3. run[t].sig \in AllSignals \cup {0}
  BY <1>2, RunType
<1> QED
  BY <1>1, <1>2, <1>3, QueueDispatch

LEMMA InitQueue ==
    ASSUME Init
    PROVE  QueueInv(group)
<1>1. /\ group \in Group /\ group.shared = EmptyPending /\ group.sigpending = 0 /\ group.timer = FALSE
      /\ \A t \in Threads : group.task[t] = NewTask
  BY InitGroup
<1>2. EmptyPending.list = <<>> /\ NewTask.pending = EmptyPending
  BY DEF EmptyPending, NewTask
<1>3. \A x \in Queues : QueueOf(group, x) = EmptyPending
  BY <1>1, <1>2 DEF QueueOf, Queues
<1>4. FreeAll(EmptyPending.list) = 0 /\ Len(EmptyPending.list) = 0
  <2>1. {i \in DOMAIN EmptyPending.list : ~EmptyPending.list[i].prealloc} = {} /\ Len(EmptyPending.list) = 0
    BY <1>2
  <2> QED
    BY <2>1, FS_EmptySet DEF FreeAll
<1>5. Counted(group)
  <2>1. Own(group) = [t \in Threads |-> 0]
    BY <1>1, <1>2, <1>4 DEF Own
  <2>2. Total([t \in Threads |-> 0], Threads) = 0
    BY TotalZero, ThreadsFinite
  <2>3. Queued(group) = 0
    BY <1>1, <1>4, <2>1, <2>2, QueuedIs
  <2> QED
    BY <1>1, <2>3 DEF Counted
<1>6. TimerOnce(group)
  BY <1>3, <1>4 DEF TimerOnce, PreallocAt
<1>7. ListInv(group)
  BY <1>1, <1>2, <1>3, <1>4 DEF ListInv, Listed, FaultFirst
<1> QED
  BY <1>5, <1>6, <1>7 DEF QueueInv

LEMMA QueueNext ==
    ASSUME Core, QueueInv(group), [Next]_vars
    PROVE  QueueInv(group')
<1>1. ASSUME NEW t \in Threads, KernelStep(t)
      PROVE  QueueInv(group')
  <2>1. CASE exit_to_usermode_loop(t) \/ NotifyParent(t) \/ CheckOrphaned(t) \/ Resume(t) \/ ExitAmongOthers(t)
             \/ do_notify_parent(t)
    BY <2>1 DEF exit_to_usermode_loop, NotifyParent, CheckOrphaned, Resume, ExitAmongOthers, do_notify_parent
  <2>2. CASE Sleep(t) \/ SigwaitWoken(t) \/ NoticeContinue(t) \/ MarkedForDeath(t) \/ ExitAlone(t)
    BY <2>2, OwnQueue, EndSigwaitQueue, MarkedQueue DEF SigwaitWoken
  <2>3. CASE JoinGroupStop(t) \/ GetSignal(t) \/ Rearmed(t) \/ Stop(t)
    BY <2>3, StopQueue, GetSignalQueue, RearmedQueue
  <2>4. CASE RestoreMask(t) \/ signal_delivered(t)
    BY <2>4, RestoreIs, DeliveredIs, MaskQueue
  <2>5. CASE ResetSegv(t) \/ force_sigsegv(t) \/ (run[t].pc = "fatal" /\ do_group_exit(t)) \/ exit_signals(t)
             \/ release_task(t)
    BY <2>5, ResetQueue, ForceSigsegvIs, ForcedQueue, GroupExitQueue, ExitSignalsQueue, ReleaseQueue
  <2> QED
    BY <1>1, <2>1, <2>2, <2>3, <2>4, <2>5 DEF KernelStep
<1>2. ASSUME NEW t \in Threads, UserStep(t)
      PROVE  QueueInv(group')
  <2>1. CASE \E how \in {"SIG_BLOCK", "SIG_UNBLOCK", "SIG_SETMASK"}, set \in Masks : rt_sigprocmask(t, how, set)
    BY <2>1, SigprocmaskIs, MaskQueue
  <2>2. CASE \E sig \in Settable, act \in Actions : do_sigaction(t, sig, act)
    BY <2>2, SigactionQueue
  <2>3. CASE \E set \in Masks : sigsuspend(t, set) \/ \E timeout \in {0, 1} : do_sigtimedwait(t, set, timeout)
    BY <2>3, SuspendIs, MaskQueue, SigwaitQueue
  <2>4. CASE SigwaitTimeout(t) \/ Fault(t) \/ sigqueue_alloc(t) \/ timer_delete(t)
    BY <2>4, EndSigwaitQueue, FaultIs, ForcedQueue, TimerQueue DEF SigwaitTimeout
  <2>5. CASE pause(t) \/ do_exit(t)
    BY <2>5 DEF pause, do_exit
  <2>6. CASE run[t].pc = "user" /\ do_group_exit(t)
    BY <2>6, GroupExitQueue
  <2> QED
    BY <1>2, <2>1, <2>2, <2>3, <2>4, <2>5, <2>6 DEF UserStep
<1>3. ASSUME Sender
      PROVE  QueueInv(group')
  <2>1. Sendable \subseteq AllSignals /\ SIGKILL \in AllSignals /\ leader \in Threads /\ TRUE \in BOOLEAN /\ FALSE \in BOOLEAN
    BY SignalNumbers, ThreadsFinite
  <2>2. CASE \E sig \in Sendable : kill(sig) \/ kill_pgrp(sig) \/ rt_sigqueueinfo(sig)
    BY <2>1, <2>2, SendQueue DEF kill, kill_pgrp, rt_sigqueueinfo
  <2>3. CASE \E sig \in Sendable, t \in Threads : do_tkill(t, sig)
    BY <2>1, <2>3, SendQueue DEF do_tkill
  <2>4. CASE oom_kill
    BY <2>1, <2>4, SendQueue DEF oom_kill
  <2>5. CASE \E shared \in BOOLEAN, t \in Threads : send_sigqueue(t, shared)
    BY <2>5, SendSigqueueQueue
  <2> QED
    BY <1>3, <2>2, <2>3, <2>4, <2>5 DEF Sender
<1>4. CASE UNCHANGED vars
  BY <1>4 DEF vars
<1> QED
  BY <1>1, <1>2, <1>3, <1>4 DEF Next

\* user->sigpending counts every queued entry and the timer's once, whatever is sent, flushed, taken,
\* disowned or released.  What the count rests on is that the preallocated entry is queued in one place
\* at most; what the lists rest on is that dequeue_synchronous_signal takes the first entry of its signal.
THEOREM QueuesAreExact == Spec => []QueueExact
<1>1. Init => Core /\ QueueInv(group)
  BY InitCore, InitQueue
<1>2. (Core /\ QueueInv(group)) /\ [Next]_vars => (Core /\ QueueInv(group))'
  BY CoreNext, QueueNext
<1>3. ASSUME QueueInv(group), Core
      PROVE  QueueExact
  <2>1. group.sigpending = Queued(group) + (IF group.timer THEN 1 ELSE 0)
    BY <1>3 DEF QueueInv, Counted
  <2>2. ASSUME ~signal_group_exit(group), NEW p \in {group.shared} \cup {group.task[t].pending : t \in Threads},
               NEW q \in ToSet(p.list)
        PROVE  q.sig \in p.signal
    <3>1. PICK x \in Queues : p = QueueOf(group, x)
      BY <2>2, QueueAre
    <3>2. Listed(p) /\ p \in Pending
      BY <1>3, <2>2, <3>1, QueueType DEF QueueInv, ListInv, Core, Good
    <3> QED
      BY <2>2, <3>2, PendingType DEF Listed, ToSet
  <2> QED
    BY <2>1, <2>2 DEF QueueExact
<1> QED
  BY <1>1, <1>2, <1>3, PTL DEF Spec

-----------------------------------------------------------------------------
(* Nobody misses a signal *)

\* A thread that looks at its signals before it runs its program again, and one that takes s.
Looks(a, u) == a.tif \/ u.pc \in LoopPcs
Takes(a, s) == ~a.exiting /\ s \notin a.blocked

\* Who has an unblocked signal of its own looks.  The entry of a fault, which dequeue_synchronous_signal
\* may take without a recalculation, is there only on the way back to user mode.
FaultPcs == LoopPcs \cup {"out"}
AwareAt(a, u) ==
    /\ \A s \in a.pending.signal : Takes(a, s) => Looks(a, u)
    /\ ~NoFault(a.pending) => a.tif /\ u.pc \in FaultPcs /\ SIGSEGV \notin a.blocked

\* One of the threads that take s looks, if there is one.
Known(g, r, s) ==
    (\E t \in Threads : Takes(g.task[t], s)) => \E t \in Threads : Takes(g.task[t], s) /\ Looks(g.task[t], r[t])

AwareInv(g, r) ==
    ~signal_group_exit(g) => /\ \A t \in Threads : AwareAt(g.task[t], r[t])
                             /\ \A s \in g.shared.signal : Known(g, r, s)

\* From a and u to b and v: no new signal, no new entry of a fault, and who looked still does.
KeepsAt(a, u, b, v) ==
    /\ b.exiting = a.exiting /\ b.blocked = a.blocked /\ b.pending.signal \subseteq a.pending.signal
    /\ Looks(a, u) => Looks(b, v)
    /\ ~NoFault(b.pending) => /\ ~NoFault(a.pending) /\ (a.tif => b.tif)
                              /\ a.tif /\ u.pc \in FaultPcs => v.pc \in FaultPcs

LEMMA KeepsAware ==
    ASSUME NEW a, NEW u, NEW b, NEW v, AwareAt(a, u), KeepsAt(a, u, b, v)
    PROVE  AwareAt(b, v)
BY DEF AwareAt, KeepsAt, Takes

\* What a step of t has to do about s: somebody who takes it looks, nobody takes it, or t was not the one
\* who looked for it.
PassesOn(g, r, h, q, t, s) ==
    \/ \E u \in Threads : Takes(h.task[u], s) /\ Looks(h.task[u], q[u])
    \/ \A u \in Threads : ~Takes(h.task[u], s)
    \/ ~Takes(h.task[t], s) /\ ~(Takes(g.task[t], s) /\ Looks(g.task[t], r[t]))

\* A step of t; nothing is lost for the others.
LEMMA OneAware ==
    ASSUME NEW g, NEW r, NEW h, NEW q, AwareInv(g, r), ~signal_group_exit(h) => ~signal_group_exit(g),
           h.shared.signal \subseteq g.shared.signal, NEW t \in Threads,
           ~signal_group_exit(h) =>
               /\ AwareAt(h.task[t], q[t])
               /\ \A u \in Threads : u # t => KeepsAt(g.task[u], r[u], h.task[u], q[u])
               /\ \A s \in h.shared.signal : PassesOn(g, r, h, q, t, s)
    PROVE  AwareInv(h, q)
<1> SUFFICES ASSUME ~signal_group_exit(h)
             PROVE  /\ \A u \in Threads : AwareAt(h.task[u], q[u])
                    /\ \A s \in h.shared.signal : Known(h, q, s)
  BY DEF AwareInv
<1>1. /\ \A u \in Threads : AwareAt(g.task[u], r[u])
      /\ \A s \in h.shared.signal : Known(g, r, s)
  BY DEF AwareInv
<1>2. ASSUME NEW u \in Threads
      PROVE  AwareAt(h.task[u], q[u])
  <2>1. CASE u = t
    BY <2>1
  <2>2. CASE u # t
    BY <1>1, <2>2, KeepsAware
  <2> QED
    BY <2>1, <2>2
<1>3. ASSUME NEW s \in h.shared.signal
      PROVE  Known(h, q, s)
  <2>1. Known(g, r, s) /\ PassesOn(g, r, h, q, t, s)
    BY <1>1
  <2>2. ASSUME ~Takes(h.task[t], s), ~(Takes(g.task[t], s) /\ Looks(g.task[t], r[t])),
               NEW u \in Threads, Takes(h.task[u], s)
        PROVE  \E x \in Threads : Takes(h.task[x], s) /\ Looks(h.task[x], q[x])
    <3>1. u # t /\ Takes(g.task[u], s)
      BY <2>2 DEF KeepsAt, Takes
    <3>2. PICK x \in Threads : Takes(g.task[x], s) /\ Looks(g.task[x], r[x])
      BY <2>1, <3>1 DEF Known
    <3>3. x # t
      BY <2>2, <3>2
    <3>4. KeepsAt(g.task[x], r[x], h.task[x], q[x])
      BY <3>3
    <3>5. Takes(h.task[x], s) /\ Looks(h.task[x], q[x])
      BY <3>2, <3>4 DEF KeepsAt, Takes
    <3> QED
      BY <3>5
  <2> QED
    BY <2>1, <2>2 DEF Known, PassesOn
<1> QED
  BY <1>2, <1>3

\* A step in which nobody loses anything.
LEMMA AwareKept ==
    ASSUME NEW g, NEW r, NEW h, NEW q, AwareInv(g, r), ~signal_group_exit(h) => ~signal_group_exit(g),
           h.shared.signal \subseteq g.shared.signal,
           ~signal_group_exit(h) => \A u \in Threads : KeepsAt(g.task[u], r[u], h.task[u], q[u])
    PROVE  AwareInv(h, q)
<1> SUFFICES ASSUME ~signal_group_exit(h)
             PROVE  /\ \A u \in Threads : AwareAt(h.task[u], q[u])
                    /\ \A s \in h.shared.signal : Known(h, q, s)
  BY DEF AwareInv
<1>1. /\ \A u \in Threads : AwareAt(g.task[u], r[u])
      /\ \A s \in h.shared.signal : Known(g, r, s)
  BY DEF AwareInv
<1>2. \A u \in Threads : AwareAt(h.task[u], q[u])
  BY <1>1, KeepsAware
<1>3. ASSUME NEW u \in Threads, NEW s
      PROVE  /\ Takes(h.task[u], s) <=> Takes(g.task[u], s)
             /\ Looks(g.task[u], r[u]) => Looks(h.task[u], q[u])
  BY DEF KeepsAt, Takes
<1>4. \A s \in h.shared.signal : Known(h, q, s)
  BY <1>1, <1>3 DEF Known
<1> QED
  BY <1>2, <1>4

\* A thread whose flag covers what it has and takes, and that has no entry of a fault.
LEMMA ExactAware ==
    ASSUME NEW g, NEW r, NEW h, NEW q, AwareInv(g, r), ~signal_group_exit(h) => ~signal_group_exit(g),
           h.shared.signal \subseteq g.shared.signal, NEW t \in Threads,
           ~signal_group_exit(h) => NoFault(h.task[t].pending),
           recalc_sigpending_tsk(h, t) => h.task[t].tif,
           h.task[t].exiting = g.task[t].exiting, h.task[t].blocked \subseteq g.task[t].blocked,
           \A u \in Threads : u # t => h.task[u] = g.task[u] /\ q[u] = r[u]
    PROVE  AwareInv(h, q)
<1>1. \A s \in h.task[t].pending.signal \cup h.shared.signal : Takes(h.task[t], s) => h.task[t].tif
  BY RecalcType DEF Takes
<1>2. ~signal_group_exit(h) => AwareAt(h.task[t], q[t])
  BY <1>1 DEF AwareAt, Looks
<1>3. \A u \in Threads : u # t => KeepsAt(g.task[u], r[u], h.task[u], q[u])
  BY DEF KeepsAt
<1>4. ASSUME NEW s \in h.shared.signal
      PROVE  PassesOn(g, r, h, q, t, s)
  <2>1. CASE Takes(h.task[t], s)
    BY <1>1, <2>1 DEF PassesOn, Looks
  <2>2. CASE ~Takes(h.task[t], s)
    BY <2>2 DEF PassesOn, Takes
  <2> QED
    BY <2>1, <2>2
<1> QED
  BY <1>2, <1>3, <1>4, OneAware

\* t goes on to another place.
LEMMA MoveAware ==
    ASSUME NEW g, NEW r, NEW q, AwareInv(g, r), NEW t \in Threads,
           \A u \in Threads : u # t => q[u] = r[u],
           r[t].pc \in LoopPcs => q[t].pc \in LoopPcs,
           r[t].pc = "out" => q[t].pc \in FaultPcs \/ ~g.task[t].tif
    PROVE  AwareInv(g, q)
<1>1. ASSUME NEW u \in Threads, ~signal_group_exit(g)
      PROVE  KeepsAt(g.task[u], r[u], g.task[u], q[u])
  <2>1. CASE u # t
    BY <2>1 DEF KeepsAt
  <2>2. CASE u = t
    BY <2>2 DEF KeepsAt, Looks, FaultPcs
  <2> QED
    BY <2>1, <2>2
<1> QED
  BY <1>1, AwareKept

\* A thread outside the way back to user mode has no entry of a fault.
LEMMA NoFaultAt ==
    ASSUME NEW g, NEW r, AwareInv(g, r), ~signal_group_exit(g), NEW t \in Threads, r[t].pc \notin FaultPcs
    PROVE  NoFault(g.task[t].pending)
BY DEF AwareInv, AwareAt

LEMMA NoFaultShrinks ==
    ASSUME NEW p \in Pending, NEW c, Shrinks(p, c), NoFault(p)
    PROVE  NoFault(c)
<1>1. PICK e \in [1 .. Len(c.list) -> 1 .. Len(p.list)] : \A a \in 1 .. Len(c.list) : c.list[a] = p.list[e[a]]
  BY ShrinkPlaces
<1> QED
  BY <1>1 DEF NoFault

-----------------------------------------------------------------------------
(* Who knows of which signal: what the steps do to it *)

\* The tasks and the queue of the process may only have been woken, and have lost signals.
LEMMA WakeAware ==
    ASSUME NEW g \in Group, NEW r, NEW h, AwareInv(g, r), ~signal_group_exit(h) => ~signal_group_exit(g),
           h.shared.signal \subseteq g.shared.signal,
           \A u \in Threads : /\ h.task[u].exiting = g.task[u].exiting /\ h.task[u].blocked = g.task[u].blocked
                              /\ g.task[u].tif => h.task[u].tif
                              /\ Shrinks(g.task[u].pending, h.task[u].pending)
    PROVE  AwareInv(h, r)
<1>1. ASSUME NEW u \in Threads
      PROVE  KeepsAt(g.task[u], r[u], h.task[u], r[u])
  <2>1. g.task[u].pending \in Pending
    BY GroupType, TaskType
  <2>2. NoFault(g.task[u].pending) => NoFault(h.task[u].pending)
    BY <2>1, NoFaultShrinks
  <2>3. h.task[u].pending.signal \subseteq g.task[u].pending.signal
    BY DEF Shrinks
  <2> QED
    BY <2>2, <2>3 DEF KeepsAt, Looks
<1> QED
  BY <1>1, AwareKept

\* The queues stay as they are.
LEMMA SameAware ==
    ASSUME NEW g \in Group, NEW r, NEW h, AwareInv(g, r), ~signal_group_exit(h) => ~signal_group_exit(g),
           h.shared = g.shared,
           \A u \in Threads : /\ h.task[u].exiting = g.task[u].exiting /\ h.task[u].blocked = g.task[u].blocked
                              /\ g.task[u].tif => h.task[u].tif
                              /\ h.task[u].pending = g.task[u].pending
    PROVE  AwareInv(h, r)
<1>1. ASSUME NEW u \in Threads
      PROVE  KeepsAt(g.task[u], r[u], h.task[u], r[u])
  BY DEF KeepsAt, Looks
<1> QED
  BY <1>1, AwareKept

LEMMA PreparedAware ==
    ASSUME NEW g \in Group, NEW r, NEW h, AwareInv(g, r), NEW mask, Prepared(g, h, mask)
    PROVE  AwareInv(h, r)
<1>1. /\ signal_group_exit(h) = signal_group_exit(g) /\ h.shared = flush_sigqueue_mask(mask, g.shared).pending
      /\ \A u \in Threads : /\ h.task[u].exiting = g.task[u].exiting /\ h.task[u].blocked = g.task[u].blocked
                            /\ h.task[u].tif = g.task[u].tif
                            /\ h.task[u].pending = flush_sigqueue_mask(mask, g.task[u].pending).pending
  BY DEF Prepared, PreparedAt
<1>2. g.shared \in Pending /\ \A u \in Threads : g.task[u].pending \in Pending
  BY GroupType, TaskType
<1>3. Shrinks(g.shared, h.shared) /\ \A u \in Threads : Shrinks(g.task[u].pending, h.task[u].pending)
  BY <1>1, <1>2, FlushMaskIs
<1>4. h.shared.signal \subseteq g.shared.signal
  BY <1>3 DEF Shrinks
<1> QED
  BY <1>1, <1>3, <1>4, WakeAware

LEMMA ActAware ==
    ASSUME NEW g, NEW r, NEW h, AwareInv(g, r), ActOnly(g, h)
    PROVE  AwareInv(h, r)
BY DEF ActOnly, AwareInv, Known, signal_group_exit

LEMMA DisownedAware ==
    ASSUME NEW g \in Group, NEW r, NEW h, AwareInv(g, r), Disowned(g, h)
    PROVE  AwareInv(h, r)
<1>1. /\ h.flags = g.flags /\ h.shared = Disown(g.shared)
      /\ \A u \in Threads : /\ h.task[u].exiting = g.task[u].exiting /\ h.task[u].blocked = g.task[u].blocked
                            /\ h.task[u].tif = g.task[u].tif /\ h.task[u].pending = Disown(g.task[u].pending)
  BY DEF Disowned, SameTask
<1>2. g.shared \in Pending /\ \A u \in Threads : g.task[u].pending \in Pending
  BY GroupType, TaskType
<1>3. h.shared.signal = g.shared.signal
  BY <1>1, <1>2, DisownIs
<1>4. ASSUME NEW u \in Threads
      PROVE  KeepsAt(g.task[u], r[u], h.task[u], r[u])
  <2>1. PICK p \in Pending : p = g.task[u].pending
    BY <1>2
  <2>2. Disown(p).signal = p.signal /\ Len(Disown(p).list) = Len(p.list)
        /\ \A i \in 1 .. Len(p.list) : Disown(p).list[i].positive = p.list[i].positive
    BY DisownIs
  <2>3. NoFault(p) => NoFault(Disown(p))
    BY <2>2 DEF NoFault
  <2> QED
    BY <1>1, <2>1, <2>2, <2>3 DEF KeepsAt, Looks
<1> QED
  BY <1>1, <1>3, <1>4, AwareKept DEF signal_group_exit

\* A thread takes nothing once its task is dead.
DeadExits(g) == \A u \in Threads : g.task[u].state = "dead" => g.task[u].exiting

LEMMA DeadExitsBy ==
    ASSUME NEW g, NEW r, NEW j, Good(g, r, j)
    PROVE  DeadExits(g)
BY DEF Good, LinkAt, DeadExits

\* What t no longer takes goes to one of the others that do.
LEMMA TakersAre ==
    ASSUME NEW g, NEW t \in Threads, NEW s, DeadExits(g), NEW u \in Threads, u # t, Takes(g.task[u], s)
    PROVE  u \in Takers(g, t, s)
BY DEF DeadExits, Takers, Takes, Members

\* A new mask, for a thread that runs its program or sleeps in sigtimedwait.
LEMMA BlocksAware ==
    ASSUME NEW g \in Group, NEW r, NEW h, AwareInv(g, r), DeadExits(g), NEW t \in Threads, NEW newset,
           BlocksTo(g, h, t, newset), r[t].pc \notin FaultPcs
    PROVE  AwareInv(h, r)
<1> DEFINE a == g.task[t]
           b == h.task[t]
<1>1. /\ h.flags = g.flags /\ h.shared = g.shared /\ b.exiting = a.exiting /\ b.pending = a.pending
      /\ b.blocked = newset /\ b.tif = recalc_sigpending_tsk(h, t)
      /\ \A u \in Threads : u # t => h.task[u] = g.task[u] \/ h.task[u] = signal_wake_up(g.task[u], FALSE)
      /\ \A s \in g.shared.signal \cap (newset \ a.blocked) :
             a.tif /\ Takers(g, t, s) # {} => \E u \in Takers(g, t, s) : h.task[u].tif
  BY DEF BlocksTo
<1>2. ASSUME NEW u \in Threads, u # t
      PROVE  /\ h.task[u].exiting = g.task[u].exiting /\ h.task[u].blocked = g.task[u].blocked
             /\ (g.task[u].tif => h.task[u].tif) /\ h.task[u].pending = g.task[u].pending
  <2>1. g.task[u] \in Task
    BY GroupType
  <2> QED
    BY <1>1, <1>2, <2>1, WokenKeeps DEF SameTask
<1>3. \A u \in Threads : u # t => KeepsAt(g.task[u], r[u], h.task[u], r[u])
  BY <1>2 DEF KeepsAt, Looks
<1>4. \A s \in b.pending.signal \cup h.shared.signal : Takes(b, s) => b.tif
  BY <1>1, RecalcType DEF Takes
<1>5. ~signal_group_exit(h) => AwareAt(b, r[t])
  <2>1. ~signal_group_exit(h) => NoFault(a.pending)
    BY <1>1, NoFaultAt DEF signal_group_exit
  <2> QED
    BY <1>1, <1>4, <2>1 DEF AwareAt, Looks
<1>6. ASSUME NEW s \in h.shared.signal
      PROVE  PassesOn(g, r, h, r, t, s)
  <2>1. CASE Takes(b, s)
    BY <1>4, <2>1 DEF PassesOn, Looks
  <2>2. CASE ~Takes(b, s) /\ ~(Takes(a, s) /\ Looks(a, r[t]))
    BY <2>2 DEF PassesOn
  <2>3. CASE ~Takes(b, s) /\ Takes(a, s) /\ Looks(a, r[t])
    <3>1. a.tif /\ s \in g.shared.signal \cap (newset \ a.blocked)
      BY <1>1, <2>3 DEF Looks, Takes, FaultPcs
    <3>2. CASE Takers(g, t, s) # {}
      <4>1. PICK u \in Takers(g, t, s) : h.task[u].tif
        BY <1>1, <3>1, <3>2
      <4>2. u \in Threads /\ u # t /\ Takes(g.task[u], s)
        BY DEF Takers, Members, Takes
      <4>3. Takes(h.task[u], s)
        BY <1>2, <4>2 DEF Takes
      <4> QED
        BY <4>1, <4>2, <4>3 DEF PassesOn, Looks
    <3>3. CASE Takers(g, t, s) = {}
      <4>1. ASSUME NEW u \in Threads, Takes(h.task[u], s)
            PROVE  FALSE
        <5>1. u # t /\ Takes(g.task[u], s)
          BY <1>2, <2>3, <4>1 DEF Takes
        <5> QED
          BY <3>3, <5>1, TakersAre
      <4> QED
        BY <4>1 DEF PassesOn
    <3> QED
      BY <3>2, <3>3
  <2> QED
    BY <2>1, <2>2, <2>3
<1> QED
  BY <1>1, <1>3, <1>5, <1>6, OneAware DEF signal_group_exit

\* t has taken a signal, and its flag says what is left.
LEMMA TookAware ==
    ASSUME NEW g \in Group, NEW r, NEW h, NEW q, AwareInv(g, r), NEW t \in Threads, NEW sig, Took(g, h, t, sig),
           ~signal_group_exit(g) => NoFault(h.task[t].pending),
           ~signal_group_exit(g) /\ recalc_sigpending_tsk(h, t) => h.task[t].tif,
           \A u \in Threads : u # t => q[u] = r[u]
    PROVE  AwareInv(h, q)
<1>1. /\ h.flags = g.flags /\ h.task[t].exiting = g.task[t].exiting /\ h.task[t].blocked = g.task[t].blocked
      /\ \A u \in Threads : u # t => h.task[u] = g.task[u]
  BY TookKeeps
<1>2. h.shared.signal \subseteq g.shared.signal
  BY DEF Took, TookFrom, Shrinks, PendingOf
<1>3. CASE signal_group_exit(g)
  BY <1>1, <1>3 DEF AwareInv, signal_group_exit
<1>4. CASE ~signal_group_exit(g)
  BY <1>1, <1>2, <1>4, ExactAware DEF signal_group_exit
<1> QED
  BY <1>3, <1>4

\* A thread that unblocks SIGSEGV knows what it has unblocked.
LEMMA UnblockedAware ==
    ASSUME NEW g \in Group, NEW r, NEW h, AwareInv(g, r), NEW t \in Threads, Unblocked(g, h, t),
           r[t].pc \notin FaultPcs
    PROVE  AwareInv(h, r)
<1>1. /\ h.flags = g.flags /\ h.shared = g.shared /\ \A u \in Threads : u # t => h.task[u] = g.task[u]
      /\ h.task[t].blocked = g.task[t].blocked \ {SIGSEGV} /\ h.task[t].exiting = g.task[t].exiting
      /\ h.task[t].pending = g.task[t].pending /\ (g.task[t].tif => h.task[t].tif)
      /\ h.task[t].blocked = g.task[t].blocked \/ ~recalc_sigpending_tsk(h, t) \/ h.task[t].tif
  BY DEF Unblocked
<1>2. CASE h.task[t].blocked = g.task[t].blocked
  BY <1>1, <1>2, SameAware DEF signal_group_exit
<1>3. CASE ~recalc_sigpending_tsk(h, t) \/ h.task[t].tif
  <2>1. ~signal_group_exit(h) => NoFault(h.task[t].pending)
    BY <1>1, NoFaultAt DEF signal_group_exit
  <2> QED
    BY <1>1, <1>3, <2>1, ExactAware DEF signal_group_exit
<1> QED
  BY <1>1, <1>2, <1>3

\* A thread that has stopped is in the loop of get_signal.
StoppedLooks(g, r) == \A u \in Threads : g.task[u].state = "stopped" => r[u].pc \in LoopPcs

\* Where a new entry of a fault goes: to a thread that runs, on its way back to user mode.
FaultHere(g, r, p, sig, cpu) ==
    /\ sig = SIGSEGV /\ r[p].pc = "out" /\ p \in cpu /\ Takes(g.task[p], SIGSEGV) /\ g.task[p].state # "stopped"

\* Whom complete_signal does not choose blocks the signal, or looks anyway.
LEMMA UnwantedLooks ==
    ASSUME NEW g, NEW r, StoppedLooks(g, r), NEW sig, NEW u \in Threads, NEW cpu, ~wants_signal(g, sig, u, cpu),
           Takes(g.task[u], sig)
    PROVE  Looks(g.task[u], r[u])
BY DEF wants_signal, Takes, Looks, StoppedLooks

\* Only the queue that gets the signal has changed.
Gets(g, k, p, shared, q) ==
    /\ k \in Group /\ k.flags = g.flags
    /\ k.shared.signal = IF shared THEN g.shared.signal \cup {q.sig} ELSE g.shared.signal
    /\ \A u \in Threads : shared \/ u # p => k.task[u] = g.task[u]
    /\ k.task[p].exiting = g.task[p].exiting /\ k.task[p].blocked = g.task[p].blocked
    /\ k.task[p].tif = g.task[p].tif /\ k.task[p].state = g.task[p].state
    /\ ~shared => k.task[p].pending.signal = g.task[p].pending.signal \cup {q.sig}
    /\ ~shared /\ ~q.positive /\ NoFault(g.task[p].pending) => NoFault(k.task[p].pending)

LEMMA AddedGets ==
    ASSUME NEW g \in Group, NEW k, NEW p \in Threads, NEW shared \in BOOLEAN, NEW q \in Entry,
           Added(g, k, p, shared, q)
    PROVE  Gets(g, k, p, shared, q)
<1> USE DEF Gets
<1> DEFINE pending == PendingOf(g, p, shared)
<1>1. pending \in Pending /\ q.sig \in AllSignals
  BY PendingOfType DEF Entry
<1>2. PICK new \in Pending : /\ Put(g, k, p, shared, new) /\ new.signal = pending.signal \cup {q.sig}
                             /\ ~q.positive /\ NoFault(pending) => NoFault(new)
  <2>1. CASE Put(g, k, p, shared, Enqueue(pending, q))
    <3>1. PICK new : new = Enqueue(pending, q)
      OBVIOUS
    <3> HIDE DEF pending
    <3>2. /\ new \in Pending /\ new.signal = pending.signal \cup {q.sig} /\ Len(new.list) = Len(pending.list) + 1
          /\ new.list[Len(pending.list) + 1] = q /\ \A i \in 1 .. Len(pending.list) : new.list[i] = pending.list[i]
      BY <1>1, <3>1, EnqueueIs
    <3>3. ~q.positive /\ NoFault(pending) => NoFault(new)
      <4>1. Len(pending.list) \in Nat
        BY <1>1, PendingType
      <4>2. \A i \in 1 .. Len(new.list) : i \in 1 .. Len(pending.list) \/ i = Len(pending.list) + 1
        BY <3>2, <4>1
      <4> QED
        BY <3>2, <4>2 DEF NoFault
    <3> QED
      BY <2>1, <3>1, <3>2, <3>3
  <2>2. CASE Put(g, k, p, shared, SetOnly(pending, q.sig))
    <3>1. PICK new : new = SetOnly(pending, q.sig)
      OBVIOUS
    <3>2. new \in Pending /\ new.signal = pending.signal \cup {q.sig} /\ new.list = pending.list
      BY <1>1, <3>1, SetOnlyIs
    <3> QED
      BY <2>2, <3>1, <3>2 DEF NoFault
  <2> QED
    BY <2>1, <2>2 DEF Added
<1>3. /\ k \in Group /\ k.flags = g.flags /\ k.shared = (IF shared THEN new ELSE g.shared)
      /\ \A u \in Threads : IF ~shared /\ u = p THEN k.task[u] = [g.task[u] EXCEPT !.pending = new]
                            ELSE k.task[u] = g.task[u]
  BY <1>2 DEF Put
<1>4. g.task[p] \in Task
  BY GroupType
<1>5. CASE shared
  BY <1>2, <1>3, <1>5 DEF PendingOf
<1>6. CASE ~shared
  <2>1. k.task[p] = [g.task[p] EXCEPT !.pending = new]
    BY <1>3, <1>6
  <2>2. /\ k.task[p].exiting = g.task[p].exiting /\ k.task[p].blocked = g.task[p].blocked
        /\ k.task[p].tif = g.task[p].tif /\ k.task[p].state = g.task[p].state /\ k.task[p].pending = new
    BY <1>4, <2>1 DEF Task
  <2> QED
    BY <1>2, <1>3, <1>6, <2>2 DEF PendingOf
<1> QED
  BY <1>5, <1>6

\* The signal goes to a queue and complete_signal wakes the one it chooses; when it chooses nobody,
\* whoever takes the signal looks already.
LEMMA AddedAware ==
    ASSUME NEW g \in Group, NEW r, NEW k, AwareInv(g, r), StoppedLooks(g, r), DeadExits(g), NEW p \in Members(g),
           NEW shared \in BOOLEAN, NEW q \in Entry, Added(g, k, p, shared, q), NEW cpu,
           q.positive /\ ~shared => FaultHere(g, r, p, q.sig, cpu)
    PROVE  AwareInv(complete_signal(k, q.sig, p, shared, cpu), r)
<1> DEFINE t == Target(k, q.sig, p, shared, cpu)
<1>1. p \in Threads
  BY DEF Members
<1>2. /\ k \in Group /\ k.flags = g.flags
      /\ k.shared.signal = (IF shared THEN g.shared.signal \cup {q.sig} ELSE g.shared.signal)
      /\ \A u \in Threads : shared \/ u # p => k.task[u] = g.task[u]
      /\ k.task[p].exiting = g.task[p].exiting /\ k.task[p].blocked = g.task[p].blocked
      /\ k.task[p].tif = g.task[p].tif /\ k.task[p].state = g.task[p].state
      /\ ~shared => k.task[p].pending.signal = g.task[p].pending.signal \cup {q.sig}
      /\ ~shared /\ ~q.positive /\ NoFault(g.task[p].pending) => NoFault(k.task[p].pending)
  <2>1. Gets(g, k, p, shared, q)
    BY <1>1, AddedGets
  <2> QED
    BY <2>1 DEF Gets
<1>3. ASSUME NEW u \in Threads
      PROVE  /\ k.task[u].exiting = g.task[u].exiting /\ k.task[u].blocked = g.task[u].blocked
             /\ k.task[u].tif = g.task[u].tif /\ k.task[u].state = g.task[u].state
  BY <1>2
<1>4. p \in Members(k)
  BY <1>1, <1>3 DEF Members
<1>5. PICK h : h = complete_signal(k, q.sig, p, shared, cpu)
  OBVIOUS
<1>6. \/ t = NULL /\ h = k
      \/ Doom(k, h)
      \/ t # NULL /\ WokenOne(k, h, t, q.sig = SIGKILL)
  BY <1>2, <1>4, <1>5, CompleteIs
<1>7. \/ /\ t = NULL /\ ~wants_signal(k, q.sig, p, cpu)
         /\ shared => \A u \in Members(k) : ~wants_signal(k, q.sig, u, cpu)
      \/ t \in Members(k) /\ t # NULL /\ wants_signal(k, q.sig, t, cpu) /\ (shared \/ t = p)
  BY <1>2, <1>4, TargetIs
<1> HIDE DEF t
<1>8. StoppedLooks(k, r)
  BY <1>3 DEF StoppedLooks
<1>9. q.positive /\ ~shared => wants_signal(k, q.sig, p, cpu)
  BY <1>1, <1>3 DEF FaultHere, wants_signal, Takes
<1>10. CASE Doom(k, h)
  <2>1. signal_group_exit(h)
    BY <1>10 DEF Doom, signal_group_exit
  <2> QED
    BY <1>5, <2>1 DEF AwareInv
<1>11. CASE signal_group_exit(g)
  <2>1. signal_group_exit(h)
    BY <1>2, <1>6, <1>10, <1>11 DEF WokenOne, Doom, signal_group_exit
  <2> QED
    BY <1>5, <2>1 DEF AwareInv
\* The task that was woken, and who takes the signal.
<1>12. ASSUME ~signal_group_exit(g), ~Doom(k, h)
       PROVE  /\ h.shared = k.shared
              /\ \A u \in Threads : /\ h.task[u].exiting = g.task[u].exiting /\ h.task[u].blocked = g.task[u].blocked
                                    /\ (g.task[u].tif => h.task[u].tif) /\ h.task[u].pending = k.task[u].pending
              /\ \/ t \in Threads /\ h.task[t].tif /\ Takes(h.task[t], q.sig) /\ (shared \/ t = p)
                 \/ /\ ~(q.positive /\ ~shared)
                    /\ \A u \in Threads : (shared \/ u = p) /\ Takes(h.task[u], q.sig) => Looks(h.task[u], r[u])
  <2>1. CASE t = NULL /\ h = k
    <3>1. ~wants_signal(k, q.sig, p, cpu) /\ (shared => \A u \in Members(k) : ~wants_signal(k, q.sig, u, cpu))
      BY <1>7, <2>1
    <3>2. ASSUME NEW u \in Threads, shared \/ u = p, Takes(k.task[u], q.sig)
          PROVE  Looks(k.task[u], r[u])
      <4>1. u \in Members(k)
        BY <1>3, <3>2 DEF Takes, DeadExits, Members
      <4> QED
        BY <1>8, <3>1, <3>2, <4>1, UnwantedLooks
    <3> QED
      BY <1>3, <1>9, <2>1, <3>1, <3>2
  <2>2. CASE t # NULL /\ WokenOne(k, h, t, q.sig = SIGKILL)
    <3>1. t \in Threads /\ wants_signal(k, q.sig, t, cpu) /\ (shared \/ t = p)
      BY <1>7, <2>2 DEF Members
    <3>2. /\ h.shared = k.shared /\ h.task[t] = signal_wake_up(k.task[t], q.sig = SIGKILL)
          /\ \A u \in Threads : u # t => h.task[u] = k.task[u]
      BY <2>2 DEF WokenOne
    <3>3. k.task[t] \in Task
      BY <1>2, <3>1, GroupType
    <3>4. /\ h.task[t].exiting = k.task[t].exiting /\ h.task[t].blocked = k.task[t].blocked
          /\ h.task[t].tif /\ h.task[t].pending = k.task[t].pending
      <4>1. PICK a, b : a = k.task[t] /\ b = h.task[t]
        OBVIOUS
      <4>2. b.exiting = a.exiting /\ b.blocked = a.blocked /\ b.tif /\ b.pending = a.pending
        BY <3>2, <3>3, <4>1 DEF signal_wake_up, Task
      <4> QED
        BY <4>1, <4>2
    <3>5. Takes(h.task[t], q.sig)
      BY <3>1, <3>4 DEF wants_signal, Takes
    <3> QED
      BY <1>3, <3>1, <3>2, <3>4, <3>5
  <2> QED
    BY <1>6, <1>12, <2>1, <2>2
<1>13. CASE ~signal_group_exit(g) /\ ~Doom(k, h)
  <2>1. /\ h.shared = k.shared
        /\ \A u \in Threads : /\ h.task[u].exiting = g.task[u].exiting /\ h.task[u].blocked = g.task[u].blocked
                              /\ (g.task[u].tif => h.task[u].tif) /\ h.task[u].pending = k.task[u].pending
        /\ \/ t \in Threads /\ h.task[t].tif /\ Takes(h.task[t], q.sig) /\ (shared \/ t = p)
           \/ /\ ~(q.positive /\ ~shared)
              /\ \A u \in Threads : (shared \/ u = p) /\ Takes(h.task[u], q.sig) => Looks(h.task[u], r[u])
    BY <1>12, <1>13
  <2>2. /\ \A u \in Threads : AwareAt(g.task[u], r[u])
        /\ \A s \in g.shared.signal : Known(g, r, s)
    BY <1>13 DEF AwareInv
  <2>3. ASSUME NEW u \in Threads, NEW s
        PROVE  /\ Takes(h.task[u], s) <=> Takes(g.task[u], s)
               /\ Looks(g.task[u], r[u]) => Looks(h.task[u], r[u])
    BY <2>1 DEF Takes, Looks
  <2>4. ASSUME NEW u \in Threads
        PROVE  AwareAt(h.task[u], r[u])
    <3>1. CASE shared \/ u # p
      <4>1. KeepsAt(g.task[u], r[u], h.task[u], r[u])
        BY <1>2, <2>1, <3>1 DEF KeepsAt, Looks
      <4> QED
        BY <2>2, <4>1, KeepsAware
    <3>2. CASE ~shared /\ u = p
      <4>1. h.task[p].pending.signal = g.task[p].pending.signal \cup {q.sig}
        BY <1>1, <1>2, <2>1, <3>2
      <4>2. Takes(h.task[p], q.sig) => Looks(h.task[p], r[p])
        BY <1>1, <2>1, <3>2 DEF Looks
      <4>3. \A s \in h.task[p].pending.signal : Takes(h.task[p], s) => Looks(h.task[p], r[p])
        BY <1>1, <2>2, <2>3, <4>1, <4>2 DEF AwareAt
      <4>4. ~NoFault(h.task[p].pending) => h.task[p].tif /\ r[p].pc \in FaultPcs /\ SIGSEGV \notin h.task[p].blocked
        <5>1. CASE q.positive
          BY <1>1, <2>1, <3>2, <5>1 DEF FaultHere, Takes, FaultPcs
        <5>2. CASE ~q.positive
          BY <1>1, <1>2, <2>1, <2>2, <3>2, <5>2 DEF AwareAt
        <5> QED
          BY <5>1, <5>2
      <4> QED
        BY <3>2, <4>3, <4>4 DEF AwareAt
    <3> QED
      BY <3>1, <3>2
  <2>5. ASSUME NEW s \in h.shared.signal
        PROVE  Known(h, r, s)
    <3>1. CASE s \in g.shared.signal
      BY <2>2, <2>3, <3>1 DEF Known
    <3>2. CASE shared /\ s = q.sig
      BY <2>1, <3>2 DEF Known, Looks
    <3> QED
      BY <1>2, <2>1, <3>1, <3>2
  <2>6. AwareInv(h, r)
    BY <2>4, <2>5 DEF AwareInv
  <2> QED
    BY <1>5, <2>6
<1> QED
  BY <1>10, <1>11, <1>13

LEMMA StoppedLooksBy ==
    ASSUME NEW g, NEW r, NEW j, Good(g, r, j)
    PROVE  StoppedLooks(g, r)
BY DEF Good, LinkAt, StoppedLooks, LoopPcs

\* A signal is sent; r is where the threads are once it is.
LEMMA SendAware ==
    ASSUME NEW g, NEW m, NEW j, Good(g, m, j), KillInv(g), NEW sig \in AllSignals, NEW info, NEW p \in Members(g),
           NEW shared \in BOOLEAN, NEW cpu, NEW mem, NEW r, AwareInv(g, r),
           \A u \in Threads : r[u] = m[u] \/ g.task[u].state = "running",
           ~shared /\ info \in {"priv", "fault"} => FaultHere(g, r, p, sig, cpu)
    PROVE  AwareInv(send_signal(g, sig, info, p, shared, cpu, mem), r)
<1> DEFINE n == prepare_signal(g, sig)
           h == send_signal(g, sig, info, p, shared, cpu, mem)
           q == NewEntry(sig, info)
<1>1. g \in Group /\ Good(n, m, JobAfter(j, sig)) /\ \E mask : Prepared(g, n, mask)
  BY PrepareGood DEF Good
<1>2. PICK mask : Prepared(g, n, mask)
  BY <1>1
<1>3. n \in Group /\ KillInv(n) /\ Members(n) = Members(g) /\ AwareInv(n, r) /\ p \in Threads /\ DeadExits(n)
  BY <1>1, <1>2, PreparedKill, PreparedAware, DeadExitsBy DEF Prepared, Members
<1>4. /\ q \in Entry /\ q.sig = sig
      /\ \/ h = n
         \/ \E k : Added(n, k, p, shared, q) /\ h = complete_signal(k, sig, p, shared, cpu)
  BY <1>1, <1>3, SendIs
<1>5. q.positive => info \in {"priv", "fault"}
  BY DEF NewEntry, Sigqueue
<1> HIDE DEF n, h, q
<1>6. \A u \in Threads : /\ n.task[u].exiting = g.task[u].exiting /\ n.task[u].blocked = g.task[u].blocked
                         /\ n.task[u].state = g.task[u].state \/ (g.task[u].state = "stopped" /\ n.task[u].state = "running")
  BY <1>2 DEF Prepared, PreparedAt
<1>7. StoppedLooks(n, r)
  <2>1. StoppedLooks(g, m)
    BY StoppedLooksBy
  <2> QED
    BY <1>6, <2>1 DEF StoppedLooks
<1>8. q.positive /\ ~shared => FaultHere(n, r, p, q.sig, cpu)
  BY <1>3, <1>4, <1>5, <1>6 DEF FaultHere, Takes
<1>9. ASSUME NEW k, Added(n, k, p, shared, q), h = complete_signal(k, sig, p, shared, cpu)
      PROVE  AwareInv(h, r)
  <2>1. AwareInv(complete_signal(k, q.sig, p, shared, cpu), r)
    BY <1>3, <1>4, <1>7, <1>8, <1>9, AddedAware
  <2> QED
    BY <1>4, <1>9, <2>1
<1> QED
  BY <1>3, <1>4, <1>9 DEF h

\* The handler of SIGSEGV is reset by a thread that could not deliver its signal.
LEMMA ResetAware ==
    ASSUME Core, AwareInv(group, run), NEW t \in Threads, ResetSegv(t)
    PROVE  AwareInv(group', run')
<1>1. run[t].pc = "deliver" /\ (group' = group \/ ActOnly(group, group')) /\ Goto(t, "segv")
  BY ResetIs
<1>2. PICK h, q : h = group' /\ q = run'
  OBVIOUS
<1>3. AwareInv(h, run)
  BY <1>1, <1>2, ActAware
<1>4. run[t].pc \notin FaultPcs /\ run[t].pc \notin LoopPcs /\ run[t].pc # "out"
  BY <1>1 DEF FaultPcs, LoopPcs
<1>5. \A u \in Threads : u # t => q[u] = run[u]
  BY <1>1, <1>2 DEF Goto
<1>6. AwareInv(h, q)
  BY <1>3, <1>4, <1>5, MoveAware
<1> QED
  BY <1>2, <1>6

\* SIGSEGV is forced on t, which was in user mode or could not deliver a signal.
LEMMA ForcedAware ==
    ASSUME Core, AwareInv(group, run), NEW t \in Threads, NEW info, NEW mem, NEW v, Raised(t, info, mem, v)
    PROVE  AwareInv(group', run')
<1>1. /\ run[t].pc \in {"user", "segv"} /\ run' = [run EXCEPT ![t] = v]
      /\ v.pc = "out" /\ group' = force_sig_info(group, SIGSEGV, info, t, mem)
  BY DEF Raised
<1>2. /\ Good(group, run, job) /\ KillInv(group) /\ group \in Group /\ ~Dying(run[t]) /\ run \in [Threads -> Run]
      /\ group.action[SIGKILL].handler = "SIG_DFL"
  BY RaisedFrom
<1>4. PICK h, q : h = group' /\ q = run'
  OBVIOUS
<1>5. PICK k : Unblocked(group, k, t) /\ h = send_signal(k, SIGSEGV, info, t, FALSE, {t}, mem)
  <2>1. Forced(group, h, t, info, mem)
    BY <1>1, <1>2, <1>4, ForceIs
  <2> QED
    BY <2>1 DEF Forced
<1>6. Good(k, run, job) /\ KillInv(k)
  BY <1>2, <1>5, UnblockedGood
<1>7. run[t].pc \notin FaultPcs /\ run[t].pc # "dead"
  BY <1>1 DEF FaultPcs, LoopPcs
<1>8. q[t].pc = "out" /\ \A u \in Threads : u # t => q[u] = run[u]
  BY <1>1, <1>2, <1>4
<1>9. AwareInv(k, run)
  BY <1>2, <1>5, <1>7, UnblockedAware
<1>10. AwareInv(k, q)
  BY <1>7, <1>8, <1>9, MoveAware DEF FaultPcs
<1>11. t \in Members(k) /\ SIGSEGV \in AllSignals /\ FALSE \in BOOLEAN
  BY <1>6, <1>7, MembersBy, SignalNumbers
<1>12. k.task[t].state = "running" /\ ~k.task[t].exiting /\ SIGSEGV \notin k.task[t].blocked
  <2>1. LinkAt(k.task[t], run[t]) /\ k \in Group
    BY <1>6 DEF Good
  <2>2. k.task[t].state \in {"running", "interruptible", "stopped", "dead"}
    BY <2>1, GroupType, TaskType
  <2> QED
    BY <1>1, <1>5, <2>1, <2>2 DEF LinkAt, Unblocked
<1>13. FaultHere(k, q, t, SIGSEGV, {t})
  BY <1>8, <1>12 DEF FaultHere, Takes
<1>14. AwareInv(send_signal(k, SIGSEGV, info, t, FALSE, {t}, mem), q)
  <2>1. \A u \in Threads : q[u] = run[u] \/ k.task[u].state = "running"
    BY <1>8, <1>12
  <2>2. PICK cpu : cpu = {t}
    OBVIOUS
  <2>3. PICK shared \in BOOLEAN : shared = FALSE
    OBVIOUS
  <2>4. ~shared /\ info \in {"priv", "fault"} => FaultHere(k, q, t, SIGSEGV, cpu)
    BY <1>13, <2>2
  <2>5. AwareInv(send_signal(k, SIGSEGV, info, t, shared, cpu, mem), q)
    BY <1>6, <1>10, <1>11, <2>1, <2>4, SendAware
  <2> QED
    BY <2>2, <2>3, <2>5
<1> QED
  BY <1>4, <1>5, <1>14

LEMMA HaltedAware ==
    ASSUME NEW g \in Group, NEW r, NEW h, NEW q, AwareInv(g, r), ~signal_group_exit(g), NEW t \in Threads, NEW last,
           Halted(g, h, t, last), \A u \in Threads : u # t => q[u] = r[u], q[t].pc \in LoopPcs
    PROVE  AwareInv(h, q)
<1>1. /\ h.shared = g.shared
      /\ \A u \in Threads : /\ h.task[u].exiting = g.task[u].exiting /\ h.task[u].blocked = g.task[u].blocked
                            /\ (g.task[u].tif => h.task[u].tif) /\ h.task[u].pending = g.task[u].pending
  BY DEF Halted, Joins
<1>2. ASSUME NEW u \in Threads
      PROVE  KeepsAt(g.task[u], r[u], h.task[u], q[u])
  <2>1. CASE u = t
    BY <1>1, <2>1 DEF KeepsAt, Looks, FaultPcs
  <2>2. CASE u # t
    BY <1>1, <2>2 DEF KeepsAt, Looks
  <2> QED
    BY <2>1, <2>2
<1> QED
  BY <1>1, <1>2, AwareKept

\* do_signal_stop: another turn of the loop, or t stops; it looks at its signals after either.  m is
\* where the threads are but for t, which has its signals or its stop in hand.
LEMMA StopAware ==
    ASSUME run \in [Threads -> Run], NEW g, Good(g, run, job), KillInv(g), NEW m, AwareInv(g, m), NEW t \in Threads,
           \A u \in Threads : u # t => m[u] = run[u],
           g.task[t].state = "running", ~g.task[t].exiting, run[t].pc \in {"loop", "relock", "rearm", "stop"},
           do_signal_stop(g, t)
    PROVE  AwareInv(group', run')
<1> DEFINE new == IF "STOP_PENDING" \in g.task[t].jobctl THEN g ELSE InitiateStop(g, t)
           x == task_participate_group_stop(new, t)
           h == [x.group EXCEPT !.task[t].state = "stopped"]
<1>1. CASE "STOP_PENDING" \notin g.task[t].jobctl /\ StopCancelledMeanwhile(g, t)
  <2>1. group' = g /\ run' = [run EXCEPT ![t].pc = "loop"]
    BY <1>1 DEF do_signal_stop, NextTurn, Goto
  <2>2. PICK q : q = run'
    OBVIOUS
  <2>3. q[t].pc = "loop" /\ \A u \in Threads : u # t => q[u] = m[u]
    BY <2>1, <2>2 DEF Run
  <2>4. q[t].pc \in LoopPcs /\ q[t].pc \in FaultPcs
    BY <2>3 DEF LoopPcs, FaultPcs
  <2>5. AwareInv(g, q)
    BY <2>3, <2>4, MoveAware
  <2> QED
    BY <2>1, <2>2, <2>5
<1>2. CASE ~("STOP_PENDING" \notin g.task[t].jobctl /\ StopCancelledMeanwhile(g, t))
  <2>1. /\ group' = h
        /\ run' = [run EXCEPT ![t].pc = IF x.notify THEN "stopnotify" ELSE "stopped",
                              ![t].why = IF x.notify THEN "stopped" ELSE @]
    BY <1>2 DEF do_signal_stop
  <2>2. ~signal_group_exit(g)
    <3>1. signal_group_exit(g) => "STOP_PENDING" \notin g.task[t].jobctl
      BY DEF Good, Death, DeathAt, ExitPcs
    <3> QED
      BY <1>2, <3>1 DEF StopCancelledMeanwhile
  <2>3. "STOP_PENDING" \in g.task[t].jobctl \/ "STOP_DEQUEUED" \in g.task[t].jobctl
    BY <1>2 DEF StopCancelledMeanwhile
  <2>4. g.task[t].exiting = FALSE /\ g \in Group
    BY GroupType, TaskType DEF Good
  <2>5. Halted(g, h, t, x.notify)
    BY <2>2, <2>3, <2>4, StopIs
  <2>6. PICK k, last, q : k = h /\ last = x.notify /\ q = run'
    OBVIOUS
  <2> HIDE DEF h, x
  <2>7. Halted(g, k, t, last)
    BY <2>5, <2>6
  <2>8. q = [run EXCEPT ![t].pc = IF last THEN "stopnotify" ELSE "stopped",
                        ![t].why = IF last THEN "stopped" ELSE @]
    BY <2>1, <2>6
  <2>9. q[t].pc \in {"stopped", "stopnotify"} /\ \A u \in Threads : u # t => q[u] = m[u]
    BY <2>8 DEF Run
  <2>10. q[t].pc \in LoopPcs
    BY <2>9 DEF LoopPcs
  <2>11. AwareInv(k, q)
    BY <2>2, <2>4, <2>7, <2>9, <2>10, HaltedAware
  <2> QED
    BY <2>1, <2>6, <2>11
<1> QED
  BY <1>1, <1>2

\* get_signal has its signal, or none: no entry of a fault is left, and t looks again only if it says so.
LEMMA DispatchAware ==
    ASSUME run \in [Threads -> Run], NEW g \in Group, KillInv(g), g.action[SIGKILL].handler = "SIG_DFL", NEW m,
           AwareInv(g, m), NEW t \in Threads, \A u \in Threads : u # t => m[u] = run[u], m[t].pc \notin FaultPcs,
           g.task[t].state = "running", ~g.task[t].exiting, run[t].pc \in {"loop", "relock", "rearm"},
           NEW sig \in AllSignals \cup {0}, sig # SIGKILL => Good(g, run, job), Dispatch(g, t, sig)
    PROVE  AwareInv(group', run')
<1>1. m[t].pc \notin LoopPcs /\ m[t].pc # "out"
  BY DEF FaultPcs
<1>2. ASSUME NEW at, group' = g, Goto(t, at)
      PROVE  AwareInv(group', run')
  <2>1. PICK q : q = run'
    OBVIOUS
  <2>2. \A u \in Threads : u # t => q[u] = m[u]
    BY <1>2, <2>1 DEF Goto
  <2>3. AwareInv(g, q)
    BY <1>1, <2>2, MoveAware
  <2> QED
    BY <1>2, <2>1, <2>3
<1>3. CASE /\ sig \notin {0, SIGKILL}
           /\ group' = IF "SA_ONESHOT" \in g.action[sig].flags
                       THEN [g EXCEPT !.action[sig].handler = "SIG_DFL"] ELSE g
           /\ run' = [run EXCEPT ![t].pc = "deliver", ![t].sig = sig, ![t].ka = g.action[sig]]
  <2>1. PICK h, q : h = group' /\ q = run'
    OBVIOUS
  <2>2. h = g \/ ActOnly(g, h)
    BY <1>3, <2>1, DefaultIs
  <2>3. AwareInv(h, m)
    BY <2>2, ActAware
  <2>4. \A u \in Threads : u # t => q[u] = m[u]
    BY <1>3, <2>1
  <2>5. AwareInv(h, q)
    BY <1>1, <2>3, <2>4, MoveAware
  <2> QED
    BY <2>1, <2>5
<1>4. CASE sig # SIGKILL /\ do_signal_stop(g, t)
  BY <1>4, StopAware
<1> QED
  BY <1>2, <1>3, <1>4, DispatchIs DEF Unlock, NextTurn

-----------------------------------------------------------------------------
(* Who knows of which signal, step by step *)

\* Steps in which a thread only goes on.
LEMMA GoesOnAware ==
    ASSUME Core, AwareInv(group, run), NEW t \in Threads, NEW at, Goto(t, at), group' = group,
           run[t].pc \in LoopPcs => at \in LoopPcs,
           run[t].pc = "out" => at \in FaultPcs \/ ~group.task[t].tif
    PROVE  AwareInv(group', run')
<1>1. PICK q : q = run'
  OBVIOUS
<1>2. q[t].pc = at /\ \A u \in Threads : u # t => q[u] = run[u]
  BY <1>1 DEF Goto, Core, Run
<1>3. AwareInv(group, q)
  BY <1>2, MoveAware
<1> QED
  BY <1>1, <1>3

LEMMA PlacesAware ==
    ASSUME Core, AwareInv(group, run), NEW t \in Threads,
           pause(t) \/ exit_to_usermode_loop(t) \/ CheckOrphaned(t) \/ Resume(t) \/ do_exit(t) \/ ExitAmongOthers(t)
    PROVE  AwareInv(group', run')
<1> USE DEF LoopPcs, FaultPcs
<1>1. CASE pause(t)
  BY <1>1, GoesOnAware DEF pause
<1>2. CASE exit_to_usermode_loop(t)
  <2>1. group' = group /\ run[t].pc \in {"user", "out"}
        /\ ((group.task[t].tif /\ Goto(t, "relock")) \/ (~group.task[t].tif /\ Goto(t, "user")))
    BY <1>2 DEF exit_to_usermode_loop
  <2> QED
    BY <2>1, GoesOnAware
<1>3. CASE CheckOrphaned(t)
  <2>1. group' = group /\ run[t].pc = "orphan" /\ (Goto(t, "relock") \/ Goto(t, "stop"))
    BY <1>3 DEF CheckOrphaned
  <2> QED
    BY <2>1, GoesOnAware
<1>4. CASE Resume(t)
  BY <1>4, GoesOnAware DEF Resume
<1>5. CASE do_exit(t) \/ ExitAmongOthers(t)
  <2>1. group' = group /\ run[t].pc \in {"user", "exit"} /\ \E at : Goto(t, at)
    BY <1>5 DEF do_exit, ExitAmongOthers
  <2> QED
    BY <2>1, GoesOnAware
<1> QED
  BY <1>1, <1>2, <1>3, <1>4, <1>5

LEMMA NewsAware ==
    ASSUME Core, AwareInv(group, run), NEW t \in Threads, NotifyParent(t) \/ NoticeContinue(t)
    PROVE  AwareInv(group', run')
<1>1. run \in [Threads -> Run] /\ run[t] \in Run /\ group \in Group
  BY MaskBits
<1>2. CASE NotifyParent(t)
  <2>1. PICK q : q = run'
    OBVIOUS
  <2>2. /\ group' = group /\ run[t].pc \in {"notify", "stopnotify", "exitnotify"}
        /\ q = [run EXCEPT ![t].why = "none",
                           ![t].pc = CASE @ = "notify" -> "relock"
                                       [] @ = "stopnotify" -> "stopped"
                                       [] @ = "exitnotify" -> "exited"]
    BY <1>2, <2>1 DEF NotifyParent
  <2>3. /\ \A u \in Threads : u # t => q[u] = run[u]
        /\ run[t].pc = "notify" => q[t].pc = "relock"
        /\ run[t].pc = "stopnotify" => q[t].pc = "stopped"
    BY <1>1, <2>2 DEF Run
  <2>4. run[t].pc # "out" /\ (run[t].pc \in LoopPcs => q[t].pc \in LoopPcs)
    BY <2>2, <2>3 DEF LoopPcs
  <2>5. AwareInv(group, q)
    BY <2>3, <2>4, MoveAware
  <2> QED
    BY <2>1, <2>2, <2>5
<1>3. CASE NoticeContinue(t)
  <2>1. PICK h, q : h = group' /\ q = run'
    OBVIOUS
  <2>2. /\ run[t].pc = "relock" /\ h = [group EXCEPT !.flags = group.flags \ {"CLD_STOPPED", "CLD_CONTINUED"}]
        /\ q = [run EXCEPT ![t].pc = "notify",
                           ![t].why = IF "CLD_CONTINUED" \in group.flags THEN "continued" ELSE "stopped"]
    BY <1>3, <2>1 DEF NoticeContinue, Locked
  <2>3. h.task = group.task /\ h.shared = group.shared /\ h.flags = group.flags \ {"CLD_STOPPED", "CLD_CONTINUED"}
    BY <1>1, <2>2 DEF Group
  <2>4. AwareInv(h, run)
    BY <1>1, <2>3, SameAware DEF signal_group_exit
  <2>5. q[t].pc = "notify" /\ \A u \in Threads : u # t => q[u] = run[u]
    BY <1>1, <2>2 DEF Run
  <2>6. run[t].pc # "out" /\ q[t].pc \in LoopPcs
    BY <2>2, <2>5 DEF LoopPcs
  <2>7. AwareInv(h, q)
    BY <2>4, <2>5, <2>6, MoveAware
  <2> QED
    BY <2>1, <2>7
<1> QED
  BY <1>2, <1>3

LEMMA SleepAware ==
    ASSUME Core, AwareInv(group, run), NEW t \in Threads, Sleep(t)
    PROVE  AwareInv(group', run')
<1>1. group \in Group /\ group.task[t] \in Task /\ run \in [Threads -> Run]
  BY MaskBits
<1>2. PICK h, q : h = group' /\ q = run'
  OBVIOUS
<1>3. PICK s \in {"running", "interruptible"} : h = [group EXCEPT !.task[t].state = s]
  BY <1>2 DEF Sleep
<1>4. run[t].pc = "pause" /\ \A u \in Threads : u # t => q[u] = run[u]
  BY <1>1, <1>2 DEF Sleep, Goto
<1>5. PICK b : b = [group.task[t] EXCEPT !.state = s]
  OBVIOUS
<1>6. /\ h = SetTask(group, t, b) /\ b \in Task /\ b.pending = group.task[t].pending /\ b.tif = group.task[t].tif
      /\ b.blocked = group.task[t].blocked /\ b.exiting = group.task[t].exiting
  BY <1>1, <1>3, <1>5 DEF SetTask, Group, Task
<1>7. OneTask(group, h, t, b)
  BY <1>1, <1>6, OneTaskIs
<1>8. AwareInv(h, run)
  BY <1>1, <1>6, <1>7, SameAware DEF OneTask, signal_group_exit
<1>9. AwareInv(h, q)
  BY <1>4, <1>8, MoveAware DEF LoopPcs
<1> QED
  BY <1>2, <1>9

\* In a group that exits nothing is left to know.
LEMMA ExitingAware ==
    ASSUME Core, NEW t \in Threads, MarkedForDeath(t) \/ do_group_exit(t)
    PROVE  AwareInv(group', run')
<1>1. group \in Group /\ group.task[t] \in Task
  BY MaskBits
<1>2. CASE MarkedForDeath(t)
  <2> DEFINE c == [group.task[t] EXCEPT !.pending.signal = @ \ {SIGKILL}]
             k == [group EXCEPT !.task[t].pending.signal = @ \ {SIGKILL}]
  <2>1. signal_group_exit(group) /\ group' = recalc_sigpending(k, t)
    BY <1>2 DEF MarkedForDeath
  <2>2. k \in Group /\ k.flags = group.flags
    BY <1>1 DEF Group, Task, Pending
  <2> HIDE DEF k
  <2>3. PICK b : OneTask(k, group', t, b)
    BY <2>1, <2>2, RecalcOne
  <2>4. signal_group_exit(group')
    BY <2>1, <2>2, <2>3 DEF OneTask, signal_group_exit
  <2> QED
    BY <2>4 DEF AwareInv
<1>3. CASE do_group_exit(t)
  <2>1. signal_group_exit(group) => signal_group_exit(group')
    BY <1>3 DEF do_group_exit
  <2>2. ~signal_group_exit(group) => Zapped(group, group', t)
    BY <1>1, <1>3, ZapIs DEF do_group_exit
  <2>3. signal_group_exit(group')
    BY <2>1, <2>2 DEF Zapped, signal_group_exit
  <2> QED
    BY <2>3 DEF AwareInv
<1> QED
  BY <1>2, <1>3

\* A new mask, by a thread that is not on its way back to user mode.
LEMMA MaskAware ==
    ASSUME Core, AwareInv(group, run), NEW t \in Threads, NEW newset \in SUBSET Signo, NEW v \in Run,
           Masked(t, newset, v)
    PROVE  AwareInv(group', run')
<1>1. run[t].pc \in {"user", "restore", "deliver"} /\ group' = set_current_blocked(group, t, newset)
      /\ run' = [run EXCEPT ![t] = v]
  BY DEF Masked
<1>2. group \in Group /\ t \in Members(group) /\ run \in [Threads -> Run] /\ Good(group, run, job)
  BY <1>1, MaskBits DEF LinkAt, Members, Core
<1>3. run[t].pc \notin FaultPcs /\ run[t].pc \notin LoopPcs /\ run[t].pc # "out"
  BY <1>1 DEF FaultPcs, LoopPcs
<1>4. PICK h, q : h = group' /\ q = run'
  OBVIOUS
<1>5. \A u \in Threads : u # t => q[u] = run[u]
  BY <1>1, <1>2, <1>4
<1>6. h = group \/ BlocksTo(group, h, t, newset)
  BY <1>1, <1>2, <1>4, SetTaskBlockedIs DEF set_current_blocked
<1>7. DeadExits(group)
  BY <1>2, DeadExitsBy
<1>8. AwareInv(h, run)
  BY <1>2, <1>3, <1>6, <1>7, BlocksAware
<1>9. AwareInv(h, q)
  BY <1>3, <1>5, <1>8, MoveAware
<1> QED
  BY <1>4, <1>9

\* What a thread takes off a queue is no new fault.
LEMMA TookNoFault ==
    ASSUME NEW g \in Group, NEW h, NEW t \in Threads, NEW sig, Took(g, h, t, sig), NoFault(g.task[t].pending)
    PROVE  NoFault(h.task[t].pending)
<1>1. PICK shared \in BOOLEAN, c \in Pending, freed \in Nat : TookFrom(g, h, t, sig, shared, c, freed)
  BY DEF Took
<1>2. CASE shared
  BY <1>1, <1>2 DEF TookFrom
<1>3. CASE ~shared
  <2>1. h.task[t].pending = c /\ Shrinks(g.task[t].pending, c)
    BY <1>1, <1>3 DEF TookFrom, PendingOf
  <2>2. g.task[t].pending \in Pending
    BY GroupType, TaskType
  <2> QED
    BY <2>1, <2>2, NoFaultShrinks
<1> QED
  BY <1>2, <1>3

\* sigtimedwait finds a signal, or unblocks what it waits for and knows what it has unblocked.
LEMMA SigwaitAware ==
    ASSUME Core, AwareInv(group, run), NEW t \in Threads, NEW set \in Masks, NEW timeout,
           do_sigtimedwait(t, set, timeout)
    PROVE  AwareInv(group', run')
<1> DEFINE which == Blockable(set)
           d == dequeue_signal(group, t, AllSignals \ which)
           c == [d.group.task[t] EXCEPT !.real_blocked = group.task[t].blocked, !.blocked = @ \ which,
                                        !.state = "interruptible"]
<1>1. group \in Group /\ group.task[t].blocked \subseteq Signo /\ run \in [Threads -> Run]
  BY MaskBits
<1>2. run[t].pc = "user"
  BY DEF do_sigtimedwait, Locked
<1>3. PICK k, sig : k = d.group /\ sig = d.sig
  OBVIOUS
<1>4. group' = k \/ group' = recalc_sigpending(SetTask(k, t, c), t)
  BY <1>3 DEF do_sigtimedwait
<1>5. PICK h, q : h = group' /\ q = run'
  OBVIOUS
<1>6. \A u \in Threads : u # t => q[u] = run[u]
  BY <1>1, <1>5 DEF do_sigtimedwait, Goto
<1> HIDE DEF which
<1>7. Took(group, k, t, sig) /\ k.task[t].tif = recalc_sigpending_tsk(k, t)
  BY <1>1, <1>3, DequeueSignalIs
<1>8. k \in Group /\ signal_group_exit(k) = signal_group_exit(group)
  BY <1>7, TookKeeps DEF signal_group_exit
<1>9. ~signal_group_exit(group) => NoFault(k.task[t].pending)
  <2>1. run[t].pc \notin FaultPcs
    BY <1>2 DEF FaultPcs, LoopPcs
  <2>2. ~signal_group_exit(group) => NoFault(group.task[t].pending)
    BY <2>1, NoFaultAt
  <2> QED
    BY <1>1, <1>7, <2>2, TookNoFault
<1>10. AwareInv(k, q)
  BY <1>1, <1>6, <1>7, <1>9, TookAware
<1>11. CASE group' = recalc_sigpending(SetTask(k, t, c), t)
  <2>1. k.task[t] \in Task
    BY <1>8, GroupType
  <2>2. /\ c \in Task /\ c.pending = k.task[t].pending /\ c.exiting = k.task[t].exiting
        /\ c.blocked \subseteq k.task[t].blocked
    BY <1>1, <1>3, <2>1 DEF Task
  <2> HIDE DEF c
  <2>3. PICK m : m = SetTask(k, t, c)
    OBVIOUS
  <2>4. OneTask(k, m, t, c)
    BY <1>8, <2>2, <2>3, OneTaskIs
  <2>5. m \in Group /\ m.task[t] = c
    BY <2>4 DEF OneTask
  <2>6. h = recalc_sigpending(m, t)
    BY <1>5, <1>11, <2>3
  <2>7. /\ recalc_sigpending_tsk(h, t) = recalc_sigpending_tsk(m, t)
        /\ \E b : /\ OneTask(m, h, t, b) /\ SameTask(c, b) /\ b.pending = c.pending
                  /\ b.tif = recalc_sigpending_tsk(m, t)
    BY <2>5, <2>6, RecalcIs
  <2>8. PICK b : /\ OneTask(m, h, t, b) /\ SameTask(c, b) /\ b.pending = c.pending
                 /\ b.tif = recalc_sigpending_tsk(m, t)
    BY <2>7
  <2>9. /\ h.shared = k.shared /\ h.flags = k.flags /\ h.task[t] = b
        /\ \A u \in Threads : u # t => h.task[u] = k.task[u]
    BY <2>4, <2>8 DEF OneTask
  <2>10. /\ h.task[t].pending = k.task[t].pending /\ h.task[t].exiting = k.task[t].exiting
         /\ h.task[t].blocked \subseteq k.task[t].blocked
         /\ (recalc_sigpending_tsk(h, t) => h.task[t].tif)
    BY <2>2, <2>7, <2>8, <2>9 DEF SameTask
  <2>11. signal_group_exit(h) = signal_group_exit(k) /\ h.shared.signal \subseteq k.shared.signal
    BY <2>9 DEF signal_group_exit
  <2>12. ~signal_group_exit(h) => NoFault(h.task[t].pending)
    BY <1>8, <1>9, <2>10, <2>11
  <2>13. AwareInv(h, q)
    BY <1>10, <2>9, <2>10, <2>11, <2>12, ExactAware
  <2> QED
    BY <1>5, <2>13
<1> QED
  BY <1>4, <1>5, <1>10, <1>11

\* The old mask comes back: what the thread no longer takes is passed on, and it looks for its signal.
LEMMA EndSigwaitAware ==
    ASSUME Core, AwareInv(group, run), NEW t \in Threads, EndSigwait(t)
    PROVE  AwareInv(group', run')
<1>1. PICK g1, g2, sig :
        /\ BlocksTo(group, g1, t, group.task[t].real_blocked) /\ Awake(g1, g2, t)
        /\ Took(g2, group', t, sig) /\ group'.task[t].tif = recalc_sigpending_tsk(group', t)
  BY EndSigwaitIs
<1>2. group \in Group /\ run \in [Threads -> Run] /\ DeadExits(group)
  BY MaskBits, DeadExitsBy DEF Core
<1>3. run[t].pc \notin FaultPcs
  BY DEF EndSigwait, Locked, FaultPcs, LoopPcs
<1>4. AwareInv(g1, run) /\ g1 \in Group
  BY <1>1, <1>2, <1>3, BlocksAware DEF BlocksTo
<1>5. PICK b : /\ OneTask(g1, g2, t, b) /\ b.blocked = g1.task[t].blocked /\ b.pending = g1.task[t].pending
               /\ b.tif = g1.task[t].tif /\ b.exiting = g1.task[t].exiting
  BY <1>1 DEF Awake
<1>6. /\ g2 \in Group /\ g2.shared = g1.shared /\ g2.flags = g1.flags
      /\ \A u \in Threads : /\ g2.task[u].exiting = g1.task[u].exiting /\ g2.task[u].blocked = g1.task[u].blocked
                            /\ g1.task[u].tif => g2.task[u].tif
                            /\ g2.task[u].pending = g1.task[u].pending
  BY <1>5 DEF OneTask
<1>7. signal_group_exit(g2) = signal_group_exit(g1)
  BY <1>6 DEF signal_group_exit
<1>8. AwareInv(g2, run)
  BY <1>4, <1>6, <1>7, SameAware
<1>9. PICK h, q : h = group' /\ q = run'
  OBVIOUS
<1>10. Took(g2, h, t, sig) /\ h.task[t].tif = recalc_sigpending_tsk(h, t) /\ \A u \in Threads : u # t => q[u] = run[u]
  BY <1>1, <1>2, <1>9 DEF EndSigwait
<1>11. ~signal_group_exit(g2) => NoFault(h.task[t].pending)
  BY <1>3, <1>6, <1>8, <1>10, NoFaultAt, TookNoFault
<1>12. AwareInv(h, q)
  BY <1>6, <1>8, <1>10, <1>11, TookAware
<1> QED
  BY <1>9, <1>12

\* A turn of get_signal leaves no entry of a fault, and either the flag says what is left or t has more to do.
LEMMA GetSignalAware ==
    ASSUME Core, QueueInv(group), AwareInv(group, run), NEW t \in Threads, GetSignal(t)
    PROVE  AwareInv(group', run')
<1> DEFINE d == Dequeue(group, t)
           a == group.task[t]
<1>1. InLoop(t)
  BY DEF GetSignal
<1>2. /\ run[t].pc \in {"loop", "relock"} /\ group.task[t].state = "running" /\ ~group.task[t].exiting
      /\ ~Dying(run[t]) /\ group \in Group /\ Good(group, run, job) /\ KillInv(group)
      /\ group.action[SIGKILL].handler = "SIG_DFL" /\ run \in [Threads -> Run] /\ run[t] \in Run
  BY <1>1, InLoopIs
<1>3. PICK k, sig : k = d.group /\ sig = d.sig
  OBVIOUS
<1>4. \/ group' = k /\ run' = [run EXCEPT ![t].pc = "rearm", ![t].sig = sig]
      \/ Dispatch(k, t, sig)
  BY <1>3 DEF GetSignal
<1>5. /\ Took(group, k, t, sig) /\ sig \in AllSignals \cup {0}
      /\ k.task[t].tif = recalc_sigpending_tsk(k, t) \/ (k.task[t].tif = a.tif /\ ~NoFault(a.pending))
      /\ Listed(a.pending) /\ FaultFirst(a.pending) /\ (NoFault(a.pending) \/ SIGSEGV \notin a.blocked)
             => NoFault(k.task[t].pending)
  BY <1>2, <1>3, DequeueIs
<1> HIDE DEF d
<1>6. /\ k \in Group /\ k.flags = group.flags /\ k.action = group.action
      /\ k.task[t].state = group.task[t].state /\ k.task[t].exiting = group.task[t].exiting
  BY <1>5, TookKeeps
<1>7. ~signal_group_exit(group) => AwareAt(a, run[t]) /\ Listed(a.pending) /\ FaultFirst(a.pending)
  BY QueueAre DEF AwareInv, QueueInv, ListInv
<1>8. /\ ~signal_group_exit(group) => NoFault(k.task[t].pending)
      /\ ~signal_group_exit(group) /\ recalc_sigpending_tsk(k, t) => k.task[t].tif
  BY <1>5, <1>7 DEF AwareAt
<1>9. CASE group' = k /\ run' = [run EXCEPT ![t].pc = "rearm", ![t].sig = sig]
  <2>1. PICK q : q = run'
    OBVIOUS
  <2>2. \A u \in Threads : u # t => q[u] = run[u]
    BY <1>2, <1>9, <2>1
  <2>3. AwareInv(k, q)
    BY <1>2, <1>5, <1>8, <2>2, TookAware
  <2> QED
    BY <1>9, <2>1, <2>3
<1>10. CASE Dispatch(k, t, sig)
  <2>1. run[t].pc \notin ExitPcs \cup {"rearm", "deliver", "stopnotify"} /\ run[t].which \cap SIG_KERNEL_ONLY_MASK = {}
    BY <1>2, MaskBits DEF ExitPcs
  <2>2. sig # SIGKILL => Good(k, run, job)
    BY <1>2, <1>5, <2>1, TookMove
  <2>3. PICK f : f = [run EXCEPT ![t].pc = "fatal"]
    OBVIOUS
  <2>4. f[t].pc = "fatal" /\ f[t].which = run[t].which /\ f[t].saved = run[t].saved
        /\ \A u \in Threads : u # t => f[u] = run[u]
    BY <1>2, <2>3 DEF Run
  <2>5. f[t].pc \notin ExitPcs \cup {"rearm", "deliver", "stopnotify"} /\ f[t].which \cap SIG_KERNEL_ONLY_MASK = {}
        /\ f[t].pc \notin FaultPcs
    BY <2>1, <2>4 DEF ExitPcs, FaultPcs, LoopPcs
  <2>6. KillInv(k)
    BY <1>2, <1>5, <2>4, <2>5, TookMove
  <2>7. AwareInv(k, f)
    BY <1>2, <1>5, <1>8, <2>4, TookAware
  <2>8. ~k.task[t].exiting /\ k.task[t].state = "running" /\ k.action[SIGKILL].handler = "SIG_DFL"
        /\ run[t].pc \in {"loop", "relock", "rearm"} /\ \A u \in Threads : u # t => f[u] = run[u]
    BY <1>2, <1>6, <2>4
  <2> QED
    BY <1>2, <1>5, <1>6, <1>10, <2>2, <2>5, <2>6, <2>7, <2>8, DispatchAware
<1> QED
  BY <1>4, <1>9, <1>10

LEMMA RearmedAware ==
    ASSUME Core, AwareInv(group, run), NEW t \in Threads, Rearmed(t)
    PROVE  AwareInv(group', run')
<1>1. Locked(t, "rearm") /\ run[t].pc = "rearm" /\ Dispatch(group, t, run[t].sig)
  BY DEF Rearmed, Locked
<1>2. /\ group.task[t].state = "running" /\ ~group.task[t].exiting /\ run[t] \in Run /\ group \in Group
      /\ Good(group, run, job) /\ KillInv(group) /\ group.action[SIGKILL].handler = "SIG_DFL"
      /\ run \in [Threads -> Run]
  BY <1>1, InLoopIs
<1>3. PICK sig : sig = run[t].sig
  OBVIOUS
<1>4. sig \in AllSignals \cup {0} /\ Dispatch(group, t, sig)
  BY <1>1, <1>2, <1>3, RunType
<1>5. run[t].pc \notin FaultPcs /\ run[t].pc \in {"loop", "relock", "rearm"}
  BY <1>1 DEF FaultPcs, LoopPcs
<1>6. PICK m : m = run
  OBVIOUS
<1>7. AwareInv(group, m) /\ m[t].pc \notin FaultPcs /\ \A u \in Threads : u # t => m[u] = run[u]
  BY <1>5, <1>6
<1> QED
  BY <1>2, <1>4, <1>5, <1>7, DispatchAware

LEMMA StopStepAware ==
    ASSUME Core, AwareInv(group, run), NEW t \in Threads, JoinGroupStop(t) \/ Stop(t)
    PROVE  AwareInv(group', run')
<1>1. (InLoop(t) \/ Locked(t, "stop")) /\ do_signal_stop(group, t)
  BY DEF JoinGroupStop, Stop
<1>2. /\ group.task[t].state = "running" /\ ~group.task[t].exiting /\ run \in [Threads -> Run]
      /\ Good(group, run, job) /\ KillInv(group) /\ run[t].pc \in {"loop", "relock", "rearm", "stop"}
  BY <1>1, InLoopIs
<1>3. PICK m, g : m = run /\ g = group
  OBVIOUS
<1>4. /\ AwareInv(g, m) /\ \A u \in Threads : u # t => m[u] = run[u]
      /\ Good(g, run, job) /\ KillInv(g) /\ g.task[t].state = "running" /\ ~g.task[t].exiting /\ do_signal_stop(g, t)
  BY <1>1, <1>2, <1>3
<1> QED
  BY <1>2, <1>4, StopAware

\* A thread leaves with its own signals; the others have lost nothing.
LEMMA LeftAware ==
    ASSUME NEW g \in Group, NEW r, AwareInv(g, r), NEW h, NEW q, NEW t \in Threads, Left(g, h, t),
           r[t].pc \notin FaultPcs, \A u \in Threads : u # t => q[u] = r[u],
           ~signal_group_exit(g) => \A s \in g.shared.signal : PassesOn(g, r, h, q, t, s)
    PROVE  AwareInv(h, q)
<1>1. LeftBy(g, h, t) /\ h.shared = g.shared /\ signal_group_exit(h) = signal_group_exit(g)
  BY LeftTasks DEF Left, signal_group_exit
<1>2. ASSUME ~signal_group_exit(g)
      PROVE  AwareAt(h.task[t], q[t])
  <2>1. NoFault(g.task[t].pending)
    BY <1>2, NoFaultAt
  <2>2. h.task[t].exiting /\ h.task[t].pending = g.task[t].pending
    BY <1>1 DEF LeftBy
  <2> QED
    BY <2>1, <2>2 DEF AwareAt, Takes
<1>3. ASSUME NEW u \in Threads, u # t
      PROVE  KeepsAt(g.task[u], r[u], h.task[u], q[u])
  <2>1. /\ SameTask(g.task[u], h.task[u]) /\ h.task[u].pending = g.task[u].pending /\ q[u] = r[u]
        /\ g.task[u].tif => h.task[u].tif
    BY <1>1, <1>3 DEF LeftBy
  <2> QED
    BY <2>1 DEF KeepsAt, SameTask, Looks
<1> QED
  BY <1>1, <1>2, <1>3, OneAware

LEMMA ExitAloneAware ==
    ASSUME Core, AwareInv(group, run), NEW t \in Threads, ExitAlone(t)
    PROVE  AwareInv(group', run')
<1>1. group \in Group /\ run \in [Threads -> Run] /\ DeadExits(group) /\ LinkAt(group.task[t], run[t])
  BY MaskBits, DeadExitsBy DEF Core
<1>2. PICK h, q : h = group' /\ q = run'
  OBVIOUS
<1>3. /\ h = [group EXCEPT !.task[t].exiting = TRUE] /\ run[t].pc = "exit"
      /\ thread_group_empty(group) \/ signal_group_exit(group)
      /\ \A u \in Threads : u # t => q[u] = run[u]
  BY <1>1, <1>2 DEF ExitAlone, Goto
<1>4. Left(group, h, t) /\ LeftBy(group, h, t)
  BY <1>1, <1>3, GoneIs, LeftTasks
<1>5. ASSUME ~signal_group_exit(group), NEW s \in group.shared.signal
      PROVE  PassesOn(group, run, h, q, t, s)
  <2>1. t \in Members(group)
    BY <1>1, <1>3 DEF LinkAt, Members
  <2>2. Members(group) = {t}
    BY <1>3, <1>5, <2>1, AloneIs
  <2>3. ASSUME NEW u \in Threads
        PROVE  ~Takes(h.task[u], s)
    <3>1. CASE u = t
      BY <1>4, <3>1 DEF LeftBy, Takes
    <3>2. CASE u # t
      <4>1. group.task[u].exiting
        BY <1>1, <2>2, <3>2 DEF Members, DeadExits
      <4> QED
        BY <1>4, <3>2, <4>1 DEF LeftBy, SameTask, Takes
    <3> QED
      BY <3>1, <3>2
  <2> QED
    BY <2>3 DEF PassesOn
<1>6. run[t].pc \notin FaultPcs
  BY <1>3 DEF FaultPcs, LoopPcs
<1>7. AwareInv(h, q)
  BY <1>1, <1>3, <1>4, <1>5, <1>6, LeftAware
<1> QED
  BY <1>2, <1>7

\* A thread that was woken for signals of the process offers them to the others when it leaves.
LEMMA OfferedAware ==
    ASSUME NEW g \in Group, NEW r, AwareInv(g, r), DeadExits(g), NEW t \in Threads, r[t].pc = "exitlock",
           NEW gone, gone = [g EXCEPT !.task[t].exiting = TRUE], NEW h,
           \/ ~g.task[t].tif /\ h = gone
           \/ h = retarget_shared_pending(gone, t, AllSignals \ g.task[t].blocked)
    PROVE  AwareInv(h, r)
<1>1. Left(g, gone, t) /\ Left(g, h, t)
  BY GoneIs, OfferedIs
<1>2. gone \in Group /\ LeftBy(g, gone, t) /\ LeftBy(g, h, t) /\ gone.shared = g.shared
  BY <1>1, LeftTasks DEF Left
<1>3. r[t].pc \notin FaultPcs /\ r[t].pc \notin LoopPcs
  BY DEF FaultPcs, LoopPcs
<1>4. ASSUME NEW s \in g.shared.signal
      PROVE  PassesOn(g, r, h, r, t, s)
  <2>1. ~Takes(h.task[t], s)
    BY <1>2 DEF LeftBy, Takes
  <2>2. CASE ~g.task[t].tif \/ s \in g.task[t].blocked
    BY <1>3, <2>1, <2>2 DEF PassesOn, Takes, Looks
  <2>3. CASE h = retarget_shared_pending(gone, t, AllSignals \ g.task[t].blocked) /\ s \notin g.task[t].blocked
    <3>1. Retargeted(gone, h, t, AllSignals \ g.task[t].blocked)
      BY <1>2, <2>3, RetargetIs
    <3>2. s \in gone.shared.signal \cap (AllSignals \ g.task[t].blocked)
      <4>1. g.shared \in Pending
        BY GroupType
      <4> QED
        BY <1>2, <2>3, <4>1, PendingType
    <3>3. Takers(gone, t, s) # {} => \E u \in Takers(gone, t, s) : h.task[u].tif
      BY <3>1, <3>2 DEF Retargeted
    <3>4. DeadExits(gone)
      BY <1>2 DEF DeadExits, LeftBy, SameTask
    <3>5. ASSUME NEW u \in Threads, u # t
          PROVE  Takes(h.task[u], s) <=> Takes(gone.task[u], s)
      BY <1>2, <3>5 DEF LeftBy, SameTask, Takes
    <3>6. CASE Takers(gone, t, s) # {}
      <4>1. PICK u \in Takers(gone, t, s) : h.task[u].tif
        BY <3>3, <3>6
      <4>2. u \in Threads /\ u # t /\ Takes(gone.task[u], s)
        BY DEF Takers, Members, Takes
      <4> QED
        BY <3>5, <4>1, <4>2 DEF PassesOn, Looks
    <3>7. CASE Takers(gone, t, s) = {}
      <4>1. ASSUME NEW u \in Threads
            PROVE  ~Takes(h.task[u], s)
        BY <2>1, <3>4, <3>5, <3>7, TakersAre
      <4> QED
        BY <4>1 DEF PassesOn
    <3> QED
      BY <3>6, <3>7
  <2> QED
    BY <2>2, <2>3
<1> QED
  BY <1>1, <1>3, <1>4, LeftAware

LEMMA ExitSignalsAware ==
    ASSUME Core, AwareInv(group, run), NEW t \in Threads, exit_signals(t)
    PROVE  AwareInv(group', run')
<1> DEFINE a == group.task[t]
           gone == [group EXCEPT !.task[t].exiting = TRUE]
           offered == retarget_shared_pending(gone, t, AllSignals \ a.blocked)
           x == task_participate_group_stop(offered, t)
           stops == a.tif /\ "STOP_PENDING" \in a.jobctl
<1>1. /\ run[t].pc = "exitlock"
      /\ group' = IF stops THEN x.group ELSE IF a.tif THEN offered ELSE gone
      /\ run' = [run EXCEPT ![t].pc = IF stops /\ x.notify THEN "exitnotify" ELSE "exited",
                            ![t].why = IF stops /\ x.notify THEN "stopped" ELSE @]
  BY DEF exit_signals, Locked
<1>2. Good(group, run, job) /\ group \in Group /\ Death(group, run) /\ DeadExits(group) /\ run \in [Threads -> Run]
  BY MaskBits, DeadExitsBy DEF Core, Good
<1>3. PICK h, q : h = group' /\ q = run'
  OBVIOUS
<1>4. \A u \in Threads : u # t => q[u] = run[u]
  BY <1>1, <1>2, <1>3
<1>5. Left(group, offered, t)
  BY <1>2, OfferedIs
<1>6. AwareInv(offered, run) /\ (~a.tif => AwareInv(gone, run))
  BY <1>1, <1>2, OfferedAware
<1> HIDE DEF gone, offered
<1>7. CASE stops
  <2>1. ~signal_group_exit(group)
    BY <1>1, <1>2, <1>7 DEF Death, DeathAt, ExitPcs, Dying
  <2>2. Stopping(offered, Joining(group), t) /\ offered \in Group
    BY <1>2, <1>5, <1>7, <2>1, LeftStopping DEF Left
  <2>3. PICK last : last = x.notify
    OBVIOUS
  <2>4. h = x.group
    BY <1>1, <1>3, <1>7
  <2>5. TookPart(offered, h, Joining(group), t, last)
    BY <2>2, <2>3, <2>4, ParticipateIs
  <2> HIDE DEF x
  <2>6. /\ h.shared = offered.shared /\ h.task[t] = [offered.task[t] EXCEPT !.jobctl = {}]
        /\ \A u \in Threads : u # t => h.task[u] = offered.task[u]
    BY <2>5 DEF TookPart
  <2>7. offered.task[t] \in Task
    BY <2>2, GroupType
  <2>8. \A u \in Threads : /\ h.task[u].exiting = offered.task[u].exiting /\ h.task[u].blocked = offered.task[u].blocked
                           /\ offered.task[u].tif => h.task[u].tif
                           /\ h.task[u].pending = offered.task[u].pending
    BY <2>6, <2>7 DEF Task
  <2>9. ~signal_group_exit(offered)
    BY <2>2 DEF Stopping
  <2> QED
    <3>1. AwareInv(h, run)
      BY <1>6, <2>2, <2>6, <2>8, <2>9, SameAware
    <3>2. run[t].pc \notin LoopPcs /\ run[t].pc # "out"
      BY <1>1 DEF LoopPcs
    <3>3. AwareInv(h, q)
      BY <1>4, <3>1, <3>2, MoveAware
    <3> QED
      BY <1>3, <3>3
<1>8. CASE ~stops
  <2>1. AwareInv(h, run)
    BY <1>1, <1>3, <1>6, <1>8
  <2>2. run[t].pc \notin LoopPcs /\ run[t].pc # "out"
    BY <1>1 DEF LoopPcs
  <2>3. AwareInv(h, q)
    BY <1>4, <2>1, <2>2, MoveAware
  <2> QED
    BY <1>3, <2>3
<1> QED
  BY <1>7, <1>8

\* A task that is released took nothing any more.
LEMMA ReleaseAware ==
    ASSUME Core, AwareInv(group, run), NEW t \in Threads, release_task(t)
    PROVE  AwareInv(group', run')
<1>1. PICK k : /\ k = group \/ (t = leader /\ group.timer /\ Disowned(group, k))
               /\ Gone(k, group', t)
  BY ReleaseIs
<1>2. group \in Group /\ run \in [Threads -> Run] /\ LinkAt(group.task[t], run[t])
  BY MaskBits
<1>3. run[t].pc = "exited" /\ run' = [run EXCEPT ![t] = Idle("dead")]
  BY DEF release_task, Locked
<1>4. AwareInv(k, run) /\ k.task[t].exiting
  <2>1. group.task[t].exiting
    BY <1>2, <1>3 DEF LinkAt
  <2> QED
    BY <1>1, <1>2, <2>1, DisownedAware DEF Disowned, SameTask
<1>5. PICK h, q : h = group' /\ q = run'
  OBVIOUS
<1>6. /\ h.task[t] = DeadTask /\ h.flags = k.flags /\ \A u \in Threads : u # t => h.task[u] = k.task[u]
      /\ h.shared = EmptyPending \/ h.shared = k.shared
  BY <1>1, <1>5 DEF Gone
<1>7. h.shared.signal \subseteq k.shared.signal /\ EmptyPending.signal = {} /\ Len(EmptyPending.list) = 0
  BY <1>6 DEF EmptyPending
<1>8. \A u \in Threads : u # t => q[u] = run[u]
  BY <1>2, <1>3, <1>5
<1>9. AwareAt(h.task[t], q[t])
  BY <1>6, <1>7, DeadTaskIs DEF AwareAt, NoFault
<1>10. \A u \in Threads : u # t => KeepsAt(k.task[u], run[u], h.task[u], q[u])
  BY <1>6, <1>8 DEF KeepsAt
<1>11. \A s \in h.shared.signal : PassesOn(k, run, h, q, t, s)
  BY <1>4, <1>6, DeadTaskIs DEF PassesOn, Takes
<1>12. signal_group_exit(h) = signal_group_exit(k)
  BY <1>6 DEF signal_group_exit
<1>13. AwareInv(h, q)
  BY <1>4, <1>7, <1>9, <1>10, <1>11, <1>12, OneAware
<1> QED
  BY <1>5, <1>13

LEMMA SendStepAware ==
    ASSUME Core, AwareInv(group, run), NEW sig \in AllSignals, NEW info, NEW p \in Threads, NEW shared \in BOOLEAN,
           Send(sig, info, p, shared), ~shared => info = "queue"
    PROVE  AwareInv(group', run')
<1>1. p \in Members(group) /\ run' = run
  BY DEF Send
<1>2. PICK mem, cpu : group' = send_signal(group, sig, info, p, shared, cpu, mem)
  BY DEF Send
<1>3. Good(group, run, job) /\ KillInv(group)
  BY DEF Core
<1>4. AwareInv(send_signal(group, sig, info, p, shared, cpu, mem), run)
  BY <1>1, <1>3, SendAware
<1> QED
  BY <1>1, <1>2, <1>4

LEMMA SendSigqueueAware ==
    ASSUME Core, AwareInv(group, run), NEW p \in Threads, NEW shared \in BOOLEAN, send_sigqueue(p, shared)
    PROVE  AwareInv(group', run')
<1> DEFINE n == prepare_signal(group, TimerSignal)
           k == PutPending(n, p, shared, Enqueue(PendingOf(n, p, shared), TimerEntry))
           i == JobAfter(job, TimerSignal)
<1>1. p \in Members(group) /\ run' = run
  BY DEF send_sigqueue
<1>2. PICK cpu : group' = n \/ group' = complete_signal(k, TimerSignal, p, shared, cpu)
  BY DEF send_sigqueue, TimerEntry
<1>3. Good(group, run, job) /\ group \in Group
  BY DEF Core, Good
<1>4. Good(n, run, i) /\ \E mask : Prepared(group, n, mask)
  BY <1>3, PrepareGood
<1> HIDE DEF n, i
<1>5. n \in Group /\ Members(n) = Members(group) /\ StoppedLooks(n, run) /\ DeadExits(n)
  <2>1. KillInv(group)
    BY DEF Core
  <2>2. n \in Group /\ Members(n) = Members(group)
    BY <1>3, <1>4, <2>1, PreparedKill DEF Prepared
  <2> QED
    BY <1>4, <2>2, StoppedLooksBy, DeadExitsBy
<1>6. AwareInv(n, run)
  BY <1>3, <1>4, PreparedAware
<1>7. Added(n, k, p, shared, TimerEntry) /\ TimerEntry \in Entry /\ TimerEntry.sig = TimerSignal /\ ~TimerEntry.positive
  BY <1>5, SendTimerIs, TimerEntryIs
<1> HIDE DEF k
<1>8. PICK q : q = TimerEntry
  OBVIOUS
<1>9. /\ p \in Members(n) /\ q \in Entry /\ Added(n, k, p, shared, q) /\ q.sig = TimerSignal
      /\ q.positive /\ ~shared => FaultHere(n, run, p, q.sig, cpu)
  BY <1>1, <1>5, <1>7, <1>8
<1>10. AwareInv(complete_signal(k, TimerSignal, p, shared, cpu), run)
  BY <1>5, <1>6, <1>9, AddedAware
<1> QED
  BY <1>1, <1>2, <1>6, <1>10

LEMMA TimerAware ==
    ASSUME Core, AwareInv(group, run), NEW t \in Threads, sigqueue_alloc(t) \/ timer_delete(t)
    PROVE  AwareInv(group', run')
<1>1. group \in Group /\ run' = run
  BY MaskBits DEF sigqueue_alloc, timer_delete
<1>2. CASE sigqueue_alloc(t)
  <2>1. group' = [group EXCEPT !.timer = TRUE, !.sigpending = @ + 1]
    BY <1>2 DEF sigqueue_alloc
  <2>2. PICK h : h = group'
    OBVIOUS
  <2>3. h.task = group.task /\ h.shared = group.shared /\ h.flags = group.flags
    BY <1>1, <2>1, <2>2 DEF Group
  <2>4. AwareInv(h, run)
    BY <1>1, <2>3, SameAware DEF signal_group_exit
  <2> QED
    BY <1>1, <2>2, <2>4
<1>3. CASE timer_delete(t)
  <2>1. group' = sigqueue_free(group)
    BY <1>3 DEF timer_delete
  <2>2. Disowned(group, sigqueue_free(group))
    BY <1>1, SigqueueFreeIs
  <2> QED
    BY <1>1, <2>1, <2>2, DisownedAware
<1> QED
  BY <1>2, <1>3

LEMMA SigactionAware ==
    ASSUME Core, AwareInv(group, run), NEW t \in Threads, NEW sig \in Settable, NEW act \in Actions,
           do_sigaction(t, sig, act)
    PROVE  AwareInv(group', run')
<1> DEFINE new == [group EXCEPT !.action[sig] = [act EXCEPT !.mask = Blockable(@)]]
<1>1. run' = run /\ (group' = new \/ group' = FlushAll(new, {sig}))
  BY DEF do_sigaction
<1>2. Good(group, run, job) /\ group \in Group /\ group.action[SIGKILL].handler = "SIG_DFL"
  BY DEF Core, Good
<1>3. sig \in AllSignals /\ SIGKILL \notin {sig}
  BY SignalNumbers, SignalsConstants DEF SIG_KERNEL_ONLY_MASK
<1>4. [act EXCEPT !.mask = Blockable(@)] \in Action
  BY ActionTypes, BlockableIs DEF Action
<1>5. ActOnly(group, new)
  BY <1>2, <1>3, <1>4, ActIs
<1> HIDE DEF new
<1>6. Good(new, run, job) /\ AwareInv(new, run) /\ new \in Group
  BY <1>2, <1>5, ActGood, ActAware DEF Good
<1>7. Prepared(new, FlushAll(new, {sig}), {sig})
  BY <1>3, <1>6, FlushPrepared
<1>8. AwareInv(FlushAll(new, {sig}), run)
  BY <1>6, <1>7, PreparedAware
<1> QED
  BY <1>1, <1>6, <1>8

LEMMA InitAware ==
    ASSUME Init
    PROVE  AwareInv(group, run)
<1>1. group.shared = EmptyPending /\ \A t \in Threads : group.task[t] = NewTask
  BY InitGroup
<1>2. EmptyPending.signal = {} /\ NewTask.pending = EmptyPending /\ Len(EmptyPending.list) = 0
  BY DEF EmptyPending, NewTask
<1> QED
  BY <1>1, <1>2 DEF AwareInv, AwareAt, NoFault

LEMMA AwareNext ==
    ASSUME Core, QueueInv(group), AwareInv(group, run), [Next]_vars
    PROVE  AwareInv(group', run')
<1>1. ASSUME NEW t \in Threads, KernelStep(t)
      PROVE  AwareInv(group', run')
  <2>1. CASE exit_to_usermode_loop(t) \/ CheckOrphaned(t) \/ Resume(t) \/ ExitAmongOthers(t)
    BY <2>1, PlacesAware
  <2>2. CASE NotifyParent(t) \/ NoticeContinue(t) \/ do_notify_parent(t)
    BY <2>2, NewsAware DEF do_notify_parent
  <2>3. CASE Sleep(t) \/ SigwaitWoken(t) \/ MarkedForDeath(t) \/ ExitAlone(t)
    BY <2>3, SleepAware, EndSigwaitAware, ExitingAware, ExitAloneAware DEF SigwaitWoken
  <2>4. CASE JoinGroupStop(t) \/ GetSignal(t) \/ Rearmed(t) \/ Stop(t)
    BY <2>4, StopStepAware, GetSignalAware, RearmedAware
  <2>5. CASE RestoreMask(t) \/ signal_delivered(t)
    BY <2>5, RestoreIs, DeliveredIs, MaskAware
  <2>6. CASE ResetSegv(t) \/ force_sigsegv(t) \/ (run[t].pc = "fatal" /\ do_group_exit(t)) \/ exit_signals(t)
             \/ release_task(t)
    BY <2>6, ResetAware, ForceSigsegvIs, ForcedAware, ExitingAware, ExitSignalsAware, ReleaseAware
  <2> QED
    BY <1>1, <2>1, <2>2, <2>3, <2>4, <2>5, <2>6 DEF KernelStep
<1>2. ASSUME NEW t \in Threads, UserStep(t)
      PROVE  AwareInv(group', run')
  <2>1. CASE \E how \in {"SIG_BLOCK", "SIG_UNBLOCK", "SIG_SETMASK"}, set \in Masks : rt_sigprocmask(t, how, set)
    BY <2>1, SigprocmaskIs, MaskAware
  <2>2. CASE \E sig \in Settable, act \in Actions : do_sigaction(t, sig, act)
    BY <2>2, SigactionAware
  <2>3. CASE \E set \in Masks : sigsuspend(t, set) \/ \E timeout \in {0, 1} : do_sigtimedwait(t, set, timeout)
    BY <2>3, SuspendIs, MaskAware, SigwaitAware
  <2>4. CASE SigwaitTimeout(t) \/ Fault(t) \/ sigqueue_alloc(t) \/ timer_delete(t)
    BY <2>4, EndSigwaitAware, FaultIs, ForcedAware, TimerAware DEF SigwaitTimeout
  <2>5. CASE pause(t) \/ do_exit(t)
    BY <2>5, PlacesAware
  <2>6. CASE run[t].pc = "user" /\ do_group_exit(t)
    BY <2>6, ExitingAware
  <2> QED
    BY <1>2, <2>1, <2>2, <2>3, <2>4, <2>5, <2>6 DEF UserStep
<1>3. ASSUME Sender
      PROVE  AwareInv(group', run')
  <2>1. Sendable \subseteq AllSignals /\ SIGKILL \in AllSignals /\ leader \in Threads /\ TRUE \in BOOLEAN /\ FALSE \in BOOLEAN
    BY SignalNumbers, ThreadsFinite
  <2>2. CASE \E sig \in Sendable : kill(sig) \/ kill_pgrp(sig) \/ rt_sigqueueinfo(sig)
    BY <2>1, <2>2, SendStepAware DEF kill, kill_pgrp, rt_sigqueueinfo
  <2>3. CASE \E sig \in Sendable, t \in Threads : do_tkill(t, sig)
    BY <2>1, <2>3, SendStepAware DEF do_tkill
  <2>4. CASE oom_kill
    BY <2>1, <2>4, SendStepAware DEF oom_kill
  <2>5. CASE \E shared \in BOOLEAN, t \in Threads : send_sigqueue(t, shared)
    BY <2>5, SendSigqueueAware
  <2> QED
    BY <1>3, <2>2, <2>3, <2>4, <2>5 DEF Sender
<1>4. CASE UNCHANGED vars
  BY <1>4 DEF vars
<1> QED
  BY <1>1, <1>2, <1>3, <1>4 DEF Next

\* Nobody misses a signal: a thread with an unblocked signal of its own or a stop to take part in has
\* TIF_SIGPENDING set or is on its way to look, and an unblocked signal of the process is known to a
\* thread that takes it: complete_signal wakes one, and retarget_shared_pending finds another for what a
\* thread that was woken blocks, waits out or leaves behind.
THEOREM NobodyMissesASignal == Spec => []NoMissedSignal
<1> DEFINE Inv == Core /\ QueueInv(group) /\ AwareInv(group, run)
<1>1. Init => Inv
  BY InitCore, InitQueue, InitAware
<1>2. Inv /\ [Next]_vars => Inv'
  BY CoreNext, QueueNext, AwareNext
<1>3. ASSUME Core, AwareInv(group, run)
      PROVE  NoMissedSignal
  <2>1. SUFFICES ASSUME ~signal_group_exit(group)
                 PROVE  /\ \A t \in Threads :
                             \/ WillLook(t)
                             \/ /\ "STOP_PENDING" \notin group.task[t].jobctl
                                /\ ~\E s \in group.task[t].pending.signal : Takes(group.task[t], s)
                        /\ \A s \in group.shared.signal :
                             (\E t \in Threads : Takes(group.task[t], s)) =>
                                 \E t \in Threads : Takes(group.task[t], s) /\ WillLook(t)
    BY DEF NoMissedSignal, Takes
  <2>2. \A t \in Threads : Looks(group.task[t], run[t]) => WillLook(t)
    BY DEF Looks, WillLook, LoopPcs
  <2>3. ASSUME NEW t \in Threads
        PROVE  AwareAt(group.task[t], run[t]) /\ ("STOP_PENDING" \in group.task[t].jobctl => group.task[t].tif)
    BY <1>3, <2>1 DEF AwareInv, Core, Good, StopInv, StopAt
  <2>4. \A s \in group.shared.signal : Known(group, run, s)
    BY <1>3, <2>1 DEF AwareInv
  <2> QED
    BY <2>2, <2>3, <2>4 DEF AwareAt, Known, Looks
<1> QED
  BY <1>1, <1>2, <1>3, PTL DEF Spec

-----------------------------------------------------------------------------
(* The bans of hw2.c *)

BanPcs == {"idle", "clear", "add", "or", "check", "load", "store", "next", "done"}
Walking == {"load", "store", "next"}

CallRecord == [pc : BanPcs, ban : Bans \cup {"none"}, at : Tasks, height : Nat, reg : SUBSET Bans,
               todo : SUBSET Bans, count : Nat, seen : SUBSET Tasks, again : BOOLEAN, alone : BOOLEAN,
               goal : SUBSET (Tasks \X Bans)]

BanTypeOK ==
    /\ banned_signals \in [Tasks -> SUBSET Bans]
    /\ real_parent \in [Tasks -> Tasks] /\ tgid \in [Tasks -> Tasks] /\ euid0 \in SUBSET Tasks
    /\ status \in [Tasks -> {"live", "released", "free"}]
    /\ grace \in [Tasks -> SUBSET Tasks]
    /\ call \in [Tasks -> CallRecord]
    /\ \A t \in Tasks : call[t].pc \in Walking \cup {"or"} => call[t].ban \in Bans
    /\ \A t \in Tasks : call[t].pc \in Walking => call[t].height > 0

-----------------------------------------------------------------------------
(* Types *)

LEMMA NoCallType == NoCall \in CallRecord /\ NoCall.pc = "idle" /\ NoCall.seen = {} /\ NoCall.again = FALSE
                 /\ NoCall.alone = FALSE
BY BanConstants DEF NoCall, CallRecord, BanPcs

\* Disturb changes only what the history says of the calls under way.
LEMMA Disturbed ==
    ASSUME BanTypeOK
    PROVE  /\ Disturb \in [Tasks -> CallRecord]
           /\ \A t \in Tasks :
                /\ Disturb[t].pc = call[t].pc /\ Disturb[t].ban = call[t].ban /\ Disturb[t].at = call[t].at
                /\ Disturb[t].height = call[t].height /\ Disturb[t].reg = call[t].reg
                /\ Disturb[t].seen = call[t].seen /\ Disturb[t].again = call[t].again
                /\ Disturb[t].alone = FALSE
<1> DEFINE Other(c) == [c EXCEPT !.alone = FALSE, !.goal = {}]
<1>1. ASSUME NEW c \in CallRecord
      PROVE  /\ Other(c) \in CallRecord
             /\ Other(c).pc = c.pc /\ Other(c).ban = c.ban /\ Other(c).at = c.at
             /\ Other(c).height = c.height /\ Other(c).reg = c.reg
             /\ Other(c).seen = c.seen /\ Other(c).again = c.again /\ Other(c).alone = FALSE
  BY DEF CallRecord
<1>2. Disturb = [t \in Tasks |-> Other(call[t])]
  BY DEF Disturb
<1> HIDE DEF Other
<1> QED
  BY <1>1, <1>2 DEF BanTypeOK

\* A call begins.
LEMMA EnterTypes ==
    ASSUME BanTypeOK, NEW t \in Tasks, NEW c \in CallRecord, Enter(t, c),
           c.pc \in Walking \cup {"or"} => c.ban \in Bans, c.pc \in Walking => c.height > 0
    PROVE  BanTypeOK'
<1>1. call' = [Disturb EXCEPT ![t] = c] /\ UNCHANGED <<banned_signals, treeVars>>
  BY DEF Enter
<1>2. call' \in [Tasks -> CallRecord] /\ call'[t] = c /\ \A u \in Tasks \ {t} : call'[u] = Disturb[u]
  BY <1>1, Disturbed
<1> QED
  BY <1>1, <1>2, Disturbed DEF BanTypeOK, treeVars

LEMMA ReturnTypes ==
    ASSUME BanTypeOK, NEW t \in Tasks, Return(t)
    PROVE  BanTypeOK'
<1>1. call' \in [Tasks -> CallRecord] /\ call'[t] = NoCall /\ \A u \in Tasks \ {t} : call'[u] = call[u]
  BY NoCallType DEF Return, BanTypeOK
<1>2. grace' \in [Tasks -> SUBSET Tasks]
  BY DEF Return, BanTypeOK
<1> QED
  BY <1>1, <1>2, NoCallType DEF Return, BanTypeOK, Walking

\* What the calls pass on to their first step.
SetCall(t, bans) == [NoCall EXCEPT !.pc = "clear", !.at = t, !.todo = bans]
CheckCall(other, ban) == [NoCall EXCEPT !.pc = "check", !.at = other, !.ban = ban]
FlipCall(t, height, ban, alone, goal) ==
    [NoCall EXCEPT !.pc = "load", !.ban = ban, !.at = real_parent[t], !.height = height,
                 !.alone = alone, !.goal = goal]

LEMMA SetCallType ==
    ASSUME NEW t \in Tasks, NEW bans \in SUBSET Bans
    PROVE  /\ SetCall(t, bans) \in CallRecord /\ SetCall(t, bans).pc = "clear" /\ SetCall(t, bans).at = t
           /\ SetCall(t, bans).seen = {} /\ SetCall(t, bans).again = FALSE /\ SetCall(t, bans).alone = FALSE
BY BanConstants DEF SetCall, NoCall, CallRecord, BanPcs

LEMMA CheckCallType ==
    ASSUME NEW other \in Tasks, NEW ban \in Bans
    PROVE  /\ CheckCall(other, ban) \in CallRecord /\ CheckCall(other, ban).pc = "check"
           /\ CheckCall(other, ban).at = other /\ CheckCall(other, ban).seen = {}
           /\ CheckCall(other, ban).again = FALSE /\ CheckCall(other, ban).alone = FALSE
BY BanConstants DEF CheckCall, NoCall, CallRecord, BanPcs

LEMMA GoalType ==
    ASSUME NEW t, NEW height, NEW ban \in Bans, Branch(t, height) \subseteq Tasks
    PROVE  Flipped(Branch(t, height), ban) \in SUBSET (Tasks \X Bans)
BY DEF Flipped, AllBans

-----------------------------------------------------------------------------
(* The steps of a call *)

Others(t) == \A u \in Tasks \ {t} : call'[u] = call[u]

\* Two states of a call at the same place of its walk.
SameWalk(old, new) ==
    /\ new.ban = old.ban /\ new.at = old.at /\ new.height = old.height /\ new.count = old.count
    /\ new.seen = old.seen /\ new.again = old.again /\ new.alone = old.alone /\ new.goal = old.goal

LEMMA StepTypes ==
    ASSUME BanTypeOK, NEW t \in Tasks, UNCHANGED treeVars, banned_signals' \in [Tasks -> SUBSET Bans], Others(t),
           call' \in [Tasks -> CallRecord],
           call'[t].pc \in Walking \cup {"or"} => call'[t].ban \in Bans,
           call'[t].pc \in Walking => call'[t].height > 0
    PROVE  BanTypeOK'
<1> HIDE DEF CallRecord, Walking
<1>1. \A u \in Tasks \ {t} : call'[u] = call[u]
  BY DEF Others
<1> QED
  BY <1>1 DEF BanTypeOK, treeVars

LEMMA LoadBanStep ==
    ASSUME BanTypeOK, NEW t \in Tasks, LoadBan(t)
    PROVE  /\ call[t].pc = "load" /\ UNCHANGED <<banned_signals, treeVars>> /\ Others(t)
           /\ call' \in [Tasks -> CallRecord]
           /\ call'[t].pc = "store" /\ call'[t].reg = banned_signals[call[t].at] /\ SameWalk(call[t], call'[t])
<1> DEFINE new == [call[t] EXCEPT !.pc = "store", !.reg = banned_signals[call[t].at]]
<1>1. call[t] \in CallRecord /\ banned_signals[call[t].at] \in SUBSET Bans
  BY DEF BanTypeOK, CallRecord
<1>2. call' = [call EXCEPT ![t] = new]
  BY DEF LoadBan
<1>3. new \in CallRecord /\ new.pc = "store" /\ new.reg = banned_signals[call[t].at] /\ SameWalk(call[t], new)
  BY <1>1 DEF CallRecord, BanPcs, SameWalk
<1> HIDE DEF new
<1>4. call'[t] = new /\ Others(t) /\ call' \in [Tasks -> CallRecord]
  BY <1>2, <1>3 DEF Others, BanTypeOK
<1>5. call[t].pc = "load" /\ UNCHANGED <<banned_signals, treeVars>>
  BY DEF LoadBan
<1> QED
  BY <1>3, <1>4, <1>5

LEMMA FlipBanStep ==
    ASSUME BanTypeOK, NEW t \in Tasks, FlipBan(t)
    PROVE  LET c == call[t]
               new == call'[t]
           IN /\ c.pc = "store" /\ UNCHANGED treeVars /\ Others(t)
              /\ call' \in [Tasks -> CallRecord]
              /\ new.pc = "next" /\ new.ban = c.ban /\ new.at = c.at /\ new.height = c.height
              /\ new.count = IF c.ban \in c.reg THEN c.count ELSE c.count + 1
              /\ new.seen = c.seen \cup {c.at}
              /\ new.again => c.again \/ c.at \in c.seen
              /\ new.alone = c.alone /\ new.goal = c.goal
              /\ banned_signals' \in [Tasks -> SUBSET Bans]
              /\ \A u \in Tasks \ {c.at} : banned_signals'[u] = banned_signals[u]
              /\ c.reg = banned_signals[c.at] =>
                   banned_signals'[c.at] = IF c.ban \in c.reg THEN c.reg \ {c.ban} ELSE c.reg \cup {c.ban}
<1> DEFINE c == call[t]
           count == IF c.ban \in c.reg THEN c.count ELSE c.count + 1
           again == c.again \/ c.at \in c.seen
           new == [c EXCEPT !.pc = "next", !.reg = {}, !.count = count, !.seen = c.seen \cup {c.at}, !.again = again]
<1>1. c \in CallRecord /\ c.pc = "store" /\ UNCHANGED treeVars /\ c.ban \in Bans
  BY DEF BanTypeOK, FlipBan, Walking
<1>2. call' = [call EXCEPT ![t] = new]
  BY DEF FlipBan
<1>3. again \in BOOLEAN /\ count \in Nat /\ c.at \in Tasks /\ c.reg \in SUBSET Bans
  BY <1>1 DEF CallRecord
<1>4. again => c.again \/ c.at \in c.seen
  OBVIOUS
<1>5. count = IF c.ban \in c.reg THEN c.count ELSE c.count + 1
  OBVIOUS
<1> HIDE DEF again, count
<1>6. /\ new \in CallRecord /\ new.pc = "next" /\ new.ban = c.ban /\ new.at = c.at /\ new.height = c.height
      /\ new.count = count /\ new.seen = c.seen \cup {c.at} /\ new.again = again
      /\ new.alone = c.alone /\ new.goal = c.goal
  BY <1>1, <1>3 DEF CallRecord, BanPcs
<1>7. \E old \in {c.reg, banned_signals[c.at]} : banned_signals' =
        [banned_signals EXCEPT ![c.at] = IF c.ban \in c.reg THEN old \ {c.ban} ELSE old \cup {c.ban}]
  BY DEF FlipBan
<1> HIDE DEF new
<1>8. call'[t] = new /\ Others(t) /\ call' \in [Tasks -> CallRecord]
  BY <1>2, <1>6 DEF BanTypeOK, Others
<1>9. /\ banned_signals' \in [Tasks -> SUBSET Bans]
      /\ \A u \in Tasks \ {c.at} : banned_signals'[u] = banned_signals[u]
      /\ c.reg = banned_signals[c.at] =>
           banned_signals'[c.at] = IF c.ban \in c.reg THEN c.reg \ {c.ban} ELSE c.reg \cup {c.ban}
  <2>1. PICK old \in {c.reg, banned_signals[c.at]} : banned_signals' =
          [banned_signals EXCEPT ![c.at] = IF c.ban \in c.reg THEN old \ {c.ban} ELSE old \cup {c.ban}]
    BY <1>7
  <2> DEFINE value == IF c.ban \in c.reg THEN old \ {c.ban} ELSE old \cup {c.ban}
  <2>2. value \in SUBSET Bans
    BY <1>1, <1>3 DEF BanTypeOK
  <2>3. c.reg = banned_signals[c.at] => value = IF c.ban \in c.reg THEN c.reg \ {c.ban} ELSE c.reg \cup {c.ban}
    OBVIOUS
  <2>4. banned_signals' = [banned_signals EXCEPT ![c.at] = value]
    BY <2>1
  <2> HIDE DEF value
  <2> QED
    BY <1>3, <2>2, <2>3, <2>4 DEF BanTypeOK
<1>10. call'[t].again => c.again \/ c.at \in c.seen
  BY <1>4, <1>6, <1>8
<1> QED
  BY <1>1, <1>5, <1>6, <1>8, <1>9, <1>10

LEMMA MoveUpStep ==
    ASSUME BanTypeOK, NEW t \in Tasks, MoveUp(t)
    PROVE  LET c == call[t]
               new == call'[t]
           IN /\ c.pc = "next" /\ UNCHANGED <<banned_signals, treeVars>> /\ Others(t)
              /\ call' \in [Tasks -> CallRecord]
              /\ \/ /\ c.at = real_parent[c.at] \/ c.height = 1
                    /\ new.pc = "done" /\ SameWalk(c, new)
                 \/ /\ c.at # real_parent[c.at] /\ c.height # 1
                    /\ new.pc = "load" /\ new.ban = c.ban /\ new.at = real_parent[c.at]
                    /\ new.height = c.height - 1 /\ new.height > 0 /\ new.count = c.count
                    /\ new.seen = c.seen /\ new.again = c.again /\ new.alone = c.alone /\ new.goal = c.goal
<1> DEFINE c == call[t]
           Ends == [c EXCEPT !.pc = "done"]
           Up == [c EXCEPT !.pc = "load", !.at = real_parent[c.at], !.height = c.height - 1]
<1>1. c \in CallRecord /\ c.pc = "next" /\ UNCHANGED <<banned_signals, treeVars>> /\ c.height > 0
  BY DEF BanTypeOK, MoveUp, Walking
<1>2. \/ (c.at = real_parent[c.at] \/ c.height = 1) /\ call' = [call EXCEPT ![t] = Ends]
      \/ (c.at # real_parent[c.at] /\ c.height # 1) /\ call' = [call EXCEPT ![t] = Up]
  BY DEF MoveUp, IsRoot, LastOfBranch, NextUp
<1>3. Ends \in CallRecord /\ Ends.pc = "done" /\ SameWalk(c, Ends)
  BY <1>1 DEF CallRecord, BanPcs, SameWalk
<1>4. ASSUME c.height # 1
      PROVE  /\ Up \in CallRecord /\ Up.pc = "load" /\ Up.ban = c.ban /\ Up.at = real_parent[c.at]
             /\ Up.height = c.height - 1 /\ Up.height > 0 /\ Up.count = c.count
             /\ Up.seen = c.seen /\ Up.again = c.again /\ Up.alone = c.alone /\ Up.goal = c.goal
  <2>1. c.height - 1 \in Nat /\ c.height - 1 > 0 /\ real_parent[c.at] \in Tasks
    BY <1>1, <1>4 DEF CallRecord, BanTypeOK
  <2> QED
    BY <1>1, <2>1 DEF CallRecord, BanPcs
<1> HIDE DEF Ends, Up
<1>5. CASE (c.at = real_parent[c.at] \/ c.height = 1) /\ call' = [call EXCEPT ![t] = Ends]
  <2>1. call'[t] = Ends /\ Others(t) /\ call' \in [Tasks -> CallRecord]
    BY <1>3, <1>5 DEF BanTypeOK, Others
  <2> QED
    BY <1>1, <1>3, <1>5, <2>1
<1>6. CASE (c.at # real_parent[c.at] /\ c.height # 1) /\ call' = [call EXCEPT ![t] = Up]
  <2>1. call'[t] = Up /\ Others(t) /\ call' \in [Tasks -> CallRecord]
    BY <1>4, <1>6 DEF BanTypeOK, Others
  <2> QED
    BY <1>1, <1>4, <1>6, <2>1
<1> QED
  BY <1>2, <1>5, <1>6

\* The steps of sys_set_ban stay at the caller's own task_struct.
LEMMA OwnStep ==
    ASSUME BanTypeOK, NEW t \in Tasks, ClearBans(t) \/ (LoadOwn(t) /\ ~Return(t)) \/ OrBan(t)
    PROVE  LET c == call[t]
               new == call'[t]
           IN /\ c.pc \in {"clear", "add", "or"} /\ new.pc \in {"add", "or"}
              /\ UNCHANGED treeVars /\ Others(t)
              /\ call' \in [Tasks -> CallRecord]
              /\ new.pc = "or" => new.ban \in Bans
              /\ new.at = c.at /\ new.seen = c.seen /\ new.again = c.again /\ new.alone = c.alone
              /\ banned_signals' \in [Tasks -> SUBSET Bans]
              /\ \A u \in Tasks \ {t} : banned_signals'[u] = banned_signals[u]
<1> DEFINE c == call[t]
           New(pc, ban, reg, todo) == [c EXCEPT !.pc = pc, !.ban = ban, !.reg = reg, !.todo = todo]
<1>1. c \in CallRecord /\ banned_signals[t] \in SUBSET Bans
  BY DEF BanTypeOK
<1>2. ASSUME NEW pc \in {"add", "or"}, NEW ban \in Bans \cup {"none"}, NEW reg \in SUBSET Bans,
             NEW todo \in SUBSET Bans
      PROVE  /\ New(pc, ban, reg, todo) \in CallRecord /\ New(pc, ban, reg, todo).pc = pc
             /\ New(pc, ban, reg, todo).ban = ban
             /\ New(pc, ban, reg, todo).at = c.at /\ New(pc, ban, reg, todo).seen = c.seen
             /\ New(pc, ban, reg, todo).again = c.again /\ New(pc, ban, reg, todo).alone = c.alone
  BY <1>1, <1>2 DEF CallRecord, BanPcs
<1>3. ASSUME NEW pc \in {"add", "or"}, NEW ban \in Bans \cup {"none"}, NEW reg \in SUBSET Bans,
             NEW todo \in SUBSET Bans, call' = [call EXCEPT ![t] = New(pc, ban, reg, todo)],
             pc = "or" => ban \in Bans
      PROVE  /\ call'[t].pc \in {"add", "or"} /\ Others(t) /\ call' \in [Tasks -> CallRecord]
             /\ call'[t].pc = "or" => call'[t].ban \in Bans
             /\ call'[t].at = c.at /\ call'[t].seen = c.seen /\ call'[t].again = c.again
             /\ call'[t].alone = c.alone
  <2> HIDE DEF New
  <2>1. call'[t] = New(pc, ban, reg, todo) /\ Others(t)
    BY <1>3 DEF BanTypeOK, Others
  <2>2. /\ New(pc, ban, reg, todo) \in CallRecord /\ New(pc, ban, reg, todo).pc = pc
        /\ New(pc, ban, reg, todo).ban = ban
        /\ New(pc, ban, reg, todo).at = c.at /\ New(pc, ban, reg, todo).seen = c.seen
        /\ New(pc, ban, reg, todo).again = c.again /\ New(pc, ban, reg, todo).alone = c.alone
    BY <1>2
  <2>3. call' \in [Tasks -> CallRecord]
    BY <1>3, <2>2 DEF BanTypeOK
  <2> QED
    BY <1>3, <2>1, <2>2, <2>3
<1>4. CASE ClearBans(t)
  <2>1. call' = [call EXCEPT ![t] = New("add", c.ban, c.reg, c.todo)]
    <3>1. New("add", c.ban, c.reg, c.todo) = [c EXCEPT !.pc = "add"]
      BY <1>1 DEF CallRecord
    <3> HIDE DEF New
    <3> QED
      BY <1>4, <3>1 DEF ClearBans
  <2>2. c.ban \in Bans \cup {"none"} /\ c.reg \in SUBSET Bans /\ c.todo \in SUBSET Bans
    BY <1>1 DEF CallRecord
  <2>3. c.pc = "clear" /\ UNCHANGED treeVars /\ banned_signals' = [banned_signals EXCEPT ![t] = {}]
    BY <1>4 DEF ClearBans
  <2> HIDE DEF New
  <2> QED
    BY <1>3, <2>1, <2>2, <2>3 DEF BanTypeOK
<1>5. CASE LoadOwn(t) /\ ~Return(t)
  <2>1. PICK b \in c.todo : call' = [call EXCEPT ![t].pc = "or", ![t].ban = b, ![t].reg = banned_signals[t],
                                                 ![t].todo = @ \ {b}]
    BY <1>5 DEF LoadOwn
  <2>2. call' = [call EXCEPT ![t] = New("or", b, banned_signals[t], c.todo \ {b})]
    BY <2>1
  <2>3. b \in Bans /\ c.todo \ {b} \in SUBSET Bans
    BY <1>1, <2>1 DEF CallRecord
  <2>4. c.pc = "add" /\ UNCHANGED <<banned_signals, treeVars>>
    BY <1>5 DEF LoadOwn
  <2> HIDE DEF New
  <2>5. /\ call'[t].pc \in {"add", "or"} /\ Others(t) /\ call' \in [Tasks -> CallRecord]
        /\ call'[t].pc = "or" => call'[t].ban \in Bans
        /\ call'[t].at = c.at /\ call'[t].seen = c.seen /\ call'[t].again = c.again
        /\ call'[t].alone = c.alone
    BY <1>1, <1>3, <2>2, <2>3
  <2> QED
    BY <2>4, <2>5 DEF BanTypeOK
<1>6. CASE OrBan(t)
  <2>1. call' = [call EXCEPT ![t] = New("add", "none", {}, c.todo)]
    <3>1. New("add", "none", {}, c.todo) = [c EXCEPT !.pc = "add", !.reg = {}, !.ban = "none"]
      BY <1>1 DEF CallRecord
    <3> HIDE DEF New
    <3> QED
      BY <1>6, <3>1 DEF OrBan
  <2>2. c.pc = "or" /\ UNCHANGED treeVars /\ c.todo \in SUBSET Bans /\ c.reg \in SUBSET Bans
        /\ banned_signals' = [banned_signals EXCEPT ![t] = c.reg \cup {c.ban}]
    BY <1>1, <1>6 DEF OrBan, CallRecord
  <2>3. c.ban \in Bans
    BY <2>2 DEF BanTypeOK
  <2> HIDE DEF New
  <2> QED
    BY <1>3, <2>1, <2>2, <2>3 DEF BanTypeOK
<1> QED
  BY <1>4, <1>5, <1>6

-----------------------------------------------------------------------------
(* The branch above a task *)


\* The n + 1 tasks from t on, each the parent of the one before.
Path(parent, t, n, up) ==
    /\ up \in [0 .. n -> Tasks] /\ up[0] = t
    /\ \A i \in 1 .. n : up[i] = parent[up[i - 1]]

LEMMA PathExists ==
    ASSUME NEW parent \in [Tasks -> Tasks], NEW t \in Tasks, NEW n \in Nat
    PROVE  \E up : Path(parent, t, n, up)
<1> DEFINE S == {k \in Nat : ~\E up : Path(parent, t, k, up)}
<1> SUFFICES ASSUME S # {} PROVE FALSE
  OBVIOUS
<1>1. PICK k \in S : \A m \in S : k <= m
  BY LeastNatural
<1>2. k # 0
  <2>1. Path(parent, t, 0, [i \in 0 .. 0 |-> t])
    BY DEF Path
  <2> QED
    BY <1>1, <2>1
<1>3. k - 1 \in Nat /\ k - 1 \notin S
  BY <1>1, <1>2
<1>4. PICK up : Path(parent, t, k - 1, up)
  BY <1>3
<1> DEFINE longer == [i \in 0 .. k |-> IF i = k THEN parent[up[k - 1]] ELSE up[i]]
<1>5. up \in [0 .. k - 1 -> Tasks] /\ up[0] = t /\ \A i \in 1 .. k - 1 : up[i] = parent[up[i - 1]]
  BY <1>4 DEF Path
<1>6. longer \in [0 .. k -> Tasks] /\ longer[0] = t
  BY <1>2, <1>3, <1>5
<1>7. ASSUME NEW i \in 1 .. k
      PROVE  longer[i] = parent[longer[i - 1]]
  <2>1. i - 1 \in 0 .. k - 1 /\ longer[i - 1] = up[i - 1]
    BY <1>3
  <2>2. CASE i = k
    BY <2>1, <2>2
  <2>3. CASE i # k
    BY <1>5, <2>1, <2>3
  <2> QED
    BY <2>2, <2>3
<1>8. Path(parent, t, k, longer)
  BY <1>6, <1>7 DEF Path
<1> QED
  BY <1>1, <1>8

\* Branch, of any table of parents.
BranchOf(parent, t, n) ==
    LET up[i \in 0 .. n] == IF i = 0 THEN t ELSE parent[up[i - 1]]
    IN  {up[i] : i \in 1 .. n}

\* Branch is what it should be: the n tasks above t.
LEMMA BranchIsPath ==
    ASSUME NEW parent \in [Tasks -> Tasks], NEW t \in Tasks, NEW n \in Nat
    PROVE  \E up : Path(parent, t, n, up) /\ BranchOf(parent, t, n) = {up[i] : i \in 1 .. n}
<1> DEFINE Is(f) == f = [i \in 0 .. n |-> IF i = 0 THEN t ELSE parent[f[i - 1]]]
           up == CHOOSE f : Is(f)
<1>1. \E f : Is(f)
  <2>1. PICK f : Path(parent, t, n, f)
    BY PathExists
  <2>2. f \in [0 .. n -> Tasks] /\ f[0] = t /\ \A i \in 1 .. n : f[i] = parent[f[i - 1]]
    BY <2>1 DEF Path
  <2>3. Is(f)
    BY <2>2
  <2> QED
    BY <2>3
<1>2. Is(up)
  <2> HIDE DEF Is
  <2> QED
    BY <1>1
<1>3. BranchOf(parent, t, n) = {up[i] : i \in 1 .. n}
  BY DEF BranchOf
<1> HIDE DEF up
<1>4. DOMAIN up = 0 .. n /\ up[0] = t /\ \A i \in 1 .. n : up[i] = parent[up[i - 1]]
  BY <1>2
<1>5. \A i \in 0 .. n : up[i] \in Tasks
  <2> DEFINE S == {i \in 0 .. n : up[i] \notin Tasks}
  <2> SUFFICES ASSUME S # {} PROVE FALSE
    OBVIOUS
  <2>1. S \in SUBSET Nat
    OBVIOUS
  <2>2. PICK k \in S : \A m \in S : k <= m
    <3> HIDE DEF S
    <3> QED
      BY <2>1, LeastNatural
  <2>3. k # 0
    BY <1>4, <2>2
  <2>4. k - 1 \in 0 .. n /\ k - 1 \notin S /\ k \in 1 .. n
    BY <2>2, <2>3
  <2>5. up[k - 1] \in Tasks /\ up[k] = parent[up[k - 1]]
    BY <1>4, <2>4
  <2> QED
    BY <2>2, <2>5
<1>6. up \in [0 .. n -> Tasks]
  BY <1>2, <1>5
<1>7. Path(parent, t, n, up)
  BY <1>4, <1>6 DEF Path
<1> QED
  BY <1>3, <1>7

\* Two sequences that begin alike and go on alike are the same.
LEMMA SamePath ==
    ASSUME NEW n \in Nat, NEW f, NEW g, f[0] = g[0],
           \A i \in 1 .. n : f[i - 1] = g[i - 1] => f[i] = g[i]
    PROVE  \A i \in 0 .. n : f[i] = g[i]
<1> DEFINE S == {i \in 0 .. n : f[i] # g[i]}
<1> SUFFICES ASSUME S # {} PROVE FALSE
  OBVIOUS
<1>1. S \in SUBSET Nat
  OBVIOUS
<1>2. PICK k \in S : \A m \in S : k <= m
  <2> HIDE DEF S
  <2> QED
    BY <1>1, LeastNatural
<1>3. k # 0
  BY <1>2
<1>4. k - 1 \in 0 .. n /\ k - 1 \notin S /\ k \in 1 .. n
  BY <1>2, <1>3
<1> QED
  BY <1>2, <1>4

LEMMA BranchType ==
    ASSUME BanTypeOK, NEW t \in Tasks, NEW n \in Nat
    PROVE  Branch(t, n) \subseteq Tasks
<1>1. Branch(t, n) = BranchOf(real_parent, t, n) /\ real_parent \in [Tasks -> Tasks]
  BY DEF Branch, BranchOf, BanTypeOK
<1>2. PICK up : Path(real_parent, t, n, up) /\ BranchOf(real_parent, t, n) = {up[i] : i \in 1 .. n}
  BY <1>1, BranchIsPath
<1> QED
  BY <1>1, <1>2 DEF Path

\* The branch above t is the parent of t and the branch above that.
LEMMA BranchUp ==
    ASSUME NEW parent \in [Tasks -> Tasks], NEW t \in Tasks, NEW n \in Nat \ {0}
    PROVE  BranchOf(parent, t, n) = BranchOf(parent, parent[t], n - 1) \cup {parent[t]}
<1>1. parent[t] \in Tasks /\ n - 1 \in Nat
  OBVIOUS
<1>2. PICK up : Path(parent, t, n, up) /\ BranchOf(parent, t, n) = {up[i] : i \in 1 .. n}
  BY BranchIsPath
<1>3. PICK on : /\ Path(parent, parent[t], n - 1, on)
                /\ BranchOf(parent, parent[t], n - 1) = {on[i] : i \in 1 .. n - 1}
  BY <1>1, BranchIsPath
<1> DEFINE g == [i \in 0 .. n - 1 |-> up[i + 1]]
<1>4. on[0] = g[0]
  BY <1>2, <1>3 DEF Path
<1>5. ASSUME NEW i \in 1 .. n - 1, on[i - 1] = g[i - 1]
      PROVE  on[i] = g[i]
  BY <1>2, <1>3, <1>5 DEF Path
<1>6. \A i \in 0 .. n - 1 : on[i] = g[i]
  <2> HIDE DEF g
  <2> QED
    BY <1>1, <1>4, <1>5, SamePath
<1>7. \A i \in 0 .. n - 1 : on[i] = up[i + 1]
  BY <1>6
<1>8. up[1] = parent[t]
  BY <1>2 DEF Path
<1>9. {up[i] : i \in 1 .. n} \subseteq {on[i] : i \in 1 .. n - 1} \cup {parent[t]}
  <2> SUFFICES ASSUME NEW i \in 1 .. n, i # 1 PROVE up[i] \in {on[j] : j \in 1 .. n - 1}
    BY <1>8
  <2>1. i - 1 \in 1 .. n - 1 /\ up[i] = on[i - 1]
    BY <1>7
  <2> QED
    BY <2>1
<1>10. {on[i] : i \in 1 .. n - 1} \cup {parent[t]} \subseteq {up[i] : i \in 1 .. n}
  <2>1. \A i \in 1 .. n - 1 : i + 1 \in 1 .. n /\ on[i] = up[i + 1]
    BY <1>7
  <2>2. 1 \in 1 .. n
    OBVIOUS
  <2> QED
    BY <1>8, <2>1, <2>2
<1> QED
  BY <1>2, <1>3, <1>9, <1>10

\* Nothing is above the root but the root.
LEMMA BranchRoot ==
    ASSUME NEW parent \in [Tasks -> Tasks], NEW t \in Tasks, parent[t] = t, NEW n \in Nat
    PROVE  BranchOf(parent, t, n) \subseteq {t}
<1>1. PICK up : Path(parent, t, n, up) /\ BranchOf(parent, t, n) = {up[i] : i \in 1 .. n}
  BY BranchIsPath
<1> DEFINE g == [i \in 0 .. n |-> t]
<1>2. up[0] = g[0]
  BY <1>1 DEF Path
<1>3. ASSUME NEW i \in 1 .. n, up[i - 1] = g[i - 1]
      PROVE  up[i] = g[i]
  BY <1>1, <1>3 DEF Path
<1>4. \A i \in 0 .. n : up[i] = g[i]
  <2> HIDE DEF g
  <2>1. \A i \in 1 .. n : up[i - 1] = g[i - 1] => up[i] = g[i]
    BY <1>3
  <2> QED
    BY ONLY n \in Nat, <1>2, <2>1, SamePath
<1> QED
  BY <1>1, <1>4

LEMMA BranchNone ==
    ASSUME NEW parent \in [Tasks -> Tasks], NEW t \in Tasks
    PROVE  BranchOf(parent, t, 0) = {}
<1>1. PICK up : Path(parent, t, 0, up) /\ BranchOf(parent, t, 0) = {up[i] : i \in 1 .. 0}
  BY BranchIsPath
<1> QED
  BY <1>1

\* A table that agrees on a set of tasks closed under parent gives the same branches.
LEMMA BranchAgrees ==
    ASSUME NEW parent \in [Tasks -> Tasks], NEW other \in [Tasks -> Tasks], NEW S \in SUBSET Tasks,
           \A u \in S : parent[u] \in S /\ other[u] = parent[u], NEW t \in S, NEW n \in Nat
    PROVE  BranchOf(other, t, n) = BranchOf(parent, t, n)
<1>1. PICK up : Path(parent, t, n, up) /\ BranchOf(parent, t, n) = {up[i] : i \in 1 .. n}
  BY BranchIsPath
<1>2. PICK on : Path(other, t, n, on) /\ BranchOf(other, t, n) = {on[i] : i \in 1 .. n}
  BY BranchIsPath
<1>3. up[0] \in S /\ on[0] = up[0]
  BY <1>1, <1>2 DEF Path
<1>4. ASSUME NEW i \in 1 .. n, up[i - 1] \in S, on[i - 1] = up[i - 1]
      PROVE  up[i] \in S /\ on[i] = up[i]
  BY <1>1, <1>2, <1>4 DEF Path
<1>5. \A i \in 0 .. n : up[i] \in S /\ on[i] = up[i]
  <2> DEFINE Bad == {i \in 0 .. n : ~(up[i] \in S /\ on[i] = up[i])}
  <2> SUFFICES ASSUME Bad # {} PROVE FALSE
    OBVIOUS
  <2>1. Bad \in SUBSET Nat
    OBVIOUS
  <2>2. PICK k \in Bad : \A m \in Bad : k <= m
    <3> HIDE DEF Bad
    <3> QED
      BY <2>1, LeastNatural
  <2>3. k # 0
    BY <1>3, <2>2
  <2>4. k - 1 \in 0 .. n /\ k - 1 \notin Bad /\ k \in 1 .. n
    BY <2>2, <2>3
  <2> QED
    BY <1>4, <2>2, <2>4
<1> QED
  BY <1>1, <1>2, <1>5

\* c is the call that flip_ban_branch begins.
Flips(t, height, ban, c) ==
    /\ Enter(t, c) /\ c.pc = "load" /\ c.ban = ban /\ c.at = real_parent[t]
    /\ c.height = height /\ c.seen = {} /\ c.again = FALSE /\ c.count = 0
    /\ c.alone => InCall = {} /\ c.goal = Flipped(Branch(t, height), ban)

LEMMA FlipStart ==
    ASSUME BanTypeOK, NEW t \in Tasks, NEW height \in 1 .. MaxHeight, NEW ban \in Bans,
           sys_flip_ban_branch(t, height, ban)
    PROVE  \E c \in CallRecord : Flips(t, height, ban, c)
<1> DEFINE alone == InCall = {}
           goal == IF InCall = {} THEN Flipped(Branch(t, height), ban) ELSE {}
           c == FlipCall(t, height, ban, alone, goal)
<1>1. height \in Nat
  BY BanConstants
<1>2. goal \in SUBSET (Tasks \X Bans) /\ alone \in BOOLEAN
  BY <1>1, BranchType, GoalType
<1>3. alone => InCall = {} /\ goal = Flipped(Branch(t, height), ban)
  OBVIOUS
<1>4. Enter(t, c)
  BY DEF sys_flip_ban_branch, FlipCall
<1> HIDE DEF alone, goal
<1>5. /\ c \in CallRecord /\ c.pc = "load" /\ c.ban = ban /\ c.at = real_parent[t]
      /\ c.height = height /\ c.seen = {} /\ c.again = FALSE /\ c.count = 0
      /\ c.alone = alone /\ c.goal = goal
  <2>1. real_parent[t] \in Tasks
    BY DEF BanTypeOK
  <2> QED
    BY <1>1, <1>2, <2>1, BanConstants DEF FlipCall, NoCall, CallRecord, BanPcs
<1> HIDE DEF c
<1>6. c.alone => InCall = {} /\ c.goal = Flipped(Branch(t, height), ban)
  BY <1>3, <1>5
<1>7. Flips(t, height, ban, c)
  BY <1>4, <1>5, <1>6 DEF Flips
<1> QED
  BY <1>5, <1>7

-----------------------------------------------------------------------------
LEMMA TypeInit == BanInit => BanTypeOK
BY BanConstants, NoCallType DEF BanInit, BanTypeOK, Walking

LEMMA TypeNext ==
    ASSUME BanTypeOK, [BanNext]_banVars
    PROVE  BanTypeOK'
<1>1. CASE UNCHANGED banVars
  BY <1>1 DEF banVars, treeVars, BanTypeOK
<1>2. ASSUME call' = Disturb, banned_signals' \in [Tasks -> SUBSET Bans],
             real_parent' \in [Tasks -> Tasks], tgid' \in [Tasks -> Tasks], euid0' \in SUBSET Tasks,
             status' \in [Tasks -> {"live", "released", "free"}], grace' \in [Tasks -> SUBSET Tasks]
      PROVE  BanTypeOK'
  <2>1. \A t \in Tasks : call'[t].pc = call[t].pc /\ call'[t].ban = call[t].ban /\ call'[t].height = call[t].height
    BY <1>2, Disturbed
  <2> QED
    BY <1>2, <2>1, Disturbed DEF BanTypeOK
<1>3. ASSUME NEW p \in Tasks, NEW c \in Tasks, NEW thread \in BOOLEAN, Fork(p, c, thread)
      PROVE  BanTypeOK'
  <2>1. real_parent' \in [Tasks -> Tasks] /\ tgid' \in [Tasks -> Tasks]
    BY <1>3 DEF Fork, BanTypeOK
  <2>2. /\ banned_signals' \in [Tasks -> SUBSET Bans] /\ euid0' \in SUBSET Tasks
        /\ status' \in [Tasks -> {"live", "released", "free"}] /\ grace' \in [Tasks -> SUBSET Tasks]
        /\ call' = Disturb
    BY <1>3 DEF Fork, BanTypeOK
  <2> QED
    BY <1>2, <2>1, <2>2
<1>4. ASSUME NEW u \in Tasks, Exit(u)
      PROVE  BanTypeOK'
  <2>1. real_parent' \in [Tasks -> Tasks]
    <3>1. PICK heir \in IF OtherThreads(u) = {} THEN {Reaper} ELSE OtherThreads(u) :
            real_parent' = [c \in Tasks |-> IF real_parent[c] = u /\ status[c] = "live" THEN heir ELSE real_parent[c]]
      BY <1>4 DEF Exit
    <3>2. heir \in Tasks
      BY BanConstants DEF OtherThreads, Live
    <3> QED
      BY <3>1, <3>2 DEF BanTypeOK
  <2>2. /\ status' \in [Tasks -> {"live", "released", "free"}] /\ grace' \in [Tasks -> SUBSET Tasks]
        /\ call' = Disturb /\ UNCHANGED <<banned_signals, tgid, euid0>>
    BY <1>4 DEF Exit, BanTypeOK, InCall
  <2> QED
    BY <1>2, <2>1, <2>2 DEF BanTypeOK
<1>5. ASSUME NEW u \in Tasks, Free(u) \/ DropRoot(u)
      PROVE  BanTypeOK'
  BY <1>5, BanConstants DEF Free, DropRoot, BanTypeOK
<1>6. ASSUME NEW t \in Tasks, NEW bans \in SUBSET Bans, sys_set_ban(t, bans)
      PROVE  BanTypeOK'
  BY <1>6, SetCallType, EnterTypes DEF sys_set_ban, SetCall, Walking
<1>7. ASSUME NEW t \in Tasks, NEW other \in Tasks, NEW ban \in Bans, sys_check_ban(t, other, ban)
      PROVE  BanTypeOK'
  BY <1>7, CheckCallType, EnterTypes DEF sys_check_ban, CheckCall, Walking
<1>8. ASSUME NEW t \in Tasks, NEW height \in 1 .. MaxHeight, NEW ban \in Bans, sys_flip_ban_branch(t, height, ban)
      PROVE  BanTypeOK'
  <2>1. PICK c \in CallRecord : Flips(t, height, ban, c)
    BY <1>8, FlipStart
  <2>2. Enter(t, c) /\ c.ban \in Bans /\ c.height > 0
    BY <2>1, BanConstants DEF Flips
  <2> QED
    BY <2>2, EnterTypes
<1>9. ASSUME NEW t \in Tasks, Step(t)
      PROVE  BanTypeOK'
  <2>1. CASE Return(t)
    BY <2>1, ReturnTypes
  <2>2. /\ call[t].pc \in Walking \cup {"or"} => call[t].ban \in Bans
        /\ call[t].pc \in Walking => call[t].height > 0
        /\ banned_signals \in [Tasks -> SUBSET Bans]
    BY DEF BanTypeOK
  <2>3. CASE ClearBans(t) \/ (LoadOwn(t) /\ ~Return(t)) \/ OrBan(t)
    BY <2>3, OwnStep DEF BanTypeOK, Others, treeVars, Walking
  <2>4. CASE LoadBan(t)
    <3>1. /\ UNCHANGED <<banned_signals, treeVars>> /\ Others(t) /\ call' \in [Tasks -> CallRecord]
          /\ call[t].pc \in Walking /\ call'[t].ban = call[t].ban /\ call'[t].height = call[t].height
      BY <2>4, LoadBanStep DEF Walking, SameWalk
    <3> QED
      BY <2>2, <3>1, StepTypes
  <2>5. CASE FlipBan(t)
    <3>1. /\ UNCHANGED treeVars /\ banned_signals' \in [Tasks -> SUBSET Bans] /\ Others(t)
          /\ call' \in [Tasks -> CallRecord]
          /\ call[t].pc \in Walking /\ call'[t].ban = call[t].ban /\ call'[t].height = call[t].height
      BY <2>5, FlipBanStep DEF Walking
    <3> QED
      BY <2>2, <3>1, StepTypes
  <2>6. CASE MoveUp(t)
    BY <2>6, MoveUpStep DEF BanTypeOK, Others, treeVars, Walking, SameWalk
  <2> QED
    BY <1>9, <2>1, <2>3, <2>4, <2>5, <2>6 DEF Step, ReadOther, FlipReturns
<1> QED
  BY <1>1, <1>3, <1>4, <1>5, <1>6, <1>7, <1>8, <1>9 DEF BanNext, sys_kill, exit

-----------------------------------------------------------------------------
(* The tree, and the calls that walk up in it *)

\* The parent of every live task is live and, for some ranking, above it; the leader of
\* a thread group lives as long as its threads, which all have its rank, so that the
\* children one thread leaves to another stay below their parent.
Tree(rank) ==
    /\ status[Swapper] = "live" /\ status[Reaper] = "live" /\ real_parent[Swapper] = Swapper
    /\ rank[Swapper] = 0 /\ rank[Reaper] = 1
    /\ \A c \in Tasks : status[c] = "live" => status[real_parent[c]] = "live"
    /\ \A c \in Tasks \ {Swapper} : status[c] = "live" => rank[real_parent[c]] < rank[c]
    /\ \A c \in Tasks : status[c] = "live" =>
         status[tgid[c]] = "live" /\ tgid[tgid[c]] = tgid[c] /\ rank[tgid[c]] = rank[c]

\* The stale parent of a released task that calls may still stand at: it waits for those
\* calls as well.
Stale(rank) ==
    /\ \A c \in Tasks : grace[c] \subseteq InCall
    /\ \A c \in Tasks : status[c] = "released" /\ grace[c] # {} =>
         /\ status[real_parent[c]] # "free" /\ rank[real_parent[c]] < rank[c]
         /\ status[real_parent[c]] = "released" => grace[c] \subseteq grace[real_parent[c]]

\* The memory of u stays as long as the call of t lasts.
Holds(t, u) == status[u] = "live" \/ (status[u] = "released" /\ t \in grace[u])

\* A call has its hands only on memory that stays, and what it has written to is
\* above its caller and below where it stands.
WalkOK(t, c, rank) ==
    /\ ~c.again
    /\ c.pc = "idle" => c.seen = {}
    /\ c.pc # "idle" =>
         /\ status[t] = "live" /\ t # Swapper /\ Holds(t, c.at)
         /\ \A u \in c.seen : Holds(t, u) /\ rank[u] < rank[t]
         /\ c.pc \in Walking => rank[c.at] < rank[t]
         /\ c.pc \in {"load", "store"} => \A u \in c.seen : rank[c.at] < rank[u]
         /\ c.pc = "next" => \A u \in c.seen : rank[c.at] <= rank[u]

\* What the calls rely on, where they are not preempted.
Walks(rank) == Preemptible \/ (Stale(rank) /\ \A t \in Tasks : WalkOK(t, call[t], rank))

TreeOK == \E rank \in [Tasks -> Nat] : Tree(rank) /\ Walks(rank)

LEMMA TreeInit == BanInit => TreeOK
<1> SUFFICES ASSUME BanInit PROVE TreeOK
  OBVIOUS
<1> DEFINE rank == [t \in Tasks |-> IF t = Swapper THEN 0 ELSE 1]
<1>1. Tree(rank)
  BY BanConstants DEF BanInit, Tree
<1>2. Walks(rank)
  BY NoCallType DEF BanInit, Walks, WalkOK, Stale
<1> QED
  BY <1>1, <1>2 DEF TreeOK

\* Steps that leave the tree alone.
LEMMA StillTree ==
    ASSUME NEW rank, Tree(rank), UNCHANGED treeVars
    PROVE  Tree(rank)'
BY DEF treeVars, Tree

LEMMA StillWalks ==
    ASSUME NEW rank, UNCHANGED treeVars, Stale(rank), InCall \subseteq InCall',
           \A t \in Tasks : WalkOK(t, call'[t], rank)
    PROVE  Walks(rank)'
<1>1. Stale(rank)'
  BY DEF treeVars, Stale
<1> QED
  BY <1>1 DEF treeVars, Walks, WalkOK, Holds

LEMMA EnterWalks ==
    ASSUME BanTypeOK, NEW rank \in [Tasks -> Nat], Tree(rank), Walks(rank), NEW t \in Tasks, NEW c \in CallRecord,
           Enter(t, c), c.pc \in {"clear", "check", "load"}, c.seen = {}, c.again = FALSE,
           status[c.at] = "live", c.pc = "load" => c.at = real_parent[t]
    PROVE  Tree(rank)' /\ Walks(rank)'
<1>1. call' = [Disturb EXCEPT ![t] = c] /\ UNCHANGED treeVars /\ status[t] = "live" /\ t # Swapper
  BY DEF Enter
<1>2. call'[t] = c /\ \A u \in Tasks \ {t} : call'[u] = Disturb[u]
  BY <1>1, Disturbed
<1>3. rank[real_parent[t]] < rank[t]
  BY <1>1 DEF Tree
<1>4. WalkOK(t, c, rank)
  BY <1>1, <1>3 DEF WalkOK, Holds, Walking
<1>5. ASSUME NEW u \in Tasks, ~Preemptible
      PROVE  WalkOK(u, Disturb[u], rank)
  <2>1. WalkOK(u, call[u], rank)
    BY <1>5 DEF Walks
  <2> QED
    BY <2>1, Disturbed DEF WalkOK
<1>6. ASSUME ~Preemptible PROVE \A u \in Tasks : WalkOK(u, call'[u], rank)
  BY <1>2, <1>4, <1>5, <1>6
<1>7. InCall \subseteq InCall'
  BY <1>2, Disturbed DEF InCall
<1>8. CASE Preemptible
  BY <1>1, <1>8, StillTree DEF Walks
<1>9. CASE ~Preemptible
  BY <1>1, <1>6, <1>7, <1>9, StillTree, StillWalks DEF Walks
<1> QED
  BY <1>8, <1>9

\* A step of a call that does not return.
LEMMA StepWalks ==
    ASSUME BanTypeOK, NEW rank \in [Tasks -> Nat], Tree(rank), Walks(rank), NEW t \in Tasks, Step(t), ~Return(t)
    PROVE  Tree(rank)' /\ Walks(rank)'
<1>0. UNCHANGED treeVars
  BY DEF Step, ReadOther, FlipReturns, ClearBans, LoadOwn, OrBan, LoadBan, FlipBan, MoveUp
<1> SUFFICES ASSUME ~Preemptible PROVE Tree(rank)' /\ Walks(rank)'
  BY <1>0, StillTree DEF Walks
<1> DEFINE c == call[t]
<1>1. WalkOK(t, c, rank) /\ c \in CallRecord /\ c.at \in Tasks /\ c.seen \in SUBSET Tasks
  BY DEF Walks, BanTypeOK, CallRecord
<1>2. ASSUME UNCHANGED treeVars, Others(t), WalkOK(t, call'[t], rank), call'[t].pc # "idle"
      PROVE  Tree(rank)' /\ Walks(rank)'
  <2>1. \A u \in Tasks : WalkOK(u, call'[u], rank)
    BY <1>2 DEF Others, Walks
  <2>2. InCall \subseteq InCall'
    BY <1>2 DEF Others, InCall
  <2> QED
    BY <1>2, <2>1, <2>2, StillTree, StillWalks DEF Walks
<1>3. CASE ClearBans(t) \/ (LoadOwn(t) /\ ~Return(t)) \/ OrBan(t)
  <2>1. /\ c.pc \in {"clear", "add", "or"} /\ call'[t].pc \in {"add", "or"}
        /\ UNCHANGED treeVars /\ Others(t)
        /\ call'[t].at = c.at /\ call'[t].seen = c.seen /\ call'[t].again = c.again
    BY <1>3, OwnStep
  <2>2. WalkOK(t, call'[t], rank)
    BY <1>1, <2>1 DEF WalkOK, Walking
  <2> QED
    BY <1>2, <2>1, <2>2
<1>4. CASE LoadBan(t)
  <2>1. /\ c.pc = "load" /\ call'[t].pc = "store" /\ UNCHANGED treeVars /\ Others(t)
        /\ call'[t].at = c.at /\ call'[t].seen = c.seen /\ call'[t].again = c.again
    BY <1>4, LoadBanStep DEF SameWalk
  <2>2. WalkOK(t, call'[t], rank)
    BY <1>1, <2>1 DEF WalkOK, Walking
  <2> QED
    BY <1>2, <2>1, <2>2
<1>5. CASE FlipBan(t)
  <2>1. /\ c.pc = "store" /\ call'[t].pc = "next" /\ UNCHANGED treeVars /\ Others(t)
        /\ call'[t].at = c.at /\ call'[t].seen = c.seen \cup {c.at}
        /\ call'[t].again => c.again \/ c.at \in c.seen
    BY <1>5, FlipBanStep
  <2>2. c.at \notin c.seen
    BY <1>1, <2>1 DEF WalkOK
  <2>3. WalkOK(t, call'[t], rank)
    BY <1>1, <2>1, <2>2 DEF WalkOK, Walking
  <2> QED
    BY <1>2, <2>1, <2>3
<1>6. CASE MoveUp(t)
  <2>1. /\ c.pc = "next" /\ UNCHANGED treeVars /\ Others(t)
        /\ call'[t].seen = c.seen /\ call'[t].again = c.again
        /\ \/ call'[t].pc = "done" /\ call'[t].at = c.at
           \/ call'[t].pc = "load" /\ call'[t].at = real_parent[c.at] /\ c.at # real_parent[c.at]
    BY <1>6, MoveUpStep DEF SameWalk
  <2>2. CASE call'[t].pc = "done" /\ call'[t].at = c.at
    <3>1. WalkOK(t, call'[t], rank)
      BY <1>1, <2>1, <2>2 DEF WalkOK, Walking
    <3> QED
      BY <1>2, <2>1, <3>1
  <2>3. CASE call'[t].pc = "load" /\ call'[t].at = real_parent[c.at] /\ c.at # real_parent[c.at]
    <3>1. c.at # Swapper
      BY <2>3 DEF Tree
    <3>2. Holds(t, c.at)
      BY <1>1, <2>1 DEF WalkOK
    <3>3. rank[real_parent[c.at]] < rank[c.at] /\ Holds(t, real_parent[c.at])
      <4>1. CASE status[c.at] = "live"
        BY <1>1, <3>1, <4>1 DEF Tree, Holds
      <4>2. CASE status[c.at] = "released" /\ t \in grace[c.at]
        <5>1. Stale(rank) /\ real_parent[c.at] \in Tasks
          BY <1>1 DEF Walks, BanTypeOK
        <5>2. /\ status[real_parent[c.at]] # "free" /\ rank[real_parent[c.at]] < rank[c.at]
              /\ status[real_parent[c.at]] = "released" => grace[c.at] \subseteq grace[real_parent[c.at]]
          BY <1>1, <4>2, <5>1 DEF Stale
        <5>3. status[real_parent[c.at]] \in {"live", "released", "free"}
          BY <5>1 DEF BanTypeOK
        <5> QED
          BY <4>2, <5>2, <5>3 DEF Holds
      <4> QED
        BY <3>2, <4>1, <4>2 DEF Holds
    <3>4. /\ rank[c.at] \in Nat /\ rank[real_parent[c.at]] \in Nat /\ rank[t] \in Nat
          /\ \A u \in c.seen : rank[u] \in Nat
      BY <1>1 DEF BanTypeOK
    <3>5. /\ rank[real_parent[c.at]] < rank[t]
          /\ \A u \in c.seen : rank[real_parent[c.at]] < rank[u]
      BY <1>1, <2>1, <3>3, <3>4 DEF WalkOK, Walking
    <3>6. WalkOK(t, call'[t], rank)
      BY <1>1, <2>1, <2>3, <3>3, <3>5 DEF WalkOK, Walking
    <3> QED
      BY <1>2, <2>1, <3>6
  <2> QED
    BY <2>1, <2>2, <2>3
<1> QED
  BY <1>3, <1>4, <1>5, <1>6 DEF Step, ReadOther, FlipReturns

LEMMA ReturnWalks ==
    ASSUME BanTypeOK, NEW rank \in [Tasks -> Nat], Tree(rank), Walks(rank), NEW t \in Tasks, Return(t)
    PROVE  Tree(rank)' /\ Walks(rank)'
<1>1. /\ call'[t] = NoCall /\ \A u \in Tasks \ {t} : call'[u] = call[u]
      /\ \A u \in Tasks : grace'[u] = grace[u] \ {t}
      /\ UNCHANGED <<real_parent, tgid, status>>
  BY DEF Return, BanTypeOK
<1>2. Tree(rank)'
  BY <1>1 DEF Tree
<1> SUFFICES ASSUME ~Preemptible PROVE Walks(rank)'
  BY <1>2 DEF Walks
<1>3. ASSUME NEW u \in Tasks
      PROVE  WalkOK(u, call[u], rank)' \/ u = t
  <2>1. CASE u # t
    <3>1. WalkOK(u, call[u], rank) /\ call'[u] = call[u]
      BY <1>1, <2>1 DEF Walks
    <3>2. call[u].at \in Tasks /\ call[u].seen \in SUBSET Tasks
      BY DEF BanTypeOK, CallRecord
    <3>3. \A v \in Tasks : Holds(u, v) => Holds(u, v)'
      BY <1>1, <2>1 DEF Holds
    <3> QED
      BY <1>1, <3>1, <3>2, <3>3 DEF WalkOK
  <2> QED
    BY <2>1
<1>4. WalkOK(t, call[t], rank)'
  BY <1>1, NoCallType DEF WalkOK
<1>5. Stale(rank)'
  <2>1. \A u \in Tasks : real_parent[u] \in Tasks
    BY DEF BanTypeOK
  <2>2. InCall \ {t} \subseteq InCall'
    BY <1>1 DEF InCall
  <2> QED
    BY <1>1, <2>1, <2>2 DEF Walks, Stale
<1> QED
  BY <1>3, <1>4, <1>5 DEF Walks

\* A call keeps its walk when the memory it holds, and the ranks of it, stay.
LEMMA KeepsWalk ==
    ASSUME BanTypeOK, NEW rank, NEW new, Walks(rank), Preemptible \/ Stale(new)',
           \A t \in Tasks : call[t].pc # "idle" => status'[t] = status[t],
           \A t, u \in Tasks : call[t].pc # "idle" /\ Holds(t, u) => Holds(t, u)',
           \A t \in Tasks : status[t] # "free" => new[t] = rank[t],
           \A t \in Tasks : /\ call'[t].pc = call[t].pc /\ call'[t].at = call[t].at
                            /\ call'[t].seen = call[t].seen /\ call'[t].again = call[t].again
    PROVE  Walks(new)'
<1> SUFFICES ASSUME ~Preemptible, NEW t \in Tasks PROVE WalkOK(t, call[t], new)'
  BY DEF Walks
<1>1. WalkOK(t, call[t], rank) /\ call[t].at \in Tasks /\ call[t].seen \in SUBSET Tasks
  BY DEF Walks, BanTypeOK, CallRecord
<1>2. CASE call[t].pc = "idle"
  BY <1>1, <1>2 DEF WalkOK, Walking
<1>3. CASE call[t].pc # "idle"
  <2>1. status[t] = "live" /\ new[t] = rank[t]
    BY <1>1, <1>3 DEF WalkOK
  <2>2. new[call[t].at] = rank[call[t].at] /\ Holds(t, call[t].at)'
    BY <1>1, <1>3 DEF WalkOK, Holds
  <2>3. \A u \in call[t].seen : new[u] = rank[u] /\ Holds(t, u)'
    BY <1>1, <1>3 DEF WalkOK, Holds
  <2>4. status'[t] = "live"
    BY <1>3, <2>1
  <2> HIDE DEF Holds
  <2> QED
    BY <1>1, <1>3, <2>1, <2>2, <2>3, <2>4 DEF WalkOK
<1> QED
  BY <1>2, <1>3

LEMMA ForkWalks ==
    ASSUME BanTypeOK, NEW rank \in [Tasks -> Nat], Tree(rank), Walks(rank),
           NEW p \in Tasks, NEW c \in Tasks, NEW thread \in BOOLEAN, Fork(p, c, thread)
    PROVE  TreeOK'
<1> DEFINE new == [rank EXCEPT ![c] = IF thread THEN rank[p] ELSE rank[p] + 1]
<1>1. /\ status[p] = "live" /\ p # Swapper /\ status[c] = "free" /\ grace' = grace
      /\ status'[c] = "live" /\ \A u \in Tasks \ {c} : status'[u] = status[u]
      /\ real_parent'[c] = (IF thread THEN real_parent[p] ELSE p)
      /\ \A u \in Tasks \ {c} : real_parent'[u] = real_parent[u] /\ tgid'[u] = tgid[u]
      /\ tgid'[c] = (IF thread THEN tgid[p] ELSE c)
  BY DEF Fork, BanTypeOK
<1>2. new \in [Tasks -> Nat] /\ \A u \in Tasks \ {c} : new[u] = rank[u]
  OBVIOUS
<1>3. new[c] = (IF thread THEN rank[p] ELSE rank[p] + 1)
  OBVIOUS
<1> HIDE DEF new
<1>4. /\ c \notin {Swapper, Reaper, p, real_parent[p], tgid[p]}
      /\ \A u \in Tasks : status[u] = "live" => real_parent[u] # c
  BY <1>1, BanConstants DEF Tree
<1>5. \A u \in Tasks : status[u] = "live" => tgid[u] # c /\ tgid[u] \in Tasks
  BY <1>1 DEF Tree, BanTypeOK
<1>6. real_parent[p] \in Tasks /\ tgid[p] \in Tasks /\ \A u \in Tasks : real_parent[u] \in Tasks
  BY DEF BanTypeOK
<1>7. Tree(new)'
  <2>1. /\ status'[Swapper] = "live" /\ status'[Reaper] = "live" /\ real_parent'[Swapper] = Swapper
        /\ new[Swapper] = 0 /\ new[Reaper] = 1
    BY <1>1, <1>2, <1>4, BanConstants DEF Tree
  <2>2. ASSUME NEW u \in Tasks
        PROVE  /\ status'[u] = "live" => status'[real_parent'[u]] = "live"
               /\ u # Swapper /\ status'[u] = "live" => new[real_parent'[u]] < new[u]
    <3>1. CASE u # c
      BY <1>1, <1>2, <1>4, <1>6, <3>1 DEF Tree
    <3>2. CASE u = c /\ thread
      BY <1>1, <1>2, <1>3, <1>4, <1>6, <3>2 DEF Tree
    <3>3. CASE u = c /\ ~thread
      BY <1>1, <1>2, <1>3, <1>4, <3>3 DEF Tree
    <3> QED
      BY <3>1, <3>2, <3>3
  <2>3. ASSUME NEW u \in Tasks, status'[u] = "live"
        PROVE  status'[tgid'[u]] = "live" /\ tgid'[tgid'[u]] = tgid'[u] /\ new[tgid'[u]] = new[u]
    <3>1. CASE u # c
      BY <1>1, <1>2, <1>5, <2>3, <3>1 DEF Tree
    <3>2. CASE u = c /\ thread
      BY <1>1, <1>2, <1>3, <1>4, <1>6, <3>2 DEF Tree
    <3>3. CASE u = c /\ ~thread
      BY <1>1, <1>2, <1>3, <3>3
    <3> QED
      BY <3>1, <3>2, <3>3
  <2> QED
    BY <2>1, <2>2, <2>3 DEF Tree
<1>8. call' = Disturb
  BY DEF Fork
<1>9. Walks(new)'
  <2> SUFFICES ASSUME ~Preemptible PROVE Walks(new)'
    BY DEF Walks
  <2>1. \A t \in Tasks : call[t].pc # "idle" => status[t] = "live"
    BY DEF Walks, WalkOK
  <2>2. \A t \in Tasks : call[t].pc # "idle" => status'[t] = status[t]
    BY <1>1, <2>1
  <2>3. \A t, u \in Tasks : Holds(t, u) => Holds(t, u)'
    BY <1>1 DEF Holds
  <2>4. \A t \in Tasks : status[t] # "free" => new[t] = rank[t]
    BY <1>1, <1>2
  <2>5. \A t \in Tasks : /\ call'[t].pc = call[t].pc /\ call'[t].at = call[t].at
                         /\ call'[t].seen = call[t].seen /\ call'[t].again = call[t].again
    BY <1>8, Disturbed
  <2>6. Stale(new)'
    <3>1. InCall' = InCall
      BY <2>5 DEF InCall
    <3>2. Stale(rank)
      BY DEF Walks
    <3> QED
      BY <1>1, <1>2, <1>6, <3>1, <3>2 DEF Stale
  <2> QED
    BY <2>2, <2>3, <2>4, <2>5, <2>6, KeepsWalk
<1> QED
  BY <1>2, <1>7, <1>9 DEF TreeOK

LEMMA ExitWalks ==
    ASSUME BanTypeOK, NEW rank \in [Tasks -> Nat], Tree(rank), Walks(rank), NEW u \in Tasks, exit(u)
    PROVE  Tree(rank)' /\ Walks(rank)'
<1>1. PICK heir \in IF OtherThreads(u) = {} THEN {Reaper} ELSE OtherThreads(u) :
        real_parent' = [c \in Tasks |-> IF real_parent[c] = u /\ status[c] = "live"
                                           THEN heir ELSE real_parent[c]]
  BY DEF exit, Exit
<1>2. /\ call[u].pc = "idle" /\ status[u] = "live" /\ u \notin {Swapper, Reaper}
      /\ tgid[u] = u => OtherThreads(u) = {}
      /\ status'[u] = "released" /\ \A v \in Tasks \ {u} : status'[v] = status[v]
      /\ grace'[u] = (IF Preemptible THEN {} ELSE InCall) /\ \A v \in Tasks \ {u} : grace'[v] = grace[v]
      /\ tgid' = tgid /\ call' = Disturb
  BY DEF exit, Exit, BanTypeOK
<1>3. /\ \A v \in Tasks : rank[v] \in Nat /\ real_parent[v] \in Tasks /\ tgid[v] \in Tasks
  BY DEF BanTypeOK
<1>4. heir \in Tasks \ {u} /\ status[heir] = "live" /\ rank[heir] <= rank[u]
  <2>1. CASE OtherThreads(u) = {}
    <3>1. heir = Reaper
      BY <2>1
    <3>2. rank[real_parent[u]] < rank[u] /\ rank[Reaper] = 1 /\ status[Reaper] = "live"
      BY <1>2 DEF Tree
    <3> QED
      BY <1>2, <1>3, <3>1, <3>2, BanConstants
  <2>2. CASE OtherThreads(u) # {}
    <3>1. heir \in Tasks \ {u} /\ status[heir] = "live" /\ tgid[heir] = tgid[u]
      BY <2>2 DEF OtherThreads, Live
    <3> QED
      BY <1>2, <1>3, <3>1 DEF Tree
  <2> QED
    BY <2>1, <2>2
<1>5. \A v \in Tasks : status[v] = "live" /\ v # u => tgid[v] # u
  <2> SUFFICES ASSUME NEW v \in Tasks, status[v] = "live", v # u, tgid[v] = u PROVE FALSE
    OBVIOUS
  <2>1. tgid[u] = u
    BY DEF Tree
  <2>2. v \in OtherThreads(u)
    BY <2>1 DEF OtherThreads, Live
  <2> QED
    BY <1>2, <2>1, <2>2
<1>6. \A c \in Tasks : real_parent'[c] = IF real_parent[c] = u /\ status[c] = "live" THEN heir ELSE real_parent[c]
  BY <1>1
<1>7. Tree(rank)'
  <2>1. /\ status'[Swapper] = "live" /\ status'[Reaper] = "live" /\ real_parent'[Swapper] = Swapper
        /\ rank[Swapper] = 0 /\ rank[Reaper] = 1
    BY <1>2, <1>6, BanConstants DEF Tree
  <2>2. ASSUME NEW c \in Tasks
        PROVE  /\ status'[c] = "live" => status'[real_parent'[c]] = "live"
               /\ c # Swapper /\ status'[c] = "live" => rank[real_parent'[c]] < rank[c]
    <3> SUFFICES ASSUME status'[c] = "live"
                 PROVE  status'[real_parent'[c]] = "live" /\ (c # Swapper => rank[real_parent'[c]] < rank[c])
      OBVIOUS
    <3>1. status[c] = "live"
      BY <1>2
    <3>2. CASE real_parent[c] = u
      <4>1. real_parent'[c] = heir /\ status'[heir] = "live"
        BY <1>2, <1>4, <1>6, <3>1, <3>2
      <4>2. c # Swapper => rank[u] < rank[c]
        BY <3>1, <3>2 DEF Tree
      <4> QED
        BY <1>3, <1>4, <4>1, <4>2
    <3>3. CASE real_parent[c] # u
      <4>1. real_parent'[c] = real_parent[c]
        BY <1>6, <3>3
      <4> QED
        BY <1>2, <1>3, <3>1, <3>3, <4>1 DEF Tree
    <3> QED
      BY <3>2, <3>3
  <2>3. ASSUME NEW c \in Tasks, status'[c] = "live"
        PROVE  status'[tgid'[c]] = "live" /\ tgid'[tgid'[c]] = tgid'[c] /\ rank[tgid'[c]] = rank[c]
    <3>1. c # u /\ status[c] = "live" /\ tgid[c] # u
      BY <1>2, <1>5, <2>3
    <3> QED
      BY <1>2, <1>3, <3>1 DEF Tree
  <2> QED
    BY <2>1, <2>2, <2>3 DEF Tree
<1>8. Walks(rank)'
  <2> SUFFICES ASSUME ~Preemptible PROVE Walks(rank)'
    BY DEF Walks
  <2>1. \A t \in Tasks : call[t].pc # "idle" => status'[t] = status[t]
    BY <1>2
  <2>2. \A t, v \in Tasks : call[t].pc # "idle" /\ Holds(t, v) => Holds(t, v)'
    BY <1>2 DEF Holds, InCall
  <2>3. \A t \in Tasks : /\ call'[t].pc = call[t].pc /\ call'[t].at = call[t].at
                         /\ call'[t].seen = call[t].seen /\ call'[t].again = call[t].again
    BY <1>2, Disturbed
  <2>4. Stale(rank)'
    <3>1. InCall' = InCall /\ grace'[u] = InCall
      BY <1>2, <2>3 DEF InCall
    <3>2. Stale(rank)
      BY DEF Walks
    <3>3. \A c \in Tasks : grace'[c] \subseteq InCall'
      BY <1>2, <3>1, <3>2 DEF Stale
    <3>4. /\ real_parent'[u] = real_parent[u] /\ real_parent[u] # u /\ rank[real_parent[u]] < rank[u]
          /\ status'[real_parent[u]] = "live"
      <4>1. rank[real_parent[u]] < rank[u] /\ status[real_parent[u]] = "live"
        BY <1>2 DEF Tree
      <4>2. real_parent[u] # u
        BY <1>3, <4>1
      <4> QED
        BY <1>2, <1>3, <1>6, <4>1, <4>2
    <3>5. ASSUME NEW c \in Tasks, status'[c] = "released", grace'[c] # {}
          PROVE  /\ status'[real_parent'[c]] # "free" /\ rank[real_parent'[c]] < rank[c]
                 /\ status'[real_parent'[c]] = "released" => grace'[c] \subseteq grace'[real_parent'[c]]
      <4>1. CASE c = u
        BY <3>4, <4>1
      <4>2. CASE c # u
        <5>1. status[c] = "released" /\ grace'[c] = grace[c] /\ real_parent'[c] = real_parent[c]
          BY <1>2, <1>6, <3>5, <4>2
        <5>2. /\ status[real_parent[c]] # "free" /\ rank[real_parent[c]] < rank[c]
              /\ status[real_parent[c]] = "released" => grace[c] \subseteq grace[real_parent[c]]
          BY <3>2, <3>5, <5>1 DEF Stale
        <5>3. CASE real_parent[c] = u
          BY <1>2, <3>1, <3>3, <5>1, <5>2, <5>3
        <5>4. CASE real_parent[c] # u
          BY <1>2, <1>3, <5>1, <5>2, <5>4
        <5> QED
          BY <5>3, <5>4
      <4> QED
        BY <4>1, <4>2
    <3> QED
      BY <3>3, <3>5 DEF Stale
  <2> QED
    BY <2>1, <2>2, <2>3, <2>4, KeepsWalk
<1> QED
  BY <1>7, <1>8

LEMMA FreeWalks ==
    ASSUME BanTypeOK, NEW rank \in [Tasks -> Nat], Tree(rank), Walks(rank), NEW u \in Tasks, Free(u)
    PROVE  Tree(rank)' /\ Walks(rank)'
<1>1. /\ status[u] = "released" /\ grace[u] = {} /\ call' = call
      /\ status'[u] = "free" /\ grace'[u] = {} /\ real_parent'[u] = Swapper
      /\ \A v \in Tasks \ {u} : /\ status'[v] = status[v] /\ grace'[v] = grace[v]
                                /\ real_parent'[v] = real_parent[v] /\ tgid'[v] = tgid[v]
  BY DEF Free, BanTypeOK
<1>2. \A v \in Tasks : real_parent[v] \in Tasks /\ tgid[v] \in Tasks
  BY DEF BanTypeOK
<1>3. Tree(rank)'
  <2>1. /\ status'[Swapper] = "live" /\ status'[Reaper] = "live" /\ real_parent'[Swapper] = Swapper
        /\ rank[Swapper] = 0 /\ rank[Reaper] = 1
    BY <1>1, BanConstants DEF Tree
  <2>2. ASSUME NEW c \in Tasks
        PROVE  /\ status'[c] = "live" => status'[real_parent'[c]] = "live"
               /\ c # Swapper /\ status'[c] = "live" => rank[real_parent'[c]] < rank[c]
    BY <1>1, <1>2, <2>1 DEF Tree
  <2>3. ASSUME NEW c \in Tasks, status'[c] = "live"
        PROVE  status'[tgid'[c]] = "live" /\ tgid'[tgid'[c]] = tgid'[c] /\ rank[tgid'[c]] = rank[c]
    BY <1>1, <1>2, <2>3 DEF Tree
  <2> QED
    BY <2>1, <2>2, <2>3 DEF Tree
<1>4. Walks(rank)'
  <2> SUFFICES ASSUME ~Preemptible PROVE Walks(rank)'
    BY DEF Walks
  <2>1. \A t \in Tasks : call[t].pc # "idle" => status'[t] = status[t]
    BY <1>1 DEF Walks, WalkOK
  <2>2. \A t, v \in Tasks : Holds(t, v) => Holds(t, v)'
    BY <1>1 DEF Holds
  <2>3. Stale(rank)'
    <3>1. InCall' = InCall /\ Stale(rank)
      BY <1>1 DEF InCall, Walks
    <3>2. ASSUME NEW c \in Tasks, status[c] = "released", grace[c] # {}
          PROVE  real_parent[c] # u
      BY <1>1, <3>1, <3>2 DEF Stale
    <3> QED
      BY <1>1, <1>2, <3>1, <3>2 DEF Stale
  <2> QED
    BY <1>1, <2>1, <2>2, <2>3, KeepsWalk
<1> QED
  BY <1>3, <1>4

\* Every step keeps the tree, and every walk in it.
LEMMA TreeNext ==
    ASSUME BanTypeOK, TreeOK, [BanNext]_banVars
    PROVE  TreeOK'
<1> PICK rank \in [Tasks -> Nat] : Tree(rank) /\ Walks(rank)
  BY DEF TreeOK
<1>1. ASSUME Tree(rank)', Walks(rank)'
      PROVE  TreeOK'
  BY <1>1 DEF TreeOK
<1>2. CASE UNCHANGED banVars
  <2>1. Tree(rank)' /\ Walks(rank)'
    BY <1>2 DEF banVars, treeVars, Tree, Walks, WalkOK, Holds, Stale, InCall
  <2> QED
    BY <1>1, <2>1
<1>3. ASSUME NEW p \in Tasks, NEW c \in Tasks, NEW thread \in BOOLEAN, Fork(p, c, thread)
      PROVE  TreeOK'
  BY <1>3, ForkWalks
<1>4. ASSUME NEW u \in Tasks, exit(u)
      PROVE  TreeOK'
  BY <1>1, <1>4, ExitWalks
<1>5. ASSUME NEW u \in Tasks, Free(u)
      PROVE  TreeOK'
  BY <1>1, <1>5, FreeWalks
<1>6. ASSUME NEW u \in Tasks, DropRoot(u)
      PROVE  TreeOK'
  <2>1. Tree(rank)' /\ Walks(rank)'
    BY <1>6 DEF DropRoot, Tree, Walks, WalkOK, Holds, Stale, InCall
  <2> QED
    BY <1>1, <2>1
<1>7. ASSUME NEW t \in Tasks, NEW bans \in SUBSET Bans, sys_set_ban(t, bans)
      PROVE  TreeOK'
  <2>1. Enter(t, SetCall(t, bans)) /\ status[t] = "live"
    BY <1>7 DEF sys_set_ban, SetCall, Enter
  <2>2. /\ SetCall(t, bans) \in CallRecord /\ SetCall(t, bans).pc = "clear" /\ SetCall(t, bans).at = t
        /\ SetCall(t, bans).seen = {} /\ SetCall(t, bans).again = FALSE
    BY SetCallType
  <2>3. Tree(rank)' /\ Walks(rank)'
    BY <2>1, <2>2, EnterWalks
  <2> QED
    BY <1>1, <2>3
<1>8. ASSUME NEW t \in Tasks, NEW other \in Tasks, NEW ban \in Bans, sys_check_ban(t, other, ban)
      PROVE  TreeOK'
  <2>1. Enter(t, CheckCall(other, ban)) /\ status[other] = "live"
    BY <1>8 DEF sys_check_ban, CheckCall
  <2>2. /\ CheckCall(other, ban) \in CallRecord /\ CheckCall(other, ban).pc = "check"
        /\ CheckCall(other, ban).at = other /\ CheckCall(other, ban).seen = {}
        /\ CheckCall(other, ban).again = FALSE
    BY CheckCallType
  <2>3. Tree(rank)' /\ Walks(rank)'
    BY <2>1, <2>2, EnterWalks
  <2> QED
    BY <1>1, <2>3
<1>9. ASSUME NEW t \in Tasks, NEW height \in 1 .. MaxHeight, NEW ban \in Bans, sys_flip_ban_branch(t, height, ban)
      PROVE  TreeOK'
  <2>1. PICK c \in CallRecord : Flips(t, height, ban, c)
    BY <1>9, FlipStart
  <2>2. status[real_parent[t]] = "live"
    BY <2>1 DEF Tree, Flips, Enter
  <2> QED
    BY <1>1, <2>1, <2>2, EnterWalks DEF Flips
<1>10. ASSUME NEW t \in Tasks, Step(t)
       PROVE  TreeOK'
  BY <1>1, <1>10, StepWalks, ReturnWalks
<1> QED
  BY <1>2, <1>3, <1>4, <1>5, <1>6, <1>7, <1>8, <1>9, <1>10 DEF BanNext, sys_kill

\* The state is well formed, the live tasks are a tree, and, in a kernel that does not
\* preempt system calls, every call holds the memory that it uses.
THEOREM BanCorrect ==
    ASSUME ~Preemptible
    PROVE  BanSpec => [](BanTypeOK /\ TreeOK)
<1>1. BanTypeOK /\ TreeOK /\ [BanNext]_banVars => (BanTypeOK /\ TreeOK)'
  BY TypeNext, TreeNext
<1> QED
  BY TypeInit, TreeInit, <1>1, PTL DEF BanSpec

\* In a kernel that does not preempt system calls, no call of hw2.c uses a task_struct
\* that was freed: also a parent that was stale when the call read it waits for the call.
THEOREM FollowsLiveTasksHolds ==
    ASSUME ~Preemptible
    PROVE  BanSpec => []FollowsLiveTasks
<1>1. BanTypeOK /\ TreeOK => FollowsLiveTasks
  BY DEF TreeOK, Walks, WalkOK, Holds, FollowsLiveTasks
<1> QED
  BY BanCorrect, <1>1, PTL
-----------------------------------------------------------------------------
(* The flip of a branch *)

\* The ancestors that the call has still to write to.
Rest(c) ==
    IF c.pc \in {"load", "store"} THEN BranchOf(real_parent, c.at, c.height - 1) \cup {c.at}
    ELSE IF c.pc = "next" THEN BranchOf(real_parent, c.at, c.height - 1) \ {c.at}
    ELSE {}

\* What is left to do makes the bans what they should become.
Towards(c) ==
    \A u \in Live, b \in Bans :
      <<u, b>> \in c.goal <=> ~(b \in banned_signals[u] <=> (b = c.ban /\ u \in Rest(c)))

Banned(c) == {u \in c.seen : c.ban \in banned_signals[u]}

\* A flip that nothing has interrupted.
AloneOK(t, c) ==
    c.alone =>
      /\ c.pc \in Walking \cup {"done"} /\ \A u \in Tasks \ {t} : call[u].pc = "idle"
      /\ c.pc # "done" => status[c.at] = "live"
      /\ c.pc = "store" => c.reg = banned_signals[c.at]
      /\ Towards(c)
      /\ IsFiniteSet(c.seen) /\ c.count = Cardinality(Banned(c))

Alone == \A t \in Tasks : AloneOK(t, call[t])

\* No task is above itself but the root.
LEMMA NotAbove ==
    ASSUME BanTypeOK, NEW rank \in [Tasks -> Nat], Tree(rank), NEW t \in Tasks, status[t] = "live",
           t # real_parent[t], NEW n \in Nat
    PROVE  t \notin BranchOf(real_parent, t, n)
<1>1. real_parent \in [Tasks -> Tasks]
  BY DEF BanTypeOK
<1>2. PICK up : Path(real_parent, t, n, up) /\ BranchOf(real_parent, t, n) = {up[i] : i \in 1 .. n}
  BY <1>1, BranchIsPath
<1>3. /\ up \in [0 .. n -> Tasks] /\ up[0] = t /\ \A i \in 1 .. n : up[i] = real_parent[up[i - 1]]
  BY <1>2 DEF Path
<1>4. \A i \in 0 .. n : status[up[i]] = "live"
  <2> DEFINE Bad == {i \in 0 .. n : status[up[i]] # "live"}
  <2> SUFFICES ASSUME Bad # {} PROVE FALSE
    OBVIOUS
  <2>1. Bad \in SUBSET Nat
    OBVIOUS
  <2>2. PICK k \in Bad : \A m \in Bad : k <= m
    <3> HIDE DEF Bad
    <3> QED
      BY <2>1, LeastNatural
  <2>3. k # 0
    BY <1>3, <2>2
  <2>4. k \in 1 .. n /\ k - 1 \in 0 .. n /\ k - 1 \notin Bad
    BY <2>2, <2>3
  <2>5. up[k - 1] \in Tasks /\ up[k] = real_parent[up[k - 1]] /\ status[up[k - 1]] = "live"
    BY <1>3, <2>4
  <2> QED
    BY <2>2, <2>5 DEF Tree
<1>5. rank[real_parent[t]] < rank[t] /\ rank[Swapper] = 0 /\ real_parent[Swapper] = Swapper
  BY DEF Tree
<1>6. ASSUME NEW i \in 1 .. n, i # 1, rank[up[i - 1]] < rank[t]
      PROVE  rank[up[i]] < rank[t]
  <2>1. i - 1 \in 0 .. n
    OBVIOUS
  <2>2. up[i] = real_parent[up[i - 1]] /\ up[i - 1] \in Tasks /\ status[up[i - 1]] = "live" /\ up[i] \in Tasks
    BY <1>3, <1>4, <2>1
  <2>3. CASE up[i - 1] = Swapper
    BY <1>5, <1>6, <2>2, <2>3
  <2>4. CASE up[i - 1] # Swapper
    <3>1. rank[up[i]] < rank[up[i - 1]]
      BY <2>2, <2>4 DEF Tree
    <3> QED
      BY <1>6, <2>2, <3>1
  <2> QED
    BY <2>3, <2>4
<1>7. \A i \in 1 .. n : rank[up[i]] < rank[t]
  <2> DEFINE Bad == {i \in 1 .. n : ~(rank[up[i]] < rank[t])}
  <2> SUFFICES ASSUME Bad # {} PROVE FALSE
    OBVIOUS
  <2>1. Bad \in SUBSET Nat
    OBVIOUS
  <2>2. PICK k \in Bad : \A m \in Bad : k <= m
    <3> HIDE DEF Bad
    <3> QED
      BY <2>1, LeastNatural
  <2>3. k # 1
    BY <1>3, <1>5, <2>2
  <2>4. k - 1 \in 1 .. n /\ k - 1 \notin Bad /\ k \in 1 .. n
    BY <2>2, <2>3
  <2> QED
    BY <1>6, <2>2, <2>3, <2>4
<1> QED
  BY <1>2, <1>7

\* The other calls are not alone when one is under way.
LEMMA OneAlone ==
    ASSUME BanTypeOK, Alone, NEW t \in Tasks, call[t].pc # "idle", Others(t), AloneOK(t, call[t])'
    PROVE  Alone'
<1> SUFFICES ASSUME NEW u \in Tasks, u # t, call'[u].alone PROVE FALSE
  BY DEF Alone, AloneOK
<1>1. call[u].alone /\ AloneOK(u, call[u])
  BY DEF Others, Alone
<1> QED
  BY <1>1 DEF AloneOK

\* What leaves the bans and the rest of the walk alone leaves the goal as near.
LEMMA StillTowards ==
    ASSUME NEW t \in Tasks, Towards(call[t]), Live' = Live,
           \A u \in Live : banned_signals'[u] = banned_signals[u],
           call'[t].goal = call[t].goal, call'[t].ban = call[t].ban, Rest(call[t])' = Rest(call[t])
    PROVE  Towards(call[t])'
<1> SUFFICES ASSUME NEW u \in Live, NEW b \in Bans
             PROVE  <<u, b>> \in call[t].goal
                      <=> ~(b \in banned_signals[u] <=> (b = call[t].ban /\ u \in Rest(call[t])))
  BY DEF Towards
<1> QED
  BY DEF Towards

LEMMA LoadAlone ==
    ASSUME BanTypeOK, Alone, NEW t \in Tasks, LoadBan(t)
    PROVE  Alone'
<1> DEFINE c == call[t]
<1>1. /\ c.pc = "load" /\ UNCHANGED <<banned_signals, treeVars>> /\ Others(t)
      /\ call'[t].pc = "store" /\ call'[t].reg = banned_signals[c.at] /\ SameWalk(c, call'[t])
  BY LoadBanStep
<1>2. SUFFICES ASSUME call'[t].alone PROVE AloneOK(t, call[t])'
  BY <1>1, OneAlone DEF AloneOK
<1>3. c.alone /\ AloneOK(t, c)
  BY <1>1, <1>2 DEF SameWalk, Alone
<1>4. Rest(call[t])' = Rest(c) /\ Banned(call[t])' = Banned(c)
  BY <1>1 DEF Rest, Banned, SameWalk, treeVars
<1>5. Towards(call[t])'
  <2>1. Towards(c) /\ call'[t].goal = c.goal /\ call'[t].ban = c.ban /\ Live' = Live /\ banned_signals' = banned_signals
    BY <1>1, <1>3 DEF AloneOK, SameWalk, Live, treeVars
  <2> QED
    BY <1>4, <2>1, StillTowards
<1> QED
  BY <1>1, <1>3, <1>4, <1>5 DEF AloneOK, Walking, Others, SameWalk, treeVars

LEMMA FlipAlone ==
    ASSUME ~Preemptible, BanTypeOK, TreeOK, Alone, NEW t \in Tasks, FlipBan(t)
    PROVE  Alone'
<1> DEFINE c == call[t]
<1>1. /\ c.pc = "store" /\ UNCHANGED treeVars /\ Others(t)
      /\ call'[t].pc = "next" /\ call'[t].ban = c.ban /\ call'[t].at = c.at /\ call'[t].height = c.height
      /\ call'[t].count = IF c.ban \in c.reg THEN c.count ELSE c.count + 1
      /\ call'[t].seen = c.seen \cup {c.at}
      /\ call'[t].alone = c.alone /\ call'[t].goal = c.goal
      /\ \A u \in Tasks \ {c.at} : banned_signals'[u] = banned_signals[u]
      /\ c.reg = banned_signals[c.at] =>
           banned_signals'[c.at] = IF c.ban \in c.reg THEN c.reg \ {c.ban} ELSE c.reg \cup {c.ban}
  BY FlipBanStep
<1>2. SUFFICES ASSUME call'[t].alone PROVE AloneOK(t, call[t])'
  BY <1>1, OneAlone DEF AloneOK
<1>3. c.alone /\ AloneOK(t, c) /\ c.reg = banned_signals[c.at] /\ status[c.at] = "live"
  BY <1>1, <1>2 DEF Alone, AloneOK
<1>4. c.at \in Tasks /\ c.seen \in SUBSET Tasks /\ c.count \in Nat /\ c.ban \in Bans
  BY <1>1 DEF BanTypeOK, CallRecord, Walking
<1>5. c.at \notin c.seen
  <2>1. PICK rank \in [Tasks -> Nat] : Walks(rank)
    BY DEF TreeOK
  <2>2. \A u \in c.seen : rank[c.at] < rank[u]
    BY <1>1, <2>1 DEF Walks, WalkOK
  <2> QED
    BY <1>4, <2>2
<1>6. \A b \in Bans : b \in banned_signals'[c.at] <=> ~(b \in banned_signals[c.at] <=> b = c.ban)
  BY <1>1, <1>3, <1>4
<1>7. Towards(call[t])'
  <2> DEFINE B == BranchOf(real_parent, c.at, c.height - 1)
  <2>1. Rest(call[t])' = B \ {c.at} /\ Rest(c) = B \cup {c.at}
    BY <1>1 DEF Rest, treeVars
  <2> HIDE DEF B
  <2>2. ASSUME NEW u \in Live, NEW b \in Bans
        PROVE  <<u, b>> \in c.goal
                 <=> ~(b \in banned_signals'[u] <=> (b = c.ban /\ u \in B \ {c.at}))
    <3>1. <<u, b>> \in c.goal <=> ~(b \in banned_signals[u] <=> (b = c.ban /\ u \in B \cup {c.at}))
      BY <1>3, <2>1 DEF AloneOK, Towards
    <3>2. CASE u = c.at
      BY <1>6, <3>1, <3>2
    <3>3. CASE u # c.at
      <4>1. banned_signals'[u] = banned_signals[u]
        BY <1>1, <3>3 DEF Live
      <4> QED
        BY <3>1, <3>3, <4>1
    <3> QED
      BY <3>2, <3>3
  <2>3. Live' = Live /\ call'[t].goal = c.goal /\ call'[t].ban = c.ban
    BY <1>1 DEF Live, treeVars
  <2> QED
    BY <2>1, <2>2, <2>3 DEF Towards
<1>8. IsFiniteSet(c.seen) /\ c.count = Cardinality(Banned(c)) /\ IsFiniteSet(Banned(c))
  <2>1. IsFiniteSet(c.seen) /\ c.count = Cardinality(Banned(c)) /\ Banned(c) \in SUBSET c.seen
    BY <1>3 DEF AloneOK, Banned
  <2> QED
    BY <2>1, FS_Subset
<1>9. IsFiniteSet(call'[t].seen) /\ call'[t].count = Cardinality(Banned(call[t])')
  <2>1. IsFiniteSet(call'[t].seen)
    BY <1>1, <1>8, FS_AddElement
  <2>2. CASE c.ban \in c.reg
    <3>1. Banned(call[t])' = Banned(c)
      BY <1>1, <1>3, <1>4, <1>5, <1>6, <2>2 DEF Banned
    <3> QED
      BY <1>1, <1>8, <2>1, <2>2, <3>1
  <2>3. CASE c.ban \notin c.reg
    <3>1. Banned(call[t])' = Banned(c) \cup {c.at} /\ c.at \notin Banned(c)
      BY <1>1, <1>3, <1>4, <1>5, <1>6, <2>3 DEF Banned
    <3>2. Cardinality(Banned(c) \cup {c.at}) = Cardinality(Banned(c)) + 1
      BY <1>8, <3>1, FS_AddElement
    <3> QED
      BY <1>1, <1>8, <2>1, <2>3, <3>1, <3>2
  <2> QED
    BY <2>2, <2>3
<1> QED
  BY <1>1, <1>3, <1>7, <1>9 DEF AloneOK, Walking, Others, treeVars

LEMMA MoveAlone ==
    ASSUME BanTypeOK, TreeOK, Alone, NEW t \in Tasks, MoveUp(t)
    PROVE  Alone'
<1> DEFINE c == call[t]
<1>1. /\ c.pc = "next" /\ UNCHANGED <<banned_signals, treeVars>> /\ Others(t)
      /\ \/ /\ c.at = real_parent[c.at] \/ c.height = 1
            /\ call'[t].pc = "done" /\ SameWalk(c, call'[t])
         \/ /\ c.at # real_parent[c.at] /\ c.height # 1
            /\ call'[t].pc = "load" /\ call'[t].ban = c.ban /\ call'[t].at = real_parent[c.at]
            /\ call'[t].height = c.height - 1 /\ call'[t].height > 0 /\ call'[t].count = c.count
            /\ call'[t].seen = c.seen /\ call'[t].alone = c.alone /\ call'[t].goal = c.goal
  BY MoveUpStep
<1>2. SUFFICES ASSUME call'[t].alone PROVE AloneOK(t, call[t])'
  BY <1>1, OneAlone DEF AloneOK
<1>3. c.alone /\ AloneOK(t, c) /\ status[c.at] = "live"
  BY <1>1, <1>2 DEF Alone, AloneOK, SameWalk
<1>4. c.at \in Tasks /\ c.height \in Nat /\ c.height > 0 /\ real_parent \in [Tasks -> Tasks]
  BY <1>1 DEF BanTypeOK, CallRecord, Walking
<1>5. Rest(c) = BranchOf(real_parent, c.at, c.height - 1) \ {c.at}
  BY <1>1 DEF Rest
<1>6. ASSUME call'[t].pc \in {"done", "load"}, Rest(call[t])' = Rest(c), call'[t].pc = "load" => status[call'[t].at] = "live",
             call'[t].ban = c.ban, call'[t].count = c.count, call'[t].seen = c.seen, call'[t].goal = c.goal
      PROVE  AloneOK(t, call[t])'
  <2>1. Towards(call[t])'
    <3>1. Towards(c) /\ Live' = Live /\ banned_signals' = banned_signals
      BY <1>1, <1>3 DEF AloneOK, Live, treeVars
    <3> QED
      BY <1>6, <3>1, StillTowards
  <2>2. Banned(call[t])' = Banned(c)
    BY <1>1, <1>6 DEF Banned
  <2>3. call'[t].pc # "done" => status'[call'[t].at] = "live"
    BY <1>1, <1>6 DEF treeVars
  <2> QED
    BY <1>1, <1>3, <1>6, <2>1, <2>2, <2>3 DEF AloneOK, Walking, Others
<1>7. CASE /\ c.at = real_parent[c.at] \/ c.height = 1
           /\ call'[t].pc = "done" /\ SameWalk(c, call'[t])
  <2>1. Rest(c) = {}
    <3>1. CASE c.at = real_parent[c.at]
      BY <1>4, <1>5, <3>1, BranchRoot
    <3>2. CASE c.height = 1
      BY <1>4, <1>5, <3>2, BranchNone
    <3> QED
      BY <1>7, <3>1, <3>2
  <2>2. Rest(call[t])' = {}
    BY <1>7 DEF Rest
  <2> QED
    BY <1>6, <1>7, <2>1, <2>2 DEF SameWalk
<1>8. CASE /\ c.at # real_parent[c.at] /\ c.height # 1
           /\ call'[t].pc = "load" /\ call'[t].ban = c.ban /\ call'[t].at = real_parent[c.at]
           /\ call'[t].height = c.height - 1 /\ call'[t].height > 0 /\ call'[t].count = c.count
           /\ call'[t].seen = c.seen /\ call'[t].alone = c.alone /\ call'[t].goal = c.goal
  <2>1. PICK rank \in [Tasks -> Nat] : Tree(rank)
    BY DEF TreeOK
  <2>2. status[real_parent[c.at]] = "live"
    BY <1>3, <1>4, <2>1 DEF Tree
  <2>3. c.height - 1 \in Nat \ {0}
    BY <1>4, <1>8
  <2>4. c.at \notin BranchOf(real_parent, c.at, c.height - 1)
    BY <1>3, <1>4, <1>8, <2>1, <2>3, NotAbove
  <2>5. BranchOf(real_parent, c.at, c.height - 1)
          = BranchOf(real_parent, real_parent[c.at], (c.height - 1) - 1) \cup {real_parent[c.at]}
    BY <1>4, <2>3, BranchUp
  <2>6. Rest(call[t])' = BranchOf(real_parent, real_parent[c.at], (c.height - 1) - 1) \cup {real_parent[c.at]}
    BY <1>1, <1>8 DEF Rest, treeVars
  <2> QED
    BY <1>5, <1>6, <1>8, <2>2, <2>4, <2>5, <2>6
<1> QED
  BY <1>1, <1>7, <1>8

\* A flip that begins when no call is under way.
LEMMA EnterAlone ==
    ASSUME BanTypeOK, TreeOK, NEW t \in Tasks, NEW height \in 1 .. MaxHeight, NEW ban \in Bans,
           NEW c \in CallRecord, Flips(t, height, ban, c)
    PROVE  Alone'
<1>1. call' = [Disturb EXCEPT ![t] = c] /\ UNCHANGED <<banned_signals, treeVars>>
  BY DEF Flips, Enter
<1>2. call'[t] = c /\ \A u \in Tasks \ {t} : call'[u] = Disturb[u]
  BY <1>1, Disturbed
<1>3. \A u \in Tasks \ {t} : ~call'[u].alone /\ call'[u].pc = call[u].pc
  BY <1>2, Disturbed
<1> SUFFICES ASSUME c.alone PROVE AloneOK(t, call[t])'
  BY <1>2, <1>3 DEF Alone, AloneOK
<1>4. /\ InCall = {} /\ c.goal = Flipped(Branch(t, height), ban) /\ c.pc = "load" /\ c.ban = ban
      /\ c.at = real_parent[t] /\ c.height = height /\ c.seen = {} /\ c.count = 0
  BY DEF Flips
<1>5. real_parent \in [Tasks -> Tasks] /\ c.at \in Tasks /\ height \in Nat \ {0}
  BY BanConstants DEF BanTypeOK, CallRecord
<1>6. status[c.at] = "live"
  BY <1>4 DEF TreeOK, Tree, Flips, Enter
<1>7. Rest(call[t])' = Branch(t, height)
  <2>1. Rest(call[t])' = BranchOf(real_parent, real_parent[t], height - 1) \cup {real_parent[t]}
    BY <1>1, <1>2, <1>4 DEF Rest, treeVars
  <2>2. Branch(t, height) = BranchOf(real_parent, t, height)
    BY DEF Branch, BranchOf
  <2> QED
    BY <1>5, <2>1, <2>2, BranchUp
<1>8. Towards(call[t])'
  <2> DEFINE B == Branch(t, height)
  <2>1. B \subseteq Tasks
    BY <1>5, BranchType
  <2> HIDE DEF B
  <2>2. ASSUME NEW u \in Live, NEW b \in Bans
        PROVE  <<u, b>> \in Flipped(B, ban) <=> ~(b \in banned_signals[u] <=> (b = ban /\ u \in B))
    <3>1. u \in Tasks
      BY DEF Live
    <3>2. <<u, b>> \in AllBans <=> b \in banned_signals[u]
      BY <3>1 DEF AllBans
    <3>3. <<u, b>> \in B \X {ban} <=> (b = ban /\ u \in B)
      OBVIOUS
    <3> QED
      BY <3>2, <3>3 DEF Flipped
  <2>3. c.goal = Flipped(B, ban)
    BY <1>4 DEF B
  <2>4. Rest(call[t])' = B
    BY <1>7 DEF B
  <2> QED
    <3>1. Live' = Live /\ banned_signals' = banned_signals
      BY <1>1 DEF Live, treeVars
    <3>2. call'[t].goal = Flipped(B, ban) /\ call'[t].ban = ban
      BY <1>2, <1>4, <2>3
    <3>3. \A u \in Live, b \in Bans :
            <<u, b>> \in call'[t].goal <=> ~(b \in banned_signals[u] <=> (b = ban /\ u \in B))
      BY <2>2, <3>2
    <3> QED
      BY <2>4, <3>1, <3>2, <3>3 DEF Towards
<1>9. Banned(call[t])' = {} /\ IsFiniteSet(call'[t].seen) /\ call'[t].count = 0
  BY <1>2, <1>4, FS_EmptySet DEF Banned
<1>10. \A u \in Tasks \ {t} : call'[u].pc = "idle"
  BY <1>3, <1>4 DEF InCall
<1>11. status'[call'[t].at] = "live"
  BY <1>1, <1>2, <1>6 DEF treeVars
<1> QED
  BY <1>2, <1>4, <1>8, <1>9, <1>10, <1>11, FS_EmptySet DEF AloneOK, Walking

\* Memory that is freed is not on the way of a call that runs alone.
LEMMA FreeAlone ==
    ASSUME ~Preemptible, BanTypeOK, TreeOK, Alone, NEW u \in Tasks, Free(u)
    PROVE  Alone'
<1>1. /\ status[u] = "released" /\ grace[u] = {} /\ call' = call
      /\ status'[u] = "free"
      /\ \A v \in Tasks \ {u} : /\ status'[v] = status[v] /\ real_parent'[v] = real_parent[v]
                                /\ banned_signals'[v] = banned_signals[v]
  BY DEF Free, BanTypeOK
<1>2. real_parent \in [Tasks -> Tasks] /\ real_parent' \in [Tasks -> Tasks]
  BY BanConstants DEF Free, BanTypeOK
<1>3. PICK rank \in [Tasks -> Nat] : Tree(rank) /\ Walks(rank)
  BY DEF TreeOK
<1>4. Live' = Live /\ Live \in SUBSET Tasks /\ u \notin Live
  BY <1>1 DEF Live
<1>5. \A v \in Live : /\ real_parent[v] \in Live /\ real_parent'[v] = real_parent[v]
                      /\ banned_signals'[v] = banned_signals[v]
  BY <1>1, <1>2, <1>3, <1>4 DEF Live, Tree
<1> SUFFICES ASSUME NEW t \in Tasks, call[t].alone PROVE AloneOK(t, call[t])'
  BY <1>1 DEF Alone, AloneOK
<1> DEFINE c == call[t]
<1>6. AloneOK(t, c) /\ WalkOK(t, c, rank) /\ c.at \in Tasks /\ c.height \in Nat /\ c.seen \in SUBSET Tasks
  BY <1>3 DEF Alone, Walks, BanTypeOK, CallRecord
<1>7. c.pc \in Walking => c.at \in Live /\ c.height - 1 \in Nat
  BY <1>6 DEF AloneOK, Walking, Live, BanTypeOK
<1>8. Rest(call[t])' = Rest(c)
  <2>1. c.pc \in Walking =>
          BranchOf(real_parent', c.at, c.height - 1) = BranchOf(real_parent, c.at, c.height - 1)
    BY <1>2, <1>4, <1>5, <1>7, BranchAgrees
  <2> QED
    BY <1>1, <2>1 DEF Rest, Walking
<1>9. Towards(call[t])'
  <2>1. Towards(c)
    BY <1>6 DEF AloneOK
  <2> QED
    BY <1>1, <1>4, <1>5, <1>8, <2>1, StillTowards
<1>10. u \notin c.seen
  BY <1>1, <1>6 DEF AloneOK, WalkOK, Holds, Walking
<1>11. Banned(call[t])' = Banned(c)
  BY <1>1, <1>6, <1>10 DEF Banned
<1>12. c.pc # "done" => c.at \in Live /\ status'[c.at] = "live" /\ banned_signals'[c.at] = banned_signals[c.at]
  BY <1>1, <1>6, <1>7, <1>4, <1>5 DEF AloneOK, Live, Walking
<1> QED
  BY <1>1, <1>6, <1>9, <1>11, <1>12 DEF AloneOK

LEMMA AloneNext ==
    ASSUME ~Preemptible, BanTypeOK, TreeOK, Alone, [BanNext]_banVars
    PROVE  Alone'
<1>1. ASSUME call' = call, UNCHANGED <<banned_signals, real_parent, status>>
      PROVE  Alone'
  BY <1>1 DEF Alone, AloneOK, Towards, Banned, Rest, Live
<1>2. ASSUME call' = Disturb
      PROVE  Alone'
  BY <1>2, Disturbed DEF Alone, AloneOK
<1>3. ASSUME NEW t \in Tasks, NEW c \in CallRecord, Enter(t, c), c.alone = FALSE
      PROVE  Alone'
  <2>1. call' = [Disturb EXCEPT ![t] = c]
    BY <1>3 DEF Enter
  <2>2. \A u \in Tasks : call'[u].alone = FALSE
    BY <1>3, <2>1, Disturbed
  <2> QED
    BY <2>2 DEF Alone, AloneOK
<1>4. ASSUME NEW u \in Tasks, Free(u)
      PROVE  Alone'
  BY <1>4, FreeAlone
<1>5. ASSUME NEW t \in Tasks, NEW bans \in SUBSET Bans, sys_set_ban(t, bans)
      PROVE  Alone'
  BY <1>3, <1>5, SetCallType DEF sys_set_ban, SetCall
<1>6. ASSUME NEW t \in Tasks, NEW other \in Tasks, NEW ban \in Bans, sys_check_ban(t, other, ban)
      PROVE  Alone'
  <2>1. Enter(t, CheckCall(other, ban))
    BY <1>6 DEF sys_check_ban, CheckCall
  <2>2. CheckCall(other, ban) \in CallRecord /\ CheckCall(other, ban).alone = FALSE
    BY CheckCallType
  <2> QED
    BY <1>3, <2>1, <2>2
<1>7. ASSUME NEW t \in Tasks, NEW height \in 1 .. MaxHeight, NEW ban \in Bans, sys_flip_ban_branch(t, height, ban)
      PROVE  Alone'
  <2>1. PICK c \in CallRecord : Flips(t, height, ban, c)
    BY <1>7, FlipStart
  <2> QED
    BY <2>1, EnterAlone
<1>8. ASSUME NEW t \in Tasks, Step(t)
      PROVE  Alone'
  <2>1. CASE Return(t)
    <3>1. call[t].pc # "idle"
      BY <1>8 DEF Step, ClearBans, LoadOwn, OrBan, ReadOther, LoadBan, FlipBan, MoveUp, FlipReturns
    <3>2. call'[t] = NoCall /\ Others(t)
      BY <2>1 DEF Return, BanTypeOK, Others
    <3>3. AloneOK(t, call[t])'
      BY <3>2, NoCallType DEF AloneOK
    <3> QED
      BY <3>1, <3>2, <3>3, OneAlone
  <2>2. CASE ClearBans(t) \/ (LoadOwn(t) /\ ~Return(t)) \/ OrBan(t)
    <3>1. call[t].pc \in {"clear", "add", "or"} /\ Others(t) /\ call'[t].alone = call[t].alone
      BY <2>2, OwnStep
    <3>2. ~call[t].alone
      BY <3>1 DEF Alone, AloneOK, Walking
    <3>3. AloneOK(t, call[t])'
      BY <3>1, <3>2 DEF AloneOK
    <3> QED
      BY <3>1, <3>3, OneAlone
  <2>3. CASE LoadBan(t)
    BY <2>3, LoadAlone
  <2>4. CASE FlipBan(t)
    BY <2>4, FlipAlone
  <2>5. CASE MoveUp(t)
    BY <2>5, MoveAlone
  <2> QED
    BY <1>8, <2>1, <2>2, <2>3, <2>4, <2>5 DEF Step, ReadOther, FlipReturns
<1>9. CASE UNCHANGED banVars
  BY <1>1, <1>9 DEF banVars, treeVars
<1>10. ASSUME NEW u \in Tasks, DropRoot(u)
       PROVE  Alone'
  BY <1>1, <1>10 DEF DropRoot
<1>11. ASSUME NEW u \in Tasks, exit(u)
       PROVE  Alone'
  BY <1>2, <1>11 DEF exit, Exit
<1>12. ASSUME NEW p \in Tasks, NEW c \in Tasks, NEW thread \in BOOLEAN, Fork(p, c, thread)
       PROVE  Alone'
  BY <1>2, <1>12 DEF Fork
<1> QED
  BY <1>4, <1>5, <1>6, <1>7, <1>8, <1>9, <1>10, <1>11, <1>12 DEF BanNext, sys_kill

\* A walk of flip_ban_branch writes to no task twice and not to its caller, whatever
\* exits and is reparented meanwhile; one that nothing interrupts inverts the ban of
\* exactly the ancestors it should, and counts the ones it has banned.
\* Proved for a kernel that does not preempt system calls: where it does, the walk may
\* go on in memory that was freed.
THEOREM FlipExactHolds ==
    ASSUME ~Preemptible
    PROVE  BanSpec => []FlipExact
<1>1. BanInit => Alone
  BY NoCallType DEF BanInit, Alone, AloneOK
<1>2. BanTypeOK /\ TreeOK /\ Alone /\ [BanNext]_banVars => Alone'
  BY AloneNext
<1>3. BanTypeOK /\ TreeOK /\ Alone => FlipExact
  <2> SUFFICES ASSUME BanTypeOK, TreeOK, Alone, NEW t \in Tasks
               PROVE  /\ VisitsOnce(t)
                      /\ call[t].pc = "done" /\ call[t].alone =>
                           /\ \A u \in Live, b \in Bans : b \in banned_signals[u] <=> <<u, b>> \in call[t].goal
                           /\ call[t].count = Cardinality({u \in call[t].seen : call[t].ban \in banned_signals[u]})
    BY DEF FlipExact
  <2>1. VisitsOnce(t)
    <3>1. PICK rank \in [Tasks -> Nat] : Walks(rank)
      BY DEF TreeOK
    <3> QED
      BY <3>1 DEF Walks, WalkOK, VisitsOnce
  <2>2. ASSUME call[t].pc = "done", call[t].alone
        PROVE  /\ \A u \in Live, b \in Bans : b \in banned_signals[u] <=> <<u, b>> \in call[t].goal
               /\ call[t].count = Cardinality({u \in call[t].seen : call[t].ban \in banned_signals[u]})
    <3>1. Rest(call[t]) = {} /\ AloneOK(t, call[t])
      BY <2>2 DEF Rest, Alone
    <3>2. Towards(call[t]) /\ call[t].count = Cardinality(Banned(call[t]))
      BY <2>2, <3>1 DEF AloneOK
    <3> QED
      BY <3>1, <3>2 DEF Towards, Banned
  <2> QED
    BY <2>1, <2>2
<1> QED
  BY BanCorrect, <1>1, <1>2, <1>3, PTL DEF BanSpec

=============================================================================
