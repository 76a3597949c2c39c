---------------------------- MODULE SignalsProofs -----------------------------
(***************************************************************************)
(* What kernel/signal.c keeps, for any number of threads, any signals,     *)
(* masks and actions and any limits: group stops, continues and the death  *)
(* of the process.                                                         *)
(*                                                                         *)
(* The invariant, Core, says where each thread is, and what a group stop,  *)
(* a continue and a group exit leave where.                                *)
(***************************************************************************)
EXTENDS Signals, FiniteSums, SequenceTheorems, FunctionTheorems, NaturalsInduction, TLAPS

-----------------------------------------------------------------------------
(* Types *)

Signo == 1 .. 64
Handlers == {"SIG_DFL", "SIG_IGN", "handler"}
Action == [handler : Handlers, mask : SUBSET Signo, flags : SUBSET {"SA_ONESHOT", "SA_NODEFER"}]
Entry == [sig : AllSignals, positive : BOOLEAN, prealloc : BOOLEAN]
Pending == [signal : SUBSET AllSignals, list : Seq(Entry)]
JobctlBits == {"STOP_PENDING", "STOP_CONSUME", "STOP_DEQUEUED"}
Task == [state : {"running", "interruptible", "stopped", "dead"}, tif : BOOLEAN, blocked : SUBSET Signo,
         real_blocked : SUBSET Signo, jobctl : SUBSET JobctlBits, exiting : BOOLEAN, pending : Pending]
GroupFlags == {"GROUP_EXIT", "STOP_STOPPED", "STOP_CONTINUED", "CLD_STOPPED", "CLD_CONTINUED"}
Group == [task : [Threads -> Task], shared : Pending, flags : SUBSET GroupFlags, group_stop_count : Nat,
          curr_target : Threads, action : [AllSignals -> Action], sigpending : Int, timer : BOOLEAN]

LEMMA SignalNumbers ==
    /\ AllSignals \subseteq Signo
    /\ Sendable \subseteq AllSignals /\ Settable \subseteq AllSignals /\ TimerSignal \in AllSignals
    /\ SIGKILL \in AllSignals /\ SIGSEGV \in AllSignals /\ \A s \in Masks : s \subseteq AllSignals
    /\ SIGKILL \in Signo /\ SIGSEGV \in Signo /\ 0 \notin AllSignals /\ AllSignals \subseteq Nat
<1>1. SIGKILL \in Signo /\ SIGSEGV \in Signo /\ 0 \notin Signo /\ Signo \subseteq Nat
  BY DEF SIGKILL, SIGSEGV, Signo
<1>2. AllSignals \subseteq Signo
  BY <1>1, SignalsConstants DEF AllSignals, Signo
<1> QED
  BY <1>1, <1>2 DEF AllSignals

LEMMA ActionTypes == Actions \subseteq Action /\ SIG_DFL \in Action
BY SignalsConstants DEF Action, Handlers, Signo, SIG_DFL

LEMMA ThreadsFinite == IsFiniteSet(Threads) /\ leader \in Threads /\ 0 \notin Threads /\ Threads \subseteq Nat
<1>1. N \in Nat /\ N >= 1
  BY SignalsConstants
<1>2. IsFiniteSet(1 .. N)
  BY <1>1, FS_Interval
<1> QED
  BY <1>1, <1>2 DEF Threads, leader

LEMMA NewTypes ==
    /\ EmptyPending \in Pending /\ EmptyPending.signal = {} /\ EmptyPending.list = <<>>
    /\ NewTask \in Task
BY DEF EmptyPending, Pending, NewTask, Task

\* The first thread of a set in the order of next_thread is one of the set.
LEMMA FirstIsMember ==
    ASSUME NEW t \in Threads, NEW set \in SUBSET Threads, set # {}
    PROVE  FirstFrom(t, set) \in set
<1>1. N \in Nat \ {0} /\ \A u \in Threads : u - t \in Int
  BY SignalsConstants DEF Threads
<1>2. \A u \in Threads : (u - t) % N \in Nat
  BY <1>1
<1> DEFINE D == {(u - t) % N : u \in set}
<1>3. D \in SUBSET Nat /\ D # {}
  BY <1>2
<1>4. PICK d \in D : \A e \in D : d <= e
  <2> HIDE DEF D
  <2> QED
    BY <1>3, LeastNatural
<1>5. \E u \in set : \A v \in set : (u - t) % N <= (v - t) % N
  BY <1>4
<1> QED
  BY <1>5 DEF FirstFrom

-----------------------------------------------------------------------------
(* Lists of queue entries *)

\* w holds the entries of list at the places of K, in their order.
Sub(list, w, K) ==
    \E e \in [1 .. Len(w) -> 1 .. Len(list)] :
        /\ \A a \in 1 .. Len(w) : w[a] = list[e[a]]
        /\ \A a, b \in 1 .. Len(w) : a < b => e[a] < e[b]
        /\ \A a \in 1 .. Len(w) : e[a] \in K
        /\ \A k \in K : \E a \in 1 .. Len(w) : e[a] = k

LEMMA EntryAt ==
    ASSUME NEW list \in Seq(Entry)
    PROVE  /\ Len(list) \in Nat /\ DOMAIN list = 1 .. Len(list)
           /\ \A i \in 1 .. Len(list) : list[i] \in Entry
BY LenProperties, ElementOfSeq

LEMMA PlacesFinite ==
    ASSUME NEW list \in Seq(Entry), NEW K \in SUBSET (1 .. Len(list))
    PROVE  IsFiniteSet(K) /\ Cardinality(K) \in Nat
<1>1. IsFiniteSet(1 .. Len(list))
  BY EntryAt, FS_Interval
<1> QED
  BY <1>1, FS_Subset, FS_CardinalityType

\* A part of a list has as many charged entries as there are at its places.
LEMMA SubFree ==
    ASSUME NEW list \in Seq(Entry), NEW w \in Seq(Entry), NEW K \in SUBSET (1 .. Len(list)), Sub(list, w, K)
    PROVE  FreeAll(w) = Cardinality({k \in K : ~list[k].prealloc})
<1> DEFINE A == {a \in 1 .. Len(w) : ~w[a].prealloc}
           B == {k \in K : ~list[k].prealloc}
<1>1. PICK e \in [1 .. Len(w) -> 1 .. Len(list)] :
        /\ \A a \in 1 .. Len(w) : w[a] = list[e[a]]
        /\ \A a, b \in 1 .. Len(w) : a < b => e[a] < e[b]
        /\ \A a \in 1 .. Len(w) : e[a] \in K
        /\ \A k \in K : \E a \in 1 .. Len(w) : e[a] = k
  BY DEF Sub
<1>2. Len(w) \in Nat /\ Len(list) \in Nat /\ DOMAIN w = 1 .. Len(w)
  BY EntryAt
<1> DEFINE f == [a \in A |-> e[a]]
<1>3. \A a \in A : f[a] = e[a] /\ a \in 1 .. Len(w) /\ e[a] \in B
  BY <1>1
<1>4. ASSUME NEW a \in A, NEW b \in A, f[a] = f[b]
      PROVE  a = b
  <2>1. a \in 1 .. Len(w) /\ b \in 1 .. Len(w) /\ e[a] = e[b] /\ e[a] \in Nat /\ a \in Nat /\ b \in Nat
    BY <1>2, <1>3, <1>4
  <2>2. (a < b => e[a] < e[b]) /\ (b < a => e[b] < e[a])
    BY <1>1, <2>1
  <2> HIDE DEF A, B, f
  <2>3. ~(e[a] < e[b]) /\ ~(e[b] < e[a])
    BY <2>1
  <2> QED
    BY <2>1, <2>2, <2>3
<1>5. ASSUME NEW k \in B
      PROVE  \E a \in A : f[a] = k
  <2>1. PICK a \in 1 .. Len(w) : e[a] = k
    BY <1>1
  <2>2. a \in A
    BY <1>1, <2>1
  <2> QED
    BY <1>3, <2>1, <2>2
<1>6. f \in Bijection(A, B)
  <2>1. f \in [A -> B]
    BY <1>3
  <2> HIDE DEF f, A, B
  <2> QED
    BY <1>4, <1>5, <2>1, Fun_IsBij
<1>7. IsFiniteSet(A)
  BY PlacesFinite
<1>8. Cardinality(A) = Cardinality(B)
  <2> HIDE DEF A, B, f
  <2> QED
    BY <1>6, <1>7, FS_Bijection DEF ExistsBijection
<1> QED
  BY <1>2, <1>8 DEF FreeAll

\* Removing one entry.
LEMMA RemovedAt ==
    ASSUME NEW list \in Seq(Entry), NEW i \in 1 .. Len(list)
    PROVE  /\ RemoveAt(list, i) \in Seq(Entry)
           /\ Sub(list, RemoveAt(list, i), (1 .. Len(list)) \ {i})
<1> DEFINE n == Len(list)
           w == RemoveAt(list, i)
           e == [a \in 1 .. n - 1 |-> IF a < i THEN a ELSE a + 1]
<1>1. n \in Nat /\ i \in Nat /\ i >= 1 /\ i <= n
  BY EntryAt
<1>2. w \in Seq(Entry) /\ Len(w) = n - 1 /\ \A a \in 1 .. n - 1 : w[a] = list[e[a]]
  <2>1. /\ SubSeq(list, 1, i - 1) \in Seq(Entry) /\ Len(SubSeq(list, 1, i - 1)) = i - 1
        /\ \A a \in 1 .. i - 1 : SubSeq(list, 1, i - 1)[a] = list[a]
    BY <1>1, SubSeqProperties
  <2>2. /\ SubSeq(list, i + 1, n) \in Seq(Entry) /\ Len(SubSeq(list, i + 1, n)) = n - i
        /\ \A a \in 1 .. n - i : SubSeq(list, i + 1, n)[a] = list[i + a]
    BY <1>1, SubSeqProperties
  <2> DEFINE x == SubSeq(list, 1, i - 1)
             y == SubSeq(list, i + 1, n)
  <2>3. w = x \o y
    BY DEF RemoveAt
  <2> HIDE DEF x, y
  <2>4. /\ x \o y \in Seq(Entry) /\ Len(x \o y) = Len(x) + Len(y)
        /\ \A a \in 1 .. Len(x) + Len(y) : (x \o y)[a] = IF a <= Len(x) THEN x[a] ELSE y[a - Len(x)]
    BY <2>1, <2>2, ConcatProperties DEF x, y
  <2>5. Len(x) = i - 1 /\ Len(y) = n - i
    BY <2>1, <2>2 DEF x, y
  <2>6. ASSUME NEW a \in 1 .. n - 1
        PROVE  (x \o y)[a] = list[e[a]]
    <3>1. CASE a < i
      <4>1. a \in 1 .. i - 1 /\ e[a] = a /\ a <= Len(x)
        BY <1>1, <2>5, <3>1
      <4> QED
        BY <1>1, <2>1, <2>4, <2>5, <4>1 DEF x
    <3>2. CASE ~(a < i)
      <4>1. a - (i - 1) \in 1 .. n - i /\ e[a] = a + 1 /\ ~(a <= Len(x)) /\ i + (a - (i - 1)) = a + 1
        BY <1>1, <2>5, <3>2
      <4> QED
        BY <1>1, <2>2, <2>4, <2>5, <4>1 DEF y
    <3> QED
      BY <3>1, <3>2
  <2> QED
    BY <1>1, <2>3, <2>4, <2>5, <2>6
<1> HIDE DEF w
<1>3. \A a \in 1 .. n - 1 : e[a] \in (1 .. n) \ {i} /\ e[a] = IF a < i THEN a ELSE a + 1
  BY <1>1
<1>4. \A a, b \in 1 .. n - 1 : a < b => e[a] < e[b]
  BY <1>1, <1>3
<1>5. ASSUME NEW k \in (1 .. n) \ {i}
      PROVE  \E a \in 1 .. n - 1 : e[a] = k
  <2>1. CASE k < i
    <3>1. k \in 1 .. n - 1 /\ e[k] = k
      BY <1>1, <1>3, <2>1
    <3> QED
      BY <3>1
  <2>2. CASE ~(k < i)
    <3>1. k - 1 \in 1 .. n - 1 /\ e[k - 1] = k
      BY <1>1, <1>3, <2>2
    <3> QED
      BY <3>1
  <2> QED
    BY <2>1, <2>2
<1>6. e \in [1 .. Len(w) -> 1 .. n]
  BY <1>2, <1>3
<1> HIDE DEF e
<1>7. Sub(list, w, (1 .. n) \ {i})
  <2>1. \A a \in 1 .. Len(w) : w[a] = list[e[a]] /\ e[a] \in (1 .. n) \ {i}
    BY <1>2, <1>3
  <2>2. \A a, b \in 1 .. Len(w) : a < b => e[a] < e[b]
    BY <1>2, <1>4
  <2>3. \A k \in (1 .. n) \ {i} : \E a \in 1 .. Len(w) : e[a] = k
    BY <1>2, <1>5
  <2> QED
    BY <1>6, <2>1, <2>2, <2>3 DEF Sub
<1> QED
  BY <1>2, <1>7 DEF w

\* The loop of flush_sigqueue_mask.
Turn(list, mask, f, i) ==
    IF i = 0 THEN <<>> ELSE IF list[i].sig \in mask THEN f[i - 1] ELSE Append(f[i - 1], list[i])

LEMMA LoopRuns ==
    ASSUME NEW list, NEW mask, NEW n \in Nat
    PROVE  \E f : f = [i \in 0 .. n |-> Turn(list, mask, f, i)]
<1> DEFINE Is(f, m) == f = [i \in 0 .. m |-> Turn(list, mask, f, i)]
           Bad == {m \in Nat : ~\E f : Is(f, m)}
<1>1. CASE Bad = {}
  BY <1>1
<1>2. CASE Bad # {}
  <2>1. PICK m \in Bad : \A k \in Bad : m <= k
    <3>1. Bad \in SUBSET Nat
      OBVIOUS
    <3> HIDE DEF Bad
    <3> QED
      BY <1>2, <3>1, LeastNatural
  <2>2. m # 0
    <3> SUFFICES ASSUME m = 0 PROVE FALSE
      OBVIOUS
    <3>1. \A i \in 0 .. 0 : i = 0
      OBVIOUS
    <3>2. [i \in 0 .. 0 |-> <<>>] = [i \in 0 .. 0 |-> Turn(list, mask, [j \in 0 .. 0 |-> <<>>], i)]
      BY <3>1 DEF Turn
    <3>3. \E f : Is(f, 0)
      BY <3>2
    <3> QED
      BY <3>3
  <2>3. m - 1 \in Nat /\ m - 1 \notin Bad /\ m \in Nat
    BY <2>1, <2>2
  <2>4. PICK g : Is(g, m - 1)
    BY <2>3
  <2> DEFINE f == [i \in 0 .. m |-> Turn(list, mask, g, i)]
  <2>5. \A i \in 0 .. m - 1 : i \in 0 .. m /\ f[i] = g[i]
    BY <2>3, <2>4
  <2>6. ASSUME NEW i \in 0 .. m
        PROVE  f[i] = Turn(list, mask, f, i)
    <3>1. CASE i = 0
      BY <3>1 DEF Turn
    <3>2. CASE i # 0
      <4>1. i - 1 \in 0 .. m - 1
        BY <2>3, <3>2
      <4>2. f[i - 1] = g[i - 1] /\ f[i] = Turn(list, mask, g, i)
        BY <2>5, <4>1
      <4> HIDE DEF f
      <4> QED
        BY <3>2, <4>2 DEF Turn
    <3> QED
      BY <3>1, <3>2
  <2>7. f = [i \in 0 .. m |-> f[i]]
    OBVIOUS
  <2> HIDE DEF f
  <2>8. Is(f, m)
    BY <2>6, <2>7
  <2> QED
    BY <2>1, <2>8
<1> QED
  BY <1>1, <1>2

\* e says where the entries of w, the result after i turns, come from.
Gathered(list, mask, w, i, e) ==
    /\ w \in Seq(Entry) /\ e \in [1 .. Len(w) -> 1 .. i]
    /\ \A a \in 1 .. Len(w) : w[a] = list[e[a]] /\ list[e[a]].sig \notin mask
    /\ \A a, b \in 1 .. Len(w) : a < b => e[a] < e[b]
    /\ \A k \in 1 .. i : list[k].sig \notin mask => \E a \in 1 .. Len(w) : e[a] = k

LEMMA TurnGathers ==
    ASSUME NEW list \in Seq(Entry), NEW mask, NEW f, NEW i \in 1 .. Len(list), NEW e,
           Gathered(list, mask, f[i - 1], i - 1, e)
    PROVE  \E d : Gathered(list, mask, Turn(list, mask, f, i), i, d)
<1> DEFINE w == f[i - 1]
           n == Len(w)
<1>1. /\ Len(list) \in Nat /\ i \in Nat /\ i >= 1 /\ list[i] \in Entry
      /\ w \in Seq(Entry) /\ n \in Nat /\ e \in [1 .. n -> 1 .. i - 1]
  BY EntryAt DEF Gathered
<1>2. /\ \A a \in 1 .. n : /\ w[a] = list[e[a]] /\ list[e[a]].sig \notin mask
                           /\ e[a] \in 1 .. i - 1 /\ e[a] \in 1 .. i /\ e[a] < i
      /\ \A a, b \in 1 .. n : a < b => e[a] < e[b]
      /\ \A k \in 1 .. i - 1 : list[k].sig \notin mask => \E a \in 1 .. n : e[a] = k
      /\ \A k \in 1 .. i : k # i => k \in 1 .. i - 1
  BY <1>1 DEF Gathered
<1> HIDE DEF w
<1>3. CASE list[i].sig \in mask
  <2>1. Turn(list, mask, f, i) = w
    BY <1>1, <1>3 DEF Turn, w
  <2>2. e \in [1 .. n -> 1 .. i]
    BY <1>1, <1>2
  <2>3. Gathered(list, mask, w, i, e)
    BY <1>1, <1>2, <1>3, <2>2 DEF Gathered
  <2> QED
    BY <2>1, <2>3
<1>4. CASE list[i].sig \notin mask
  <2> DEFINE v == Append(w, list[i])
             d == [a \in 1 .. n + 1 |-> IF a = n + 1 THEN i ELSE e[a]]
  <2>1. Turn(list, mask, f, i) = v
    BY <1>1, <1>4 DEF Turn, w
  <2>2. v \in Seq(Entry) /\ Len(v) = n + 1 /\ v[n + 1] = list[i] /\ \A a \in 1 .. n : v[a] = w[a]
    BY <1>1, AppendProperties
  <2>3. \A a \in 1 .. n + 1 : a = n + 1 \/ a \in 1 .. n
    BY <1>1
  <2>4. d[n + 1] = i /\ \A a \in 1 .. n : d[a] = e[a] /\ a \in 1 .. n + 1 /\ a # n + 1
    BY <1>1
  <2>5. d \in [1 .. n + 1 -> 1 .. i]
    BY <1>1, <1>2, <2>3, <2>4
  <2> HIDE DEF v, d
  <2>6. \A a \in 1 .. n + 1 : v[a] = list[d[a]] /\ list[d[a]].sig \notin mask
    BY <1>2, <1>4, <2>2, <2>3, <2>4
  <2>7. ASSUME NEW a \in 1 .. n + 1, NEW b \in 1 .. n + 1, a < b
        PROVE  d[a] < d[b]
    <3>1. a \in 1 .. n
      BY <1>1, <2>7
    <3> QED
      BY <1>2, <2>3, <2>4, <2>7, <3>1
  <2>8. ASSUME NEW k \in 1 .. i, list[k].sig \notin mask
        PROVE  \E a \in 1 .. n + 1 : d[a] = k
    <3>1. CASE k = i
      <4>1. n + 1 \in 1 .. n + 1
        BY <1>1
      <4> QED
        BY <2>4, <3>1, <4>1
    <3>2. CASE k # i
      <4>1. PICK a \in 1 .. n : e[a] = k
        BY <1>2, <2>8, <3>2
      <4> QED
        BY <2>4, <4>1
    <3> QED
      BY <3>1, <3>2
  <2>9. Gathered(list, mask, v, i, d)
    BY <2>2, <2>5, <2>6, <2>7, <2>8 DEF Gathered
  <2> QED
    BY <2>1, <2>9
<1> QED
  BY <1>3, <1>4

\* What flush_sigqueue_mask leaves are the entries of other signals, in their order.
LEMMA WithoutIs ==
    ASSUME NEW list \in Seq(Entry), NEW mask
    PROVE  /\ Without(list, mask) \in Seq(Entry)
           /\ Sub(list, Without(list, mask), {k \in 1 .. Len(list) : list[k].sig \notin mask})
<1> DEFINE n == Len(list)
           F == CHOOSE f : f = [i \in 0 .. Len(list) |-> Turn(list, mask, f, i)]
<1>1. n \in Nat
  BY EntryAt
<1>2. F = [i \in 0 .. n |-> Turn(list, mask, F, i)]
  BY <1>1, LoopRuns
<1>3. Without(list, mask) = F[n]
  BY DEF Without, Turn
<1> HIDE DEF F
<1> DEFINE Good(i) == \E e : Gathered(list, mask, F[i], i, e)
           Bad == {i \in 0 .. n : ~Good(i)}
<1>4. Good(0)
  <2>1. F[0] = <<>>
    BY <1>1, <1>2 DEF Turn
  <2>2. <<>> \in Seq(Entry) /\ Len(<<>>) = 0 /\ 1 .. 0 = {}
    BY EmptySeq
  <2>3. Gathered(list, mask, <<>>, 0, [a \in {} |-> a])
    BY <2>2 DEF Gathered
  <2> QED
    BY <2>1, <2>3
<1>5. CASE Bad # {}
  <2>1. PICK m \in Bad : \A k \in Bad : m <= k
    <3>1. Bad \in SUBSET Nat
      BY <1>1
    <3> HIDE DEF Bad
    <3> QED
      BY <1>5, <3>1, LeastNatural
  <2>2. m \in 0 .. n /\ m # 0 /\ ~Good(m)
    BY <1>4, <2>1
  <2>3. m \in 1 .. n /\ m - 1 \in 0 .. n /\ m \in Nat
    BY <1>1, <2>2
  <2>4. Good(m - 1)
    BY <1>1, <2>1, <2>3
  <2>5. F[m] = Turn(list, mask, F, m)
    BY <1>2, <2>2
  <2> QED
    BY <2>2, <2>3, <2>4, <2>5, TurnGathers
<1>6. CASE Bad = {}
  <2>1. n \in 0 .. n
    BY <1>1
  <2>2. PICK e : Gathered(list, mask, F[n], n, e)
    BY <1>6, <2>1
  <2>3. F[n] \in Seq(Entry) /\ Sub(list, F[n], {k \in 1 .. n : list[k].sig \notin mask})
    BY <2>2 DEF Gathered, Sub
  <2> QED
    BY <1>3, <2>3
<1> QED
  BY <1>5, <1>6

-----------------------------------------------------------------------------
(* Pending signals *)

Listed(p) == \A i \in 1 .. Len(p.list) : p.list[i].sig \in p.signal

\* The entry of a fault comes before all others of its signal.
FaultFirst(p) ==
    \A i \in 1 .. Len(p.list) : p.list[i].positive =>
        p.list[i].sig = SIGSEGV /\ \A j \in 1 .. i - 1 : p.list[j].sig # SIGSEGV

Shrinks(p, q) ==
    /\ q \in Pending /\ q.signal \subseteq p.signal
    /\ \E K \in SUBSET (1 .. Len(p.list)) : Sub(p.list, q.list, K)

LEMMA PendingType ==
    ASSUME NEW p \in Pending
    PROVE  /\ p.signal \subseteq AllSignals /\ p.list \in Seq(Entry) /\ Len(p.list) \in Nat
           /\ DOMAIN p.list = 1 .. Len(p.list)
           /\ \A i \in 1 .. Len(p.list) : /\ p.list[i] \in Entry /\ p.list[i].sig \in AllSignals
                                          /\ p.list[i].prealloc \in BOOLEAN /\ p.list[i].positive \in BOOLEAN
<1>1. p.signal \subseteq AllSignals /\ p.list \in Seq(Entry)
  BY DEF Pending
<1>2. Len(p.list) \in Nat /\ DOMAIN p.list = 1 .. Len(p.list) /\ \A i \in 1 .. Len(p.list) : p.list[i] \in Entry
  BY <1>1, EntryAt
<1> QED
  BY <1>1, <1>2 DEF Entry

\* Each entry of a part of a queue was in the queue, and two of them stand there in the same order.
LEMMA ShrinkPlaces ==
    ASSUME NEW p \in Pending, NEW q, Shrinks(p, q)
    PROVE  \E e \in [1 .. Len(q.list) -> 1 .. Len(p.list)] :
               /\ \A a \in 1 .. Len(q.list) : q.list[a] = p.list[e[a]]
               /\ \A a, b \in 1 .. Len(q.list) : a < b => e[a] < e[b]
BY DEF Shrinks, Sub

LEMMA ShrinkSelf ==
    ASSUME NEW p \in Pending
    PROVE  Shrinks(p, p)
<1>1. Len(p.list) \in Nat
  BY PendingType
<1> DEFINE e == [a \in 1 .. Len(p.list) |-> a]
<1>2. /\ e \in [1 .. Len(p.list) -> 1 .. Len(p.list)] /\ \A a \in 1 .. Len(p.list) : e[a] = a
  OBVIOUS
<1> HIDE DEF e
<1>3. Sub(p.list, p.list, 1 .. Len(p.list))
  BY <1>1, <1>2 DEF Sub
<1> QED
  BY <1>3 DEF Shrinks

LEMMA ShrinkTwice ==
    ASSUME NEW p \in Pending, NEW q, NEW r, Shrinks(p, q), Shrinks(q, r)
    PROVE  Shrinks(p, r)
<1>1. PICK K \in SUBSET (1 .. Len(p.list)) : Sub(p.list, q.list, K)
  BY DEF Shrinks
<1>2. PICK L \in SUBSET (1 .. Len(q.list)) : Sub(q.list, r.list, L)
  BY DEF Shrinks
<1>3. PICK d \in [1 .. Len(q.list) -> 1 .. Len(p.list)] :
        /\ \A a \in 1 .. Len(q.list) : q.list[a] = p.list[d[a]]
        /\ \A a, b \in 1 .. Len(q.list) : a < b => d[a] < d[b]
  BY ShrinkPlaces
<1>4. PICK e \in [1 .. Len(r.list) -> 1 .. Len(q.list)] :
        /\ \A a \in 1 .. Len(r.list) : r.list[a] = q.list[e[a]]
        /\ \A a, b \in 1 .. Len(r.list) : a < b => e[a] < e[b]
  BY <1>2 DEF Sub
<1> DEFINE f == [a \in 1 .. Len(r.list) |-> d[e[a]]]
           J == {f[a] : a \in 1 .. Len(r.list)}
<1>5. \A a \in 1 .. Len(r.list) : f[a] = d[e[a]] /\ e[a] \in 1 .. Len(q.list) /\ f[a] \in 1 .. Len(p.list)
  BY <1>3, <1>4
<1>6. J \in SUBSET (1 .. Len(p.list)) /\ f \in [1 .. Len(r.list) -> 1 .. Len(p.list)]
  BY <1>5
<1>7. /\ \A a \in 1 .. Len(r.list) : r.list[a] = p.list[f[a]] /\ f[a] \in J
      /\ \A a, b \in 1 .. Len(r.list) : a < b => f[a] < f[b]
      /\ \A k \in J : \E a \in 1 .. Len(r.list) : f[a] = k
  BY <1>3, <1>4, <1>5
<1> HIDE DEF f, J
<1> QED
  BY <1>6, <1>7 DEF Shrinks, Sub

LEMMA ShrinkFaultFirst ==
    ASSUME NEW p \in Pending, NEW q, Shrinks(p, q), FaultFirst(p)
    PROVE  FaultFirst(q)
<1>1. PICK e \in [1 .. Len(q.list) -> 1 .. Len(p.list)] :
        /\ \A a \in 1 .. Len(q.list) : q.list[a] = p.list[e[a]]
        /\ \A a, b \in 1 .. Len(q.list) : a < b => e[a] < e[b]
  BY ShrinkPlaces
<1>2. Len(p.list) \in Nat /\ Len(q.list) \in Nat
  BY PendingType DEF Shrinks
<1> SUFFICES ASSUME NEW i \in 1 .. Len(q.list), q.list[i].positive
             PROVE  q.list[i].sig = SIGSEGV /\ \A j \in 1 .. i - 1 : q.list[j].sig # SIGSEGV
  BY DEF FaultFirst
<1>3. /\ p.list[e[i]].positive /\ e[i] \in 1 .. Len(p.list) /\ p.list[e[i]].sig = SIGSEGV
      /\ \A k \in 1 .. e[i] - 1 : p.list[k].sig # SIGSEGV
  BY <1>1 DEF FaultFirst
<1>4. ASSUME NEW j \in 1 .. i - 1
      PROVE  q.list[j].sig # SIGSEGV
  <2>1. j \in 1 .. Len(q.list) /\ j < i
    BY <1>2
  <2>2. e[j] \in 1 .. Len(p.list) /\ e[j] < e[i] /\ q.list[j] = p.list[e[j]]
    BY <1>1, <2>1
  <2>3. e[j] \in 1 .. e[i] - 1
    BY <1>2, <1>3, <2>2
  <2> QED
    BY <1>3, <2>2, <2>3
<1> QED
  BY <1>1, <1>3, <1>4

\* The first place of a list that passes a test.
LEMMA FirstPlace ==
    ASSUME NEW I \in SUBSET Nat
    PROVE  /\ I # {} => Min(I) \in I /\ \A j \in I : Min(I) <= j
           /\ (IF I # {} THEN Min(I) ELSE 0) \in I \cup {0}
<1>1. CASE I # {}
  <2>1. \E n \in I : \A j \in I : n <= j
    BY <1>1, LeastNatural
  <2> QED
    BY <1>1, <2>1 DEF Min
<1>2. CASE I = {}
  BY <1>2
<1> QED
  BY <1>1, <1>2

\* Removing the entry at place i, and its signal with the last entry of it.
LEMMA TakenOff ==
    ASSUME NEW p \in Pending, NEW i \in 1 .. Len(p.list), NEW signal \in SUBSET p.signal
    PROVE  LET q == [signal |-> signal, list |-> RemoveAt(p.list, i)] IN
           /\ Shrinks(p, q) /\ FreeAll(p.list) \in Nat
           /\ FreeAll(q.list) = FreeAll(p.list) - sigqueue_free1(p.list[i])
           /\ \A a \in 1 .. Len(q.list) : \E k \in (1 .. Len(p.list)) \ {i} : q.list[a] = p.list[k]
<1> DEFINE n == Len(p.list)
           q == [signal |-> signal, list |-> RemoveAt(p.list, i)]
           B == {k \in 1 .. n : ~p.list[k].prealloc}
           C == {k \in (1 .. n) \ {i} : ~p.list[k].prealloc}
<1>1. p.list \in Seq(Entry) /\ n \in Nat /\ p.signal \subseteq AllSignals /\ DOMAIN p.list = 1 .. n
  BY PendingType
<1>2. q.list \in Seq(Entry) /\ Sub(p.list, q.list, (1 .. n) \ {i})
  BY <1>1, RemovedAt
<1>3. q \in Pending
  BY <1>1, <1>2 DEF Pending
<1>4. Shrinks(p, q)
  BY <1>2, <1>3 DEF Shrinks
<1>5. FreeAll(q.list) = Cardinality(C)
  BY <1>1, <1>2, SubFree
<1>6. FreeAll(p.list) = Cardinality(B) /\ IsFiniteSet(B) /\ Cardinality(B) \in Nat
  BY <1>1, PlacesFinite DEF FreeAll
<1>7. Cardinality(C) = Cardinality(B) - sigqueue_free1(p.list[i])
  <2>1. CASE p.list[i].prealloc
    <3>1. C = B
      BY <2>1
    <3> HIDE DEF B, C
    <3> QED
      BY <1>6, <2>1, <3>1 DEF sigqueue_free1
  <2>2. CASE ~p.list[i].prealloc
    <3>1. C = B \ {i} /\ i \in B
      BY <2>2
    <3> HIDE DEF B, C
    <3> QED
      BY <1>6, <2>2, <3>1, FS_RemoveElement DEF sigqueue_free1
  <2> QED
    BY <2>1, <2>2
<1>8. \A a \in 1 .. Len(q.list) : \E k \in (1 .. n) \ {i} : q.list[a] = p.list[k]
  BY <1>2 DEF Sub
<1> HIDE DEF q, B, C
<1>9. FreeAll(q.list) = FreeAll(p.list) - sigqueue_free1(p.list[i]) /\ FreeAll(p.list) \in Nat
  BY <1>5, <1>6, <1>7
<1> QED
  BY <1>4, <1>8, <1>9 DEF q

LEMMA FreeAllType ==
    ASSUME NEW p \in Pending
    PROVE  FreeAll(p.list) \in Nat
<1>1. p.list \in Seq(Entry) /\ DOMAIN p.list = 1 .. Len(p.list)
  BY PendingType
<1> QED
  BY <1>1, PlacesFinite DEF FreeAll

LEMMA CollectIs ==
    ASSUME NEW p \in Pending, NEW sig
    PROVE  LET c == collect_signal(sig, p) IN
           /\ Shrinks(p, c.pending) /\ p.signal \ {sig} \subseteq c.pending.signal
           /\ c.freed \in Nat /\ FreeAll(c.pending.list) = FreeAll(p.list) - c.freed
           /\ c.timer \in BOOLEAN
           /\ Listed(p) => Listed(c.pending)
<1> DEFINE n == Len(p.list)
           I == {j \in 1 .. n : p.list[j].sig = sig}
           i == SelectInSeq(p.list, LAMBDA q : q.sig = sig)
           J == {j \in i + 1 .. n : p.list[j].sig = sig}
           more == i # 0 /\ SelectInSubSeq(p.list, i + 1, Len(p.list), LAMBDA q : q.sig = sig) # 0
           c == collect_signal(sig, p)
<1>1. p.list \in Seq(Entry) /\ n \in Nat /\ p.signal \subseteq AllSignals
  BY PendingType
<1>2. i = IF I # {} THEN Min(I) ELSE 0
  BY DEF SelectInSeq
<1>3. I \in SUBSET Nat
  BY <1>1
<1>4. (i = 0 /\ I = {}) \/ (i \in I /\ \A j \in I : i <= j)
  <2> HIDE DEF I, i
  <2> QED
    BY <1>2, <1>3, FirstPlace
<1>5. SelectInSubSeq(p.list, i + 1, Len(p.list), LAMBDA q : q.sig = sig) = IF J # {} THEN Min(J) ELSE 0
  BY DEF SelectInSubSeq
<1>6. c = [pending |-> [signal |-> IF more THEN p.signal ELSE p.signal \ {sig},
                        list |-> IF i = 0 THEN p.list ELSE RemoveAt(p.list, i)],
           freed |-> IF i = 0 THEN 0 ELSE sigqueue_free1(p.list[i]),
           timer |-> i # 0 /\ p.list[i].prealloc]
  BY DEF collect_signal
<1> HIDE DEF i
<1>7. i \in Nat
  BY <1>1, <1>4
<1> DEFINE more2 == i # 0 /\ J # {}
<1>8. more <=> more2
  <2>1. J \in SUBSET Nat /\ 0 \notin J
    BY <1>1, <1>7
  <2> HIDE DEF J
  <2>2. (IF J # {} THEN Min(J) ELSE 0) # 0 <=> J # {}
    BY <2>1, FirstPlace
  <2> QED
    BY <1>5, <2>2
<1> HIDE DEF c
<1> DEFINE signal == IF more2 THEN p.signal ELSE p.signal \ {sig}
<1>9. /\ c.pending = [signal |-> signal, list |-> IF i = 0 THEN p.list ELSE RemoveAt(p.list, i)]
      /\ c.freed = IF i = 0 THEN 0 ELSE sigqueue_free1(p.list[i])
      /\ c.timer = (i # 0 /\ p.list[i].prealloc)
  BY <1>6, <1>8
<1> HIDE DEF more
<1>10. CASE i = 0
  <2>1. I = {}
    BY <1>4, <1>10
  <2>2. signal = p.signal \ {sig} /\ c.pending = [signal |-> signal, list |-> p.list]
    BY <1>9, <1>10
  <2>3. c.pending \in Pending /\ c.pending.list = p.list /\ c.pending.signal = p.signal \ {sig}
    BY <1>1, <2>2 DEF Pending
  <2>4. Shrinks(p, c.pending)
    <3>1. Shrinks(p, p)
      BY ShrinkSelf
    <3> QED
      BY <2>3, <3>1 DEF Shrinks
  <2>5. Listed(p) => Listed(c.pending)
    BY <2>1, <2>3 DEF Listed
  <2>6. c.freed = 0 /\ c.timer \in BOOLEAN
    BY <1>9, <1>10
  <2>7. FreeAll(p.list) \in Nat
    BY FreeAllType
  <2> QED
    BY <2>3, <2>4, <2>5, <2>6, <2>7 DEF c
<1>11. CASE i # 0
  <2>1. i \in I /\ i \in 1 .. n /\ p.list[i].sig = sig /\ \A j \in I : i <= j
    BY <1>4, <1>11
  <2>2. signal \in SUBSET p.signal /\ p.signal \ {sig} \subseteq signal
    OBVIOUS
  <2>3. c.pending = [signal |-> signal, list |-> RemoveAt(p.list, i)] /\ c.freed = sigqueue_free1(p.list[i])
    BY <1>9, <1>11
  <2>4. /\ Shrinks(p, c.pending) /\ FreeAll(p.list) \in Nat
        /\ FreeAll(c.pending.list) = FreeAll(p.list) - sigqueue_free1(p.list[i])
        /\ \A a \in 1 .. Len(c.pending.list) : \E k \in (1 .. n) \ {i} : c.pending.list[a] = p.list[k]
    BY <2>1, <2>2, <2>3, TakenOff
  <2>5. ASSUME Listed(p), NEW a \in 1 .. Len(c.pending.list)
        PROVE  c.pending.list[a].sig \in c.pending.signal
    <3>1. PICK k \in (1 .. n) \ {i} : c.pending.list[a] = p.list[k]
      BY <2>4
    <3>2. p.list[k].sig \in p.signal
      BY <2>5 DEF Listed
    <3>3. p.list[k].sig = sig => k \in J
      BY <1>1, <2>1
    <3>4. p.list[k].sig \in signal
      BY <1>11, <3>2, <3>3
    <3> QED
      BY <2>3, <3>1, <3>4
  <2>6. Listed(p) => Listed(c.pending)
    BY <2>5 DEF Listed
  <2>7. c.freed \in Nat /\ c.timer \in BOOLEAN
    BY <1>9, <2>3 DEF sigqueue_free1
  <2>8. p.signal \ {sig} \subseteq c.pending.signal
    BY <2>2, <2>3
  <2> QED
    BY <2>3, <2>4, <2>6, <2>7, <2>8 DEF c
<1> QED
  BY <1>10, <1>11

LEMMA SynchronousIs ==
    ASSUME NEW p \in Pending, NEW blocked, SynchronousEntry(p, blocked) # 0
    PROVE  LET d == dequeue_synchronous_signal(p, blocked) IN
           /\ Shrinks(p, d.pending) /\ p.signal \ {d.sig} \subseteq d.pending.signal
           /\ d.freed \in Nat /\ FreeAll(d.pending.list) = FreeAll(p.list) - d.freed
           /\ d.sig \in AllSignals /\ d.sig \in SYNCHRONOUS_MASK /\ d.last \in BOOLEAN
           /\ ~d.last => d.pending.signal = p.signal
           /\ \E i \in 1 .. Len(p.list) : p.list[i].positive /\ p.list[i].sig = d.sig
           /\ FaultFirst(p) => \A a \in 1 .. Len(d.pending.list) : ~d.pending.list[a].positive
           /\ Listed(p) /\ FaultFirst(p) => Listed(d.pending)
<1> DEFINE n == Len(p.list)
           I == {j \in 1 .. n : p.list[j].positive /\ p.list[j].sig \in SYNCHRONOUS_MASK}
           i == SynchronousEntry(p, blocked)
           sig == p.list[i].sig
           J == {j \in i + 1 .. n : p.list[j].sig = sig}
           more == SelectInSubSeq(p.list, i + 1, Len(p.list), LAMBDA q : q.sig = sig) # 0
           d == dequeue_synchronous_signal(p, blocked)
<1>1. p.list \in Seq(Entry) /\ n \in Nat /\ p.signal \subseteq AllSignals
  BY PendingType
<1>2. i = SelectInSeq(p.list, LAMBDA q : q.positive /\ q.sig \in SYNCHRONOUS_MASK)
  BY DEF SynchronousEntry
<1>3. i = IF I # {} THEN Min(I) ELSE 0
  BY <1>2 DEF SelectInSeq
<1>4. i \in I /\ \A j \in I : i <= j
  <2>1. I \in SUBSET Nat
    BY <1>1
  <2> HIDE DEF I, i
  <2> QED
    BY <1>3, <2>1, FirstPlace DEF i
<1>5. SelectInSubSeq(p.list, i + 1, Len(p.list), LAMBDA q : q.sig = sig) = IF J # {} THEN Min(J) ELSE 0
  BY DEF SelectInSubSeq
<1>6. d = [pending |-> [signal |-> IF more THEN p.signal ELSE p.signal \ {sig}, list |-> RemoveAt(p.list, i)],
           freed |-> sigqueue_free1(p.list[i]), sig |-> sig, last |-> ~more]
  BY DEF dequeue_synchronous_signal
<1> HIDE DEF i, d
<1>7. /\ i \in 1 .. n /\ i \in Nat /\ p.list[i].positive /\ sig \in SYNCHRONOUS_MASK
      /\ sig \in AllSignals /\ p.list[i] \in Entry
  BY <1>1, <1>4, PendingType
<1>8. more <=> J # {}
  <2>1. J \in SUBSET Nat /\ 0 \notin J
    BY <1>1, <1>7
  <2> HIDE DEF J
  <2>2. (IF J # {} THEN Min(J) ELSE 0) # 0 <=> J # {}
    BY <2>1, FirstPlace
  <2> QED
    BY <1>5, <2>2
<1> DEFINE signal == IF J # {} THEN p.signal ELSE p.signal \ {sig}
<1>9. /\ d.pending = [signal |-> signal, list |-> RemoveAt(p.list, i)]
      /\ d.freed = sigqueue_free1(p.list[i]) /\ d.sig = sig /\ d.last = (J = {})
  BY <1>6, <1>8
<1> HIDE DEF more
<1>10. signal \in SUBSET p.signal /\ p.signal \ {sig} \subseteq signal
  OBVIOUS
<1>11. /\ Shrinks(p, d.pending) /\ FreeAll(p.list) \in Nat
       /\ FreeAll(d.pending.list) = FreeAll(p.list) - sigqueue_free1(p.list[i])
       /\ \A a \in 1 .. Len(d.pending.list) : \E k \in (1 .. n) \ {i} : d.pending.list[a] = p.list[k]
  <2>1. d.pending = [signal |-> signal, list |-> RemoveAt(p.list, i)] /\ signal \in SUBSET p.signal
    BY <1>9, <1>10
  <2> HIDE DEF signal
  <2> QED
    BY <1>7, <2>1, TakenOff
<1>12. ASSUME FaultFirst(p), NEW k \in (1 .. n) \ {i}
       PROVE  ~p.list[k].positive /\ (p.list[k].sig = sig => k \in J)
  <2>1. sig = SIGSEGV /\ \A j \in 1 .. i - 1 : p.list[j].sig # SIGSEGV
    BY <1>7, <1>12 DEF FaultFirst
  <2>2. k < i \/ k > i
    BY <1>1, <1>7
  <2>3. CASE k < i
    <3>1. k \in 1 .. i - 1
      BY <1>1, <1>7, <2>3
    <3>2. p.list[k].sig # SIGSEGV
      BY <2>1, <3>1
    <3> QED
      BY <1>12, <2>1, <3>2 DEF FaultFirst
  <2>4. CASE k > i
    <3>1. i \in 1 .. k - 1 /\ k \in i + 1 .. n
      BY <1>1, <1>7, <2>4
    <3> QED
      BY <1>12, <2>1, <3>1 DEF FaultFirst
  <2> QED
    BY <2>2, <2>3, <2>4
<1>13. FaultFirst(p) => \A a \in 1 .. Len(d.pending.list) : ~d.pending.list[a].positive
  BY <1>11, <1>12
<1>14. ASSUME Listed(p), FaultFirst(p), NEW a \in 1 .. Len(d.pending.list)
       PROVE  d.pending.list[a].sig \in d.pending.signal
  <2>1. PICK k \in (1 .. n) \ {i} : d.pending.list[a] = p.list[k]
    BY <1>11
  <2>2. p.list[k].sig \in p.signal
    BY <1>14 DEF Listed
  <2>3. p.list[k].sig = sig => k \in J
    BY <1>12, <1>14
  <2>4. p.list[k].sig \in signal
    BY <2>2, <2>3
  <2> QED
    BY <1>9, <2>1, <2>4
<1>15. Listed(p) /\ FaultFirst(p) => Listed(d.pending)
  BY <1>14 DEF Listed
<1>16. d.freed \in Nat /\ d.last \in BOOLEAN /\ (~d.last => d.pending.signal = p.signal)
  <2>1. d.freed \in Nat
    BY <1>9 DEF sigqueue_free1
  <2>2. d.last <=> J = {}
    BY <1>9
  <2>3. d.last \in BOOLEAN
    BY <1>9
  <2>4. d.pending.signal = signal
    BY <1>9
  <2> HIDE DEF J
  <2> QED
    BY <2>1, <2>2, <2>3, <2>4
<1>17. p.signal \ {d.sig} \subseteq d.pending.signal
  BY <1>9, <1>10
<1> HIDE DEF J
<1> QED
  BY <1>7, <1>9, <1>11, <1>13, <1>15, <1>16, <1>17 DEF d

LEMMA FlushMaskIs ==
    ASSUME NEW p \in Pending, NEW mask
    PROVE  LET f == flush_sigqueue_mask(mask, p) IN
           /\ Shrinks(p, f.pending) /\ f.pending.signal = p.signal \ mask
           /\ f.freed \in Nat /\ FreeAll(f.pending.list) = FreeAll(p.list) - f.freed
           /\ Listed(p) => Listed(f.pending)
<1> DEFINE n == Len(p.list)
           f == flush_sigqueue_mask(mask, p)
           w == Without(p.list, mask)
           B == {k \in 1 .. n : ~p.list[k].prealloc}
           C == {k \in {j \in 1 .. n : p.list[j].sig \notin mask} : ~p.list[k].prealloc}
           D == {k \in 1 .. n : p.list[k].sig \in mask /\ ~p.list[k].prealloc}
<1>1. p.list \in Seq(Entry) /\ n \in Nat /\ p.signal \subseteq AllSignals /\ DOMAIN p.list = 1 .. n
  BY PendingType
<1>2. FreeAll(p.list) \in Nat
  BY FreeAllType
<1>3. CASE mask \cap p.signal = {}
  <2>1. f = [pending |-> p, freed |-> 0]
    BY <1>3 DEF flush_sigqueue_mask
  <2>2. Shrinks(p, p) /\ p.signal = p.signal \ mask
    BY <1>3, ShrinkSelf
  <2> HIDE DEF f
  <2> QED
    BY <1>2, <2>1, <2>2 DEF f
<1>4. CASE mask \cap p.signal # {}
  <2>1. f.pending = [signal |-> p.signal \ mask, list |-> w] /\ f.freed = Cardinality(D)
    BY <1>1, <1>4 DEF flush_sigqueue_mask, Freed
  <2>2. w \in Seq(Entry) /\ Sub(p.list, w, {j \in 1 .. n : p.list[j].sig \notin mask})
    BY <1>1, WithoutIs
  <2>3. FreeAll(w) = Cardinality(C)
    BY <1>1, <2>2, SubFree
  <2>4. FreeAll(p.list) = Cardinality(B)
    BY <1>1 DEF FreeAll
  <2>5. Cardinality(B) = Cardinality(C) + Cardinality(D) /\ Cardinality(C) \in Nat /\ Cardinality(D) \in Nat
    <3>1. C \cup D = B /\ C \cap D = {}
      OBVIOUS
    <3>2. IsFiniteSet(C) /\ IsFiniteSet(D) /\ Cardinality(C) \in Nat /\ Cardinality(D) \in Nat
      BY <1>1, PlacesFinite
    <3> HIDE DEF B, C, D
    <3>3. Cardinality(C \cup D) = Cardinality(C) + Cardinality(D) - Cardinality(C \cap D)
      BY <3>2, FS_Union
    <3>4. Cardinality(C \cap D) = 0
      BY <3>1, FS_EmptySet
    <3>5. Cardinality(C \cup D) = Cardinality(B)
      BY <3>1
    <3> QED
      BY <3>2, <3>3, <3>4, <3>5
  <2> HIDE DEF f, w, B, C, D
  <2>6. f.pending \in Pending /\ f.pending.list = w /\ f.pending.signal = p.signal \ mask
    BY <1>1, <2>1, <2>2 DEF Pending
  <2>7. Shrinks(p, f.pending)
    BY <2>2, <2>6 DEF Shrinks
  <2>8. Listed(p) => Listed(f.pending)
    BY <2>2, <2>6 DEF Listed, Sub
  <2>9. f.freed \in Nat /\ FreeAll(f.pending.list) = FreeAll(p.list) - f.freed
    BY <2>1, <2>3, <2>4, <2>5, <2>6
  <2> QED
    BY <2>6, <2>7, <2>8, <2>9 DEF f
<1> QED
  BY <1>3, <1>4

\* A new entry at the end.
LEMMA EnqueueIs ==
    ASSUME NEW p \in Pending, NEW q \in Entry
    PROVE  LET r == Enqueue(p, q) IN
           /\ r \in Pending /\ r.signal = p.signal \cup {q.sig} /\ Len(r.list) = Len(p.list) + 1
           /\ r.list[Len(p.list) + 1] = q /\ \A i \in 1 .. Len(p.list) : r.list[i] = p.list[i]
           /\ FreeAll(r.list) = FreeAll(p.list) + sigqueue_free1(q)
           /\ Listed(p) => Listed(r)
<1> DEFINE n == Len(p.list)
           r == Enqueue(p, q)
           B == {k \in 1 .. n : ~p.list[k].prealloc}
           C == {k \in 1 .. n + 1 : ~r.list[k].prealloc}
<1>1. p.list \in Seq(Entry) /\ n \in Nat /\ p.signal \subseteq AllSignals /\ DOMAIN p.list = 1 .. n
  BY PendingType
<1>2. r = [signal |-> p.signal \cup {q.sig}, list |-> Append(p.list, q)] /\ q.sig \in AllSignals
  BY DEF Enqueue, Entry
<1>3. /\ Append(p.list, q) \in Seq(Entry) /\ Len(Append(p.list, q)) = n + 1 /\ Append(p.list, q)[n + 1] = q
      /\ \A i \in 1 .. n : Append(p.list, q)[i] = p.list[i]
  BY <1>1, AppendProperties
<1> HIDE DEF r
<1>4. /\ r \in Pending /\ r.signal = p.signal \cup {q.sig} /\ Len(r.list) = n + 1 /\ r.list[n + 1] = q
      /\ \A i \in 1 .. n : r.list[i] = p.list[i]
  BY <1>1, <1>2, <1>3 DEF Pending
<1>5. \A k \in 1 .. n + 1 : k = n + 1 \/ k \in 1 .. n
  BY <1>1
<1>6. n + 1 \notin 1 .. n /\ n + 1 \in 1 .. n + 1 /\ \A k \in 1 .. n : k \in 1 .. n + 1
  BY <1>1
<1>7. FreeAll(r.list) = Cardinality(C) /\ FreeAll(p.list) = Cardinality(B) /\ FreeAll(p.list) \in Nat
  BY <1>1, <1>4, PendingType, FreeAllType DEF FreeAll
<1>8. IsFiniteSet(B)
  BY <1>1, PlacesFinite
<1>9. Cardinality(C) = Cardinality(B) + sigqueue_free1(q)
  <2>1. CASE q.prealloc
    <3>1. C = B
      BY <1>4, <1>5, <1>6, <2>1
    <3> HIDE DEF B, C
    <3> QED
      BY <1>7, <2>1, <3>1 DEF sigqueue_free1
  <2>2. CASE ~q.prealloc
    <3>1. C = B \cup {n + 1} /\ n + 1 \notin B
      BY <1>4, <1>5, <1>6, <2>2
    <3> HIDE DEF B, C
    <3> QED
      BY <1>8, <2>2, <3>1, FS_AddElement DEF sigqueue_free1
  <2> QED
    BY <2>1, <2>2
<1>10. Listed(p) => Listed(r)
  BY <1>4, <1>5 DEF Listed
<1> HIDE DEF B, C
<1> QED
  BY <1>4, <1>7, <1>9, <1>10 DEF r

\* The timer gives up its entry.
LEMMA DisownIs ==
    ASSUME NEW p \in Pending
    PROVE  LET r == Disown(p) IN
           /\ r \in Pending /\ r.signal = p.signal /\ Len(r.list) = Len(p.list)
           /\ \A i \in 1 .. Len(p.list) : /\ r.list[i].sig = p.list[i].sig /\ ~r.list[i].prealloc
                                          /\ r.list[i].positive = p.list[i].positive
           /\ FreeAll(r.list) = Len(p.list)
           /\ Listed(p) => Listed(r)
<1> DEFINE n == Len(p.list)
           r == Disown(p)
           l == [i \in 1 .. n |-> [p.list[i] EXCEPT !.prealloc = FALSE]]
<1>1. p.list \in Seq(Entry) /\ n \in Nat /\ p.signal \subseteq AllSignals /\ DOMAIN p.list = 1 .. n
  BY PendingType
<1>2. \A i \in 1 .. n : p.list[i] \in Entry
  BY PendingType
<1>3. \A i \in 1 .. n : /\ l[i] \in Entry /\ l[i].sig = p.list[i].sig /\ l[i].prealloc = FALSE
                        /\ l[i].positive = p.list[i].positive
  BY <1>2 DEF Entry
<1>4. l \in Seq(Entry) /\ Len(l) = n
  <2>1. l \in [1 .. n -> Entry]
    BY <1>3
  <2> HIDE DEF l
  <2> QED
    BY <1>1, <2>1
<1>5. r = [p EXCEPT !.list = l]
  BY <1>1 DEF Disown
<1> HIDE DEF l, r
<1>6. r \in Pending /\ r.signal = p.signal /\ r.list = l
  BY <1>1, <1>4, <1>5 DEF Pending
<1>7. FreeAll(l) = n
  <2>1. {i \in 1 .. n : ~l[i].prealloc} = 1 .. n
    BY <1>3
  <2>2. Cardinality(1 .. n) = n
    BY <1>1, FS_Interval
  <2>3. DOMAIN l = 1 .. n
    BY <1>4, LenProperties
  <2> QED
    BY <2>1, <2>2, <2>3 DEF FreeAll
<1>8. Listed(p) => Listed(r)
  BY <1>3, <1>4, <1>6 DEF Listed
<1> QED
  BY <1>3, <1>4, <1>6, <1>7, <1>8 DEF r

-----------------------------------------------------------------------------
(* The inductive invariant, part by part, of a group g, the threads' local state r and, where it *)
(* matters, the last stop or continue signal j *)

ExitPcs == {"exit", "exitlock", "exitnotify", "exited", "dead"}
LoopPcs == {"stopped", "stopnotify", "relock", "notify", "loop"}
Pcs == ExitPcs \cup LoopPcs \cup {"user", "out", "pause", "sigwait", "rearm", "orphan", "stop", "restore",
                                  "deliver", "segv", "fatal"}
Run == [pc : Pcs, sig : AllSignals \cup {0}, saved : (SUBSET Signo) \cup {NULL}, which : SUBSET AllSignals,
        ka : Action, why : {"none", "stopped", "continued"}]

Stopped(g) == {t \in Threads : g.task[t].state = "stopped"}
Joining(g) == {t \in Threads : "STOP_PENDING" \in g.task[t].jobctl}

\* What the place u of a thread in the code says about its task a.
LinkAt(a, u) ==
    /\ u.pc = "dead" <=> a.state = "dead"
    /\ a.state = "stopped" => u.pc \in {"stopped", "stopnotify"}
    /\ a.state = "interruptible" => u.pc \in {"pause", "sigwait"}
    /\ a.exiting <=> u.pc \in {"exitnotify", "exited", "dead"}
    /\ u.pc \in {"rearm", "deliver"} => u.sig # 0
    /\ u.pc \in {"stopnotify", "exitnotify"} => u.why = "stopped"
    /\ a.state = "dead" => a.pending = EmptyPending /\ a.jobctl = {}

\* No mask, kept or used, holds SIGKILL or SIGSTOP.
MaskAt(a, u) ==
    /\ a.blocked \cap SIG_KERNEL_ONLY_MASK = {} /\ a.real_blocked \cap SIG_KERNEL_ONLY_MASK = {}
    /\ u.which \cap SIG_KERNEL_ONLY_MASK = {}
    /\ u.saved # NULL => u.saved \cap SIG_KERNEL_ONLY_MASK = {}

\* A thread that has taken its SIGKILL, or exits by itself.
Dying(u) == u.pc \in ExitPcs \cup {"fatal"} \/ (u.pc = "rearm" /\ u.sig = SIGKILL)

\* A task of a group that exits: not stopped, and on its way out or with SIGKILL pending.
DeathAt(a, u) ==
    /\ a.state # "stopped"
    /\ Dying(u) \/ (SIGKILL \in a.pending.signal /\ a.tif)
    /\ u.pc \in ExitPcs \ {"exitlock"} \/ "STOP_PENDING" \notin a.jobctl

Death(g, r) ==
    signal_group_exit(g) => g.flags = {"GROUP_EXIT"} /\ \A t \in Threads : DeathAt(g.task[t], r[t])

\* A group stop: whoever has to join knows it, and while one is on every thread is in it.
StopAt(a) ==
    /\ "STOP_PENDING" \in a.jobctl <=> "STOP_CONSUME" \in a.jobctl
    /\ "STOP_PENDING" \in a.jobctl => a.tif /\ ~a.exiting /\ a.state # "stopped"

StopInv(g) ==
    ~signal_group_exit(g) =>
        /\ g.group_stop_count = Cardinality(Joining(g))
        /\ \A t \in Threads : StopAt(g.task[t])
        /\ Joining(g) # {} => Stopped(g) # {}
        /\ "STOP_STOPPED" \in g.flags => Stopped(g) # {} /\ Joining(g) = {}
        /\ Stopped(g) # {} => /\ \A t \in Threads : g.task[t].exiting \/ t \in Stopped(g) \cup Joining(g)
                              /\ Joining(g) # {} \/ "STOP_STOPPED" \in g.flags

\* Only a thread that is past its last look has SIGKILL pending and no group exit.
KillInv(g) == ~signal_group_exit(g) => \A t \in Threads : SIGKILL \in g.task[t].pending.signal => g.task[t].exiting

\* After SIGCONT nothing is left of a stop, in the queues either.
ContInv(g, j) ==
    j = "cont" /\ ~signal_group_exit(g) =>
        /\ g.shared.signal \cap SIG_KERNEL_STOP_MASK = {}
        /\ \A t \in Threads : /\ g.task[t].jobctl = {} /\ g.task[t].state # "stopped"
                              /\ g.task[t].pending.signal \cap SIG_KERNEL_STOP_MASK = {}

Good(g, r, j) ==
    /\ g \in Group /\ g.action[SIGKILL].handler = "SIG_DFL"
    /\ \A t \in Threads : LinkAt(g.task[t], r[t]) /\ MaskAt(g.task[t], r[t])
    /\ Death(g, r) /\ StopInv(g) /\ ContInv(g, j)

ToldInv(g, r, last) ==
    "STOP_STOPPED" \in g.flags => last = "stopped" \/ \E t \in Threads : r[t].pc \in {"stopnotify", "exitnotify"}

\* The leader is the last to go, after its parent was told.
GoneInv(g, last) ==
    /\ last = "exited" => Members(g) \subseteq {leader}
    /\ g.task[leader].state = "dead" => Members(g) = {}

\* The queue of a thread, or of the process (0).
QueueOf(g, x) == IF x = 0 THEN g.shared ELSE g.task[x].pending
Queues == Threads \cup {0}
PreallocAt(g, x, i) == i \in 1 .. Len(QueueOf(g, x).list) /\ QueueOf(g, x).list[i].prealloc

LockInv == \A t \in Threads : siglock = t <=> run[t].pc = "loop"

-----------------------------------------------------------------------------
(* Steps that leave a group stop and a group exit as they are *)

\* From a and u to b and v.
CalmAt(dying, a, u, b, v) ==
    /\ b.exiting = a.exiting
    /\ b.state = "stopped" <=> a.state = "stopped"
    /\ "STOP_PENDING" \in b.jobctl => "STOP_PENDING" \in a.jobctl
    /\ ~dying => /\ "STOP_PENDING" \in b.jobctl <=> "STOP_PENDING" \in a.jobctl
                 /\ "STOP_CONSUME" \in b.jobctl <=> "STOP_CONSUME" \in a.jobctl
                 /\ "STOP_PENDING" \in b.jobctl /\ a.tif => b.tif
    /\ dying => /\ Dying(u) => Dying(v)
                /\ u.pc \in ExitPcs \ {"exitlock"} => v.pc \in ExitPcs \ {"exitlock"}
                /\ \/ Dying(v)
                   \/ SIGKILL \in a.pending.signal /\ a.tif => SIGKILL \in b.pending.signal /\ b.tif

Calm(g, r, h, q) ==
    /\ h \in Group /\ h.flags = g.flags /\ h.group_stop_count = g.group_stop_count
    /\ h.action[SIGKILL].handler = "SIG_DFL"
    /\ \A t \in Threads : LinkAt(h.task[t], q[t]) /\ MaskAt(h.task[t], q[t])
    /\ \A t \in Threads : CalmAt(signal_group_exit(g), g.task[t], r[t], h.task[t], q[t])

LEMMA CalmGood ==
    ASSUME NEW g, NEW r, NEW h, NEW q, NEW j, Good(g, r, j), Calm(g, r, h, q), ContInv(h, j)
    PROVE  Good(h, q, j) /\ signal_group_exit(h) = signal_group_exit(g)
<1>1. h.flags = g.flags /\ (signal_group_exit(h) <=> signal_group_exit(g))
  BY DEF Calm, signal_group_exit
<1>2. Death(h, q)
  <2> SUFFICES ASSUME signal_group_exit(h)
               PROVE  h.flags = {"GROUP_EXIT"} /\ \A t \in Threads : DeathAt(h.task[t], q[t])
    BY DEF Death
  <2>1. signal_group_exit(g) /\ g.flags = {"GROUP_EXIT"} /\ \A t \in Threads : DeathAt(g.task[t], r[t])
    BY <1>1 DEF Good, Death
  <2>2. ASSUME NEW t \in Threads
        PROVE  DeathAt(h.task[t], q[t])
    <3>1. CalmAt(TRUE, g.task[t], r[t], h.task[t], q[t])
      BY <2>1 DEF Calm
    <3>2. DeathAt(g.task[t], r[t])
      BY <2>1
    <3> QED
      BY <3>1, <3>2 DEF CalmAt, DeathAt
  <2> QED
    BY <1>1, <2>1, <2>2
<1>3. StopInv(h)
  <2> SUFFICES ASSUME ~signal_group_exit(h)
               PROVE  StopInv(h)
    BY DEF StopInv
  <2>1. ~signal_group_exit(g) /\ StopInv(g)
    BY <1>1 DEF Good
  <2>2. \A t \in Threads : CalmAt(FALSE, g.task[t], r[t], h.task[t], q[t])
    <3>1. signal_group_exit(g) = FALSE
      BY <2>1 DEF signal_group_exit
    <3> QED
      BY <3>1 DEF Calm
  <2>3. Stopped(h) = Stopped(g) /\ Joining(h) = Joining(g)
    BY <2>2 DEF Stopped, Joining, CalmAt
  <2>4. \A t \in Threads : StopAt(g.task[t])
    BY <2>1 DEF StopInv
  <2>5. ASSUME NEW t \in Threads
        PROVE  StopAt(h.task[t])
    <3>1. StopAt(g.task[t]) /\ CalmAt(FALSE, g.task[t], r[t], h.task[t], q[t])
      BY <2>2, <2>4
    <3> QED
      BY <3>1 DEF StopAt, CalmAt
  <2>6. \A t \in Threads : h.task[t].exiting = g.task[t].exiting
    BY <2>2 DEF CalmAt
  <2>7. h.group_stop_count = g.group_stop_count
    BY DEF Calm
  <2> QED
    BY <1>1, <2>1, <2>3, <2>5, <2>6, <2>7 DEF StopInv
<1>4. h \in Group /\ h.action[SIGKILL].handler = "SIG_DFL"
      /\ \A t \in Threads : LinkAt(h.task[t], q[t]) /\ MaskAt(h.task[t], q[t])
  BY DEF Calm
<1>5. signal_group_exit(h) = signal_group_exit(g)
  BY <1>1 DEF signal_group_exit
<1> QED
  BY <1>2, <1>3, <1>4, <1>5 DEF Good

-----------------------------------------------------------------------------
(* What the operators on a task and on the group do *)

LEMMA GroupType ==
    ASSUME NEW g \in Group
    PROVE  /\ g.task \in [Threads -> Task] /\ g.shared \in Pending /\ g.flags \subseteq GroupFlags
           /\ g.group_stop_count \in Nat /\ g.curr_target \in Threads /\ g.action \in [AllSignals -> Action]
           /\ g.sigpending \in Int /\ g.timer \in BOOLEAN
           /\ \A t \in Threads : g.task[t] \in Task
BY DEF Group

LEMMA TaskType ==
    ASSUME NEW a \in Task
    PROVE  /\ a.state \in {"running", "interruptible", "stopped", "dead"} /\ a.tif \in BOOLEAN
           /\ a.blocked \subseteq Signo /\ a.real_blocked \subseteq Signo /\ a.jobctl \subseteq JobctlBits
           /\ a.exiting \in BOOLEAN /\ a.pending \in Pending
BY DEF Task

\* Everything of a task but its state, TIF_SIGPENDING and its queue stays.
SameTask(a, b) ==
    /\ b \in Task /\ b.exiting = a.exiting /\ b.jobctl = a.jobctl
    /\ b.blocked = a.blocked /\ b.real_blocked = a.real_blocked

LEMMA WakeIs ==
    ASSUME NEW a \in Task, NEW dies \in BOOLEAN
    PROVE  LET b == signal_wake_up(a, dies) IN
           /\ SameTask(a, b) /\ b.pending = a.pending /\ b.tif = TRUE
           /\ b.state = IF a.state = "interruptible" \/ (dies /\ a.state = "stopped") THEN "running" ELSE a.state
BY DEF signal_wake_up, Task, SameTask

LEMMA ContinueIs ==
    ASSUME NEW a \in Task
    PROVE  LET b == Continue(a) IN
           /\ b \in Task /\ b.exiting = a.exiting /\ b.jobctl = {} /\ b.blocked = a.blocked /\ b.tif = a.tif
           /\ b.real_blocked = a.real_blocked /\ b.pending = a.pending
           /\ b.state = IF a.state = "stopped" THEN "running" ELSE a.state
BY DEF Continue, task_clear_jobctl_pending, Task

LEMMA SetOnlyIs ==
    ASSUME NEW p \in Pending, NEW sig \in AllSignals
    PROVE  /\ SetOnly(p, sig) \in Pending /\ SetOnly(p, sig).signal = p.signal \cup {sig}
           /\ SetOnly(p, sig).list = p.list
           /\ Listed(p) => Listed(SetOnly(p, sig))
           /\ FaultFirst(p) => FaultFirst(SetOnly(p, sig))
<1>1. /\ SetOnly(p, sig) \in Pending /\ SetOnly(p, sig).signal = p.signal \cup {sig}
      /\ SetOnly(p, sig).list = p.list
  BY DEF SetOnly, Pending
<1> QED
  BY <1>1 DEF Listed, FaultFirst

LEMMA DoomedIs ==
    ASSUME NEW a \in Task
    PROVE  LET b == Doomed(a) IN
           /\ b \in Task /\ b.exiting = a.exiting /\ b.jobctl = {} /\ b.blocked = a.blocked /\ b.tif = TRUE
           /\ b.real_blocked = a.real_blocked /\ b.pending = SetOnly(a.pending, SIGKILL)
           /\ b.state = IF a.state \in {"interruptible", "stopped"} THEN "running" ELSE a.state
<1> DEFINE c == [[a EXCEPT !.jobctl = {}] EXCEPT !.pending = SetOnly(@, SIGKILL)]
<1>1. SetOnly(a.pending, SIGKILL) \in Pending
  BY SetOnlyIs, SignalNumbers, TaskType
<1>2. /\ c \in Task /\ c.exiting = a.exiting /\ c.jobctl = {} /\ c.blocked = a.blocked /\ c.tif = a.tif
      /\ c.real_blocked = a.real_blocked /\ c.pending = SetOnly(a.pending, SIGKILL) /\ c.state = a.state
  BY <1>1 DEF Task
<1>3. Doomed(a) = signal_wake_up(c, TRUE)
  BY DEF Doomed, task_clear_jobctl_pending
<1> HIDE DEF c
<1> DEFINE b == signal_wake_up(c, TRUE)
<1>4. /\ SameTask(c, b) /\ b.pending = c.pending /\ b.tif = TRUE
      /\ b.state = IF c.state = "interruptible" \/ (TRUE /\ c.state = "stopped") THEN "running" ELSE c.state
  BY <1>2, WakeIs
<1> HIDE DEF b
<1>5. b.state = IF a.state \in {"interruptible", "stopped"} THEN "running" ELSE a.state
  BY <1>2, <1>4
<1>6. b \in Task /\ b.exiting = c.exiting /\ b.jobctl = c.jobctl /\ b.blocked = c.blocked
      /\ b.real_blocked = c.real_blocked
  BY <1>4 DEF SameTask
<1> QED
  BY <1>2, <1>3, <1>4, <1>5, <1>6 DEF b

\* Replacing a task.
LEMMA SetTaskIs ==
    ASSUME NEW g \in Group, NEW t \in Threads, NEW a \in Task
    PROVE  LET h == SetTask(g, t, a) IN
           /\ h \in Group /\ h = [g EXCEPT !.task = [g.task EXCEPT ![t] = a]]
           /\ h.task[t] = a /\ \A u \in Threads : u # t => h.task[u] = g.task[u]
           /\ h.shared = g.shared /\ h.flags = g.flags /\ h.group_stop_count = g.group_stop_count
           /\ h.curr_target = g.curr_target /\ h.action = g.action /\ h.sigpending = g.sigpending
           /\ h.timer = g.timer
BY DEF SetTask, Group

LEMMA EveryTaskIs ==
    /\ \A g \in Group : LET h == EveryTask(g, Continue) IN
           /\ h \in Group /\ h = [g EXCEPT !.task = h.task]
           /\ \A u \in Threads : h.task[u] = IF u \in Members(g) THEN Continue(g.task[u]) ELSE g.task[u]
    /\ \A g \in Group : LET h == EveryTask(g, Doomed) IN
           /\ h \in Group /\ h = [g EXCEPT !.task = h.task]
           /\ \A u \in Threads : h.task[u] = IF u \in Members(g) THEN Doomed(g.task[u]) ELSE g.task[u]
<1>1. ASSUME NEW g \in Group
      PROVE  LET h == EveryTask(g, Continue) IN
             /\ h \in Group /\ h = [g EXCEPT !.task = h.task]
             /\ \A u \in Threads : h.task[u] = IF u \in Members(g) THEN Continue(g.task[u]) ELSE g.task[u]
  <2> DEFINE T == [u \in Threads |-> IF u \in Members(g) THEN Continue(g.task[u]) ELSE g.task[u]]
  <2>1. EveryTask(g, Continue) = [g EXCEPT !.task = T]
    BY DEF EveryTask
  <2>2. \A u \in Threads : g.task[u] \in Task /\ Continue(g.task[u]) \in Task
    BY GroupType, ContinueIs
  <2>3. T \in [Threads -> Task]
    BY <2>2
  <2> HIDE DEF T
  <2>4. [g EXCEPT !.task = T] \in Group /\ [g EXCEPT !.task = T].task = T
    BY <2>3 DEF Group
  <2> QED
    BY <2>1, <2>4 DEF T
<1>2. ASSUME NEW g \in Group
      PROVE  LET h == EveryTask(g, Doomed) IN
             /\ h \in Group /\ h = [g EXCEPT !.task = h.task]
             /\ \A u \in Threads : h.task[u] = IF u \in Members(g) THEN Doomed(g.task[u]) ELSE g.task[u]
  <2> DEFINE T == [u \in Threads |-> IF u \in Members(g) THEN Doomed(g.task[u]) ELSE g.task[u]]
  <2>1. EveryTask(g, Doomed) = [g EXCEPT !.task = T]
    BY DEF EveryTask
  <2>2. \A u \in Threads : g.task[u] \in Task /\ Doomed(g.task[u]) \in Task
    BY GroupType, DoomedIs
  <2>3. T \in [Threads -> Task]
    BY <2>2
  <2> HIDE DEF T
  <2>4. [g EXCEPT !.task = T] \in Group /\ [g EXCEPT !.task = T].task = T
    BY <2>3 DEF Group
  <2> QED
    BY <2>1, <2>4 DEF T
<1> QED
  BY <1>1, <1>2

\* What is the same in two groups that differ in their tasks only.
LEMMA OnlyTasks ==
    ASSUME NEW g \in Group, NEW h, h = [g EXCEPT !.task = h.task]
    PROVE  /\ h.shared = g.shared /\ h.flags = g.flags /\ h.group_stop_count = g.group_stop_count
           /\ h.curr_target = g.curr_target /\ h.action = g.action /\ h.sigpending = g.sigpending
           /\ h.timer = g.timer
<1> DEFINE T == h.task
<1>1. h = [g EXCEPT !.task = T]
  OBVIOUS
<1> HIDE DEF T
<1> QED
  BY <1>1 DEF Group

\* Flushing signals from every queue.
LEMMA FlushAllIs ==
    ASSUME NEW g \in Group, NEW mask
    PROVE  LET h == FlushAll(g, mask) IN
           /\ h \in Group /\ h.flags = g.flags /\ h.group_stop_count = g.group_stop_count
           /\ h.curr_target = g.curr_target /\ h.action = g.action /\ h.timer = g.timer
           /\ h.shared = flush_sigqueue_mask(mask, g.shared).pending
           /\ \A t \in Threads : /\ SameTask(g.task[t], h.task[t])
                                 /\ h.task[t].state = g.task[t].state /\ h.task[t].tif = g.task[t].tif
                                 /\ h.task[t].pending = flush_sigqueue_mask(mask, g.task[t].pending).pending
           /\ LET freed == [t \in Threads |-> flush_sigqueue_mask(mask, g.task[t].pending).freed]
              IN h.sigpending = g.sigpending - flush_sigqueue_mask(mask, g.shared).freed - Total(freed, Threads)
<1> DEFINE s == flush_sigqueue_mask(mask, g.shared)
           f == [t \in Threads |-> flush_sigqueue_mask(mask, g.task[t].pending)]
           freed == [t \in Threads |-> f[t].freed]
           F == [t \in Threads |-> flush_sigqueue_mask(mask, g.task[t].pending).freed]
           T == [t \in Threads |-> [g.task[t] EXCEPT !.pending = f[t].pending]]
           m == g.sigpending - s.freed - MapThenSumSet(LAMBDA t : freed[t], Threads)
           h == FlushAll(g, mask)
<1>1. s.pending \in Pending /\ s.freed \in Nat
  BY FlushMaskIs, GroupType DEF Shrinks
<1>2. ASSUME NEW t \in Threads
      PROVE  g.task[t] \in Task /\ f[t].pending \in Pending /\ f[t].freed \in Nat
  <2>1. g.task[t] \in Task /\ g.task[t].pending \in Pending
    BY GroupType, TaskType
  <2> QED
    BY <2>1, FlushMaskIs DEF Shrinks
<1>3. freed = F
  OBVIOUS
<1>4. freed \in [Threads -> Int]
  BY <1>2
<1>5. Total(freed, Threads) \in Int
  <2> HIDE DEF freed
  <2>1. leader \in Threads /\ IsFiniteSet(Threads) /\ \A y \in Threads \ {leader} : freed[y] = freed[y]
    BY ThreadsFinite
  <2> QED
    BY <1>4, <2>1, TotalChange
<1>6. m = g.sigpending - s.freed - Total(freed, Threads)
  BY DEF Total
<1>7. m \in Int
  <2>1. g.sigpending \in Int
    BY GroupType
  <2> HIDE DEF m, s, freed
  <2> QED
    BY <1>1, <1>5, <1>6, <2>1
<1>8. h = [g EXCEPT !.shared = s.pending, !.task = T, !.sigpending = m]
  BY DEF FlushAll
<1>9. \A t \in Threads : /\ T[t] \in Task /\ SameTask(g.task[t], T[t]) /\ T[t].state = g.task[t].state
                         /\ T[t].tif = g.task[t].tif /\ T[t].pending = f[t].pending
  BY <1>2 DEF Task, SameTask
<1>10. T \in [Threads -> Task]
  BY <1>9
<1> HIDE DEF T, m, s, h
<1>11. /\ h \in Group /\ h.flags = g.flags /\ h.group_stop_count = g.group_stop_count
       /\ h.curr_target = g.curr_target /\ h.action = g.action /\ h.timer = g.timer
       /\ h.shared = s.pending /\ h.task = T /\ h.sigpending = m
  BY <1>1, <1>7, <1>8, <1>10 DEF Group
<1>12. \A t \in Threads : f[t] = flush_sigqueue_mask(mask, g.task[t].pending)
  OBVIOUS
<1>13. h.sigpending = g.sigpending - s.freed - Total(F, Threads)
  BY <1>3, <1>6, <1>11
<1> HIDE DEF f, F, freed
<1> QED
  BY <1>9, <1>11, <1>12, <1>13 DEF h, s, F

-----------------------------------------------------------------------------
(* Sending a signal, and the stop and the exit of the group *)

\* A task that others have woken, or whose queue or flag has changed.
Touched(a, b) ==
    /\ SameTask(a, b)
    /\ b.state = a.state \/ (a.state = "interruptible" /\ b.state = "running")
    /\ a.state = "dead" => b.pending = a.pending
    /\ a.tif => b.tif \/ ("STOP_PENDING" \notin b.jobctl /\ SIGKILL \notin b.pending.signal)
    /\ SIGKILL \in a.pending.signal => SIGKILL \in b.pending.signal

LEMMA TouchedIsCalm ==
    ASSUME NEW a, NEW b, NEW u, NEW dying, LinkAt(a, u), MaskAt(a, u), Touched(a, b)
    PROVE  LinkAt(b, u) /\ MaskAt(b, u) /\ CalmAt(dying, a, u, b, u)
<1>1. LinkAt(b, u)
  BY DEF Touched, SameTask, LinkAt
<1>2. MaskAt(b, u)
  BY DEF Touched, SameTask, MaskAt
<1>3. CalmAt(dying, a, u, b, u)
  BY DEF Touched, SameTask, CalmAt
<1> QED
  BY <1>1, <1>2, <1>3

\* A step that touches tasks only.
TouchedAll(g, h) ==
    /\ h \in Group /\ h.flags = g.flags /\ h.group_stop_count = g.group_stop_count
    /\ h.action[SIGKILL].handler = "SIG_DFL"
    /\ \A t \in Threads : Touched(g.task[t], h.task[t])

LEMMA TouchedGood ==
    ASSUME NEW g, NEW r, NEW h, NEW j, Good(g, r, j), TouchedAll(g, h),
           ~signal_group_exit(g) /\ j = "cont" =>
               /\ h.shared.signal \cap SIG_KERNEL_STOP_MASK = {}
               /\ \A t \in Threads : h.task[t].pending.signal \cap SIG_KERNEL_STOP_MASK = {}
    PROVE  Good(h, r, j) /\ signal_group_exit(h) = signal_group_exit(g)
<1>1. \A t \in Threads : LinkAt(g.task[t], r[t]) /\ MaskAt(g.task[t], r[t])
  BY DEF Good
<1>2. Calm(g, r, h, r)
  <2>1. \A t \in Threads : Touched(g.task[t], h.task[t])
    BY DEF TouchedAll
  <2>2. \A t \in Threads : /\ LinkAt(h.task[t], r[t]) /\ MaskAt(h.task[t], r[t])
                           /\ CalmAt(signal_group_exit(g), g.task[t], r[t], h.task[t], r[t])
    BY <1>1, <2>1, TouchedIsCalm
  <2> QED
    BY <2>2 DEF Calm, TouchedAll
<1>3. ContInv(h, j)
  <2> SUFFICES ASSUME j = "cont", ~signal_group_exit(h)
               PROVE  \A t \in Threads : h.task[t].jobctl = {} /\ h.task[t].state # "stopped"
    <3>1. signal_group_exit(h) <=> signal_group_exit(g)
      BY DEF TouchedAll, signal_group_exit
    <3> QED
      BY <3>1 DEF ContInv
  <2>1. ContInv(g, j) /\ ~signal_group_exit(g)
    BY DEF Good, TouchedAll, signal_group_exit
  <2> QED
    BY <2>1 DEF ContInv, TouchedAll, Touched, SameTask
<1> QED
  BY <1>2, <1>3, CalmGood

JobAfter(j, sig) == IF sig \in SIG_KERNEL_STOP_MASK THEN "stop" ELSE IF sig = SIGCONT THEN "cont" ELSE j

LEMMA FlushEmpty == \A mask : flush_sigqueue_mask(mask, EmptyPending).pending = EmptyPending
BY DEF flush_sigqueue_mask, EmptyPending

\* The queues only lose signals.
LEMMA FlushGood ==
    ASSUME NEW g, NEW r, NEW j, Good(g, r, j), NEW mask, SIGKILL \notin mask
    PROVE  LET h == FlushAll(g, mask) IN
           /\ TouchedAll(g, h) /\ Good(h, r, j) /\ signal_group_exit(h) = signal_group_exit(g)
           /\ h.shared.signal = g.shared.signal \ mask
           /\ \A t \in Threads : /\ h.task[t].pending.signal = g.task[t].pending.signal \ mask
                                 /\ h.task[t].state = g.task[t].state /\ h.task[t].tif = g.task[t].tif
<1> DEFINE h == FlushAll(g, mask)
<1>1. g \in Group /\ g.action[SIGKILL].handler = "SIG_DFL"
  BY DEF Good
<1>2. /\ h \in Group /\ h.flags = g.flags /\ h.group_stop_count = g.group_stop_count
      /\ h.action = g.action /\ h.shared = flush_sigqueue_mask(mask, g.shared).pending
      /\ \A t \in Threads : /\ SameTask(g.task[t], h.task[t])
                            /\ h.task[t].state = g.task[t].state /\ h.task[t].tif = g.task[t].tif
                            /\ h.task[t].pending = flush_sigqueue_mask(mask, g.task[t].pending).pending
  BY <1>1, FlushAllIs
<1> HIDE DEF h
<1>3. h.shared.signal = g.shared.signal \ mask
  BY <1>1, <1>2, FlushMaskIs, GroupType
<1>4. ASSUME NEW t \in Threads
      PROVE  h.task[t].pending.signal = g.task[t].pending.signal \ mask
  <2>1. g.task[t].pending \in Pending
    BY <1>1, GroupType, TaskType
  <2> QED
    BY <1>2, <2>1, FlushMaskIs
<1>5. ASSUME NEW t \in Threads
      PROVE  Touched(g.task[t], h.task[t])
  <2>1. g.task[t].state = "dead" => h.task[t].pending = g.task[t].pending
    <3>1. g.task[t].state = "dead" => g.task[t].pending = EmptyPending
      BY DEF Good, LinkAt
    <3> QED
      BY <1>2, <3>1, FlushEmpty
  <2>2. SIGKILL \in g.task[t].pending.signal => SIGKILL \in h.task[t].pending.signal
    BY <1>4
  <2> QED
    BY <1>2, <2>1, <2>2 DEF Touched
<1>6. TouchedAll(g, h)
  BY <1>1, <1>2, <1>5 DEF TouchedAll
<1>7. ~signal_group_exit(g) /\ j = "cont" =>
          /\ h.shared.signal \cap SIG_KERNEL_STOP_MASK = {}
          /\ \A t \in Threads : h.task[t].pending.signal \cap SIG_KERNEL_STOP_MASK = {}
  BY <1>3, <1>4 DEF Good, ContInv
<1>8. Good(h, r, j) /\ signal_group_exit(h) = signal_group_exit(g)
  BY <1>6, <1>7, TouchedGood
<1> QED
  BY <1>2, <1>3, <1>4, <1>6, <1>8 DEF h

\* The queues have lost the signals of mask, some threads may have been continued.
PreparedAt(mask, a, b) ==
    /\ b.exiting = a.exiting /\ b.blocked = a.blocked /\ b.real_blocked = a.real_blocked /\ b.tif = a.tif
    /\ b.state = a.state \/ (a.state = "stopped" /\ b.state = "running")
    /\ b.pending = flush_sigqueue_mask(mask, a.pending).pending

Prepared(g, h, mask) ==
    /\ h \in Group /\ SIGKILL \notin mask
    /\ h.action = g.action /\ h.timer = g.timer /\ signal_group_exit(h) = signal_group_exit(g)
    /\ "STOP_STOPPED" \in h.flags => "STOP_STOPPED" \in g.flags
    /\ h.shared = flush_sigqueue_mask(mask, g.shared).pending
    /\ h.sigpending = FlushAll(g, mask).sigpending
    /\ \A t \in Threads : PreparedAt(mask, g.task[t], h.task[t])

LEMMA FlushPrepared ==
    ASSUME NEW g, NEW r, NEW j, Good(g, r, j), NEW mask, SIGKILL \notin mask
    PROVE  Prepared(g, FlushAll(g, mask), mask)
<1> DEFINE h == FlushAll(g, mask)
<1>1. g \in Group
  BY DEF Good
<1>2. /\ h \in Group /\ h.flags = g.flags /\ h.timer = g.timer
      /\ h.action = g.action /\ h.shared = flush_sigqueue_mask(mask, g.shared).pending
      /\ \A t \in Threads : /\ SameTask(g.task[t], h.task[t])
                            /\ h.task[t].state = g.task[t].state /\ h.task[t].tif = g.task[t].tif
                            /\ h.task[t].pending = flush_sigqueue_mask(mask, g.task[t].pending).pending
  BY <1>1, FlushAllIs
<1> HIDE DEF h
<1>3. \A t \in Threads : PreparedAt(mask, g.task[t], h.task[t])
  BY <1>2 DEF PreparedAt, SameTask
<1>4. signal_group_exit(h) = signal_group_exit(g)
  BY <1>2 DEF signal_group_exit
<1> QED
  BY <1>2, <1>3, <1>4 DEF Prepared, h

LEMMA NothingPrepared ==
    ASSUME NEW g, NEW r, NEW j, Good(g, r, j)
    PROVE  Prepared(g, g, {})
<1>1. \A p : flush_sigqueue_mask({}, p).pending = p /\ flush_sigqueue_mask({}, p).freed = 0
  BY DEF flush_sigqueue_mask
<1>2. g \in Group
  BY DEF Good
<1> DEFINE F == [t \in Threads |-> flush_sigqueue_mask({}, g.task[t].pending).freed]
           Z == [t \in Threads |-> 0]
<1>3. FlushAll(g, {}).sigpending = g.sigpending - 0 - Total(F, Threads)
  BY <1>1, <1>2, FlushAllIs
<1>4. F = Z
  BY <1>1
<1>5. Total(Z, Threads) = 0
  <2>1. Z \in [Threads -> Int] /\ IsFiniteSet(Threads) /\ \A t \in Threads : Z[t] = Z[t] + Z[t]
    BY ThreadsFinite
  <2> HIDE DEF Z
  <2>2. Total(Z, Threads) \in Int /\ Total(Z, Threads) = Total(Z, Threads) + Total(Z, Threads)
    BY <2>1, TotalAdd
  <2>3. \A x \in Int : x = x + x => x = 0
    OBVIOUS
  <2> QED
    BY <2>2, <2>3, Zenon
<1>6. FlushAll(g, {}).sigpending = g.sigpending
  <2>1. g.sigpending \in Int /\ FlushAll(g, {}).sigpending = g.sigpending - 0 - Total(Z, Threads)
    BY <1>2, <1>3, <1>4, GroupType
  <2> HIDE DEF Z
  <2> QED
    BY <1>5, <2>1
<1>7. \A t \in Threads : PreparedAt({}, g.task[t], g.task[t])
  BY <1>1 DEF PreparedAt
<1> QED
  BY <1>1, <1>2, <1>6, <1>7 DEF Prepared

LEMMA DeadIsEmpty ==
    ASSUME NEW g, NEW r, NEW j, Good(g, r, j), NEW t \in Threads, g.task[t].state = "dead"
    PROVE  g.task[t].pending = EmptyPending /\ g.task[t].jobctl = {}
BY DEF Good, LinkAt

\* SIGCONT ends a group stop, begun or done.
LEMMA ContinueGood ==
    ASSUME NEW g, NEW r, NEW j, Good(g, r, j), ~signal_group_exit(g)
    PROVE  LET h == prepare_signal(g, SIGCONT) IN
           Good(h, r, "cont") /\ Prepared(g, h, SIG_KERNEL_STOP_MASK) /\ "STOP_STOPPED" \notin h.flags
<1> DEFINE f == FlushAll(g, SIG_KERNEL_STOP_MASK)
           new == EveryTask(f, Continue)
           why == IF "STOP_STOPPED" \in g.flags THEN {"CLD_CONTINUED"}
                  ELSE IF g.group_stop_count # 0 THEN {"CLD_STOPPED"} ELSE {}
           h == prepare_signal(g, SIGCONT)
<1>1. SIGKILL \notin SIG_KERNEL_STOP_MASK /\ SIGCONT \notin SIG_KERNEL_STOP_MASK
  BY DEF SIG_KERNEL_STOP_MASK, SIGKILL, SIGSTOP, SIGTSTP, SIGCONT
<1>2. g \in Group /\ StopInv(g)
  BY DEF Good
<1>3. /\ TouchedAll(g, f) /\ Good(f, r, j) /\ signal_group_exit(f) = signal_group_exit(g)
      /\ f.shared.signal = g.shared.signal \ SIG_KERNEL_STOP_MASK
      /\ \A t \in Threads : f.task[t].pending.signal = g.task[t].pending.signal \ SIG_KERNEL_STOP_MASK
  BY <1>1, FlushGood
<1>4. Prepared(g, f, SIG_KERNEL_STOP_MASK)
  BY <1>1, FlushPrepared
<1>5. f \in Group /\ f.flags = g.flags /\ f.group_stop_count = g.group_stop_count
  BY <1>3 DEF TouchedAll
<1>6. /\ h = IF why = {} THEN new
             ELSE [new EXCEPT !.flags = signal_set_stop_flags(@, why \cup {"STOP_CONTINUED"}),
                              !.group_stop_count = 0]
  BY <1>1 DEF prepare_signal
<1> HIDE DEF f
<1>7. /\ new \in Group /\ new = [f EXCEPT !.task = new.task]
      /\ \A u \in Threads : new.task[u] = IF u \in Members(f) THEN Continue(f.task[u]) ELSE f.task[u]
  BY <1>5, EveryTaskIs
<1> HIDE DEF new
<1>8. /\ new.shared = f.shared /\ new.flags = g.flags /\ new.group_stop_count = g.group_stop_count
      /\ new.action = f.action /\ new.sigpending = f.sigpending /\ new.timer = f.timer
  BY <1>5, <1>7, OnlyTasks
<1>9. g.group_stop_count = 0 /\ "STOP_STOPPED" \notin g.flags => why = {}
  OBVIOUS
<1>10. signal_set_stop_flags(g.flags, why \cup {"STOP_CONTINUED"}) \subseteq GroupFlags \ {"STOP_STOPPED", "GROUP_EXIT"}
  BY <1>2 DEF signal_set_stop_flags, signal_group_exit, GroupFlags
<1>11. why = {} => g.group_stop_count = 0 /\ "STOP_STOPPED" \notin g.flags
  OBVIOUS
<1> HIDE DEF why
<1>12. /\ h \in Group /\ h.group_stop_count = 0 /\ "STOP_STOPPED" \notin h.flags /\ ~signal_group_exit(h)
       /\ h.shared = f.shared /\ h.action = f.action /\ h.sigpending = f.sigpending /\ h.timer = f.timer
       /\ h.task = new.task
  <2>1. CASE why = {}
    BY <1>6, <1>7, <1>8, <1>11, <2>1 DEF signal_group_exit
  <2>2. CASE why # {}
    <3> DEFINE fl == signal_set_stop_flags(g.flags, why \cup {"STOP_CONTINUED"})
    <3>1. h = [new EXCEPT !.flags = fl, !.group_stop_count = 0] /\ fl \subseteq GroupFlags
          /\ "STOP_STOPPED" \notin fl /\ "GROUP_EXIT" \notin fl
      BY <1>6, <1>8, <1>10, <2>2
    <3> HIDE DEF fl, h
    <3> QED
      BY <1>7, <1>8, <3>1 DEF Group, signal_group_exit
  <2> QED
    BY <2>1, <2>2
<1> HIDE DEF h
<1>13. ASSUME NEW t \in Threads
       PROVE  /\ h.task[t].jobctl = {} /\ h.task[t].state # "stopped"
              /\ h.task[t].pending = f.task[t].pending /\ h.task[t].exiting = f.task[t].exiting
              /\ h.task[t].blocked = f.task[t].blocked /\ h.task[t].real_blocked = f.task[t].real_blocked
              /\ h.task[t].tif = f.task[t].tif
              /\ h.task[t].state = IF f.task[t].state = "stopped" THEN "running" ELSE f.task[t].state
  <2>1. f.task[t] \in Task
    BY <1>5, GroupType
  <2>2. CASE t \in Members(f)
    BY <1>7, <1>12, <2>1, <2>2, ContinueIs
  <2>3. CASE t \notin Members(f)
    <3>1. f.task[t].state = "dead"
      BY <2>3 DEF Members
    <3> QED
      BY <1>3, <1>7, <1>12, <2>3, <3>1, DeadIsEmpty
  <2> QED
    BY <2>2, <2>3
<1>14. ASSUME NEW t \in Threads
       PROVE  LinkAt(h.task[t], r[t]) /\ MaskAt(h.task[t], r[t])
  <2>1. LinkAt(f.task[t], r[t]) /\ MaskAt(f.task[t], r[t])
    BY <1>3 DEF Good
  <2> QED
    BY <1>13, <2>1 DEF LinkAt, MaskAt
<1>15. StopInv(h)
  <2>1. Joining(h) = {} /\ Stopped(h) = {}
    BY <1>13 DEF Joining, Stopped
  <2>2. Cardinality({}) = 0
    BY FS_EmptySet
  <2>3. \A t \in Threads : StopAt(h.task[t])
    BY <1>13 DEF StopAt
  <2> QED
    BY <1>12, <2>1, <2>2, <2>3 DEF StopInv
<1>16. ContInv(h, "cont")
  BY <1>3, <1>12, <1>13 DEF ContInv
<1>17. Death(h, r)
  BY <1>12 DEF Death
<1>18. h.action[SIGKILL].handler = "SIG_DFL"
  BY <1>3, <1>12 DEF Good
<1>19. Good(h, r, "cont")
  BY <1>12, <1>14, <1>15, <1>16, <1>17, <1>18 DEF Good
<1>20. Prepared(g, h, SIG_KERNEL_STOP_MASK)
  <2>1. \A t \in Threads : PreparedAt(SIG_KERNEL_STOP_MASK, g.task[t], h.task[t])
    BY <1>4, <1>13 DEF Prepared, PreparedAt
  <2>2. signal_group_exit(h) = signal_group_exit(g)
    BY <1>12 DEF signal_group_exit
  <2>3. f.sigpending = FlushAll(g, SIG_KERNEL_STOP_MASK).sigpending
    BY DEF f
  <2> QED
    BY <1>4, <1>12, <2>1, <2>2, <2>3 DEF Prepared
<1> QED
  BY <1>12, <1>19, <1>20 DEF h

LEMMA PrepareGood ==
    ASSUME NEW g, NEW r, NEW j, Good(g, r, j), NEW sig
    PROVE  LET h == prepare_signal(g, sig) IN
           Good(h, r, JobAfter(j, sig)) /\ \E mask : Prepared(g, h, mask)
<1>1. CASE signal_group_exit(g)
  <2>1. prepare_signal(g, sig) = g
    BY <1>1 DEF prepare_signal
  <2>2. Good(g, r, JobAfter(j, sig))
    BY <1>1 DEF Good, ContInv
  <2> QED
    BY <2>1, <2>2, NothingPrepared
<1>2. CASE ~signal_group_exit(g) /\ sig \in SIG_KERNEL_STOP_MASK
  <2>1. prepare_signal(g, sig) = FlushAll(g, {SIGCONT})
    BY <1>2 DEF prepare_signal
  <2>2. SIGKILL \notin {SIGCONT}
    BY DEF SIGKILL, SIGCONT
  <2>3. Good(FlushAll(g, {SIGCONT}), r, j)
    BY <2>2, FlushGood
  <2>4. Good(FlushAll(g, {SIGCONT}), r, "stop")
    BY <2>3 DEF Good, ContInv
  <2> QED
    BY <1>2, <2>1, <2>2, <2>4, FlushPrepared DEF JobAfter
<1>3. CASE ~signal_group_exit(g) /\ sig \notin SIG_KERNEL_STOP_MASK /\ sig = SIGCONT
  BY <1>3, ContinueGood DEF JobAfter
<1>4. CASE ~signal_group_exit(g) /\ sig \notin SIG_KERNEL_STOP_MASK /\ sig # SIGCONT
  <2>1. prepare_signal(g, sig) = g /\ JobAfter(j, sig) = j
    BY <1>4 DEF prepare_signal, JobAfter
  <2> QED
    BY <2>1, NothingPrepared
<1> QED
  BY <1>1, <1>2, <1>3, <1>4

\* k is g with pending as the queue of p, or of the process; only user->sigpending may change too.
Put(g, k, p, shared, pending) ==
    /\ k \in Group /\ k.flags = g.flags /\ k.group_stop_count = g.group_stop_count
    /\ k.action = g.action /\ k.timer = g.timer /\ k.curr_target = g.curr_target
    /\ k.shared = IF shared THEN pending ELSE g.shared
    /\ \A t \in Threads : IF ~shared /\ t = p
                          THEN k.task[t] = [g.task[t] EXCEPT !.pending = pending]
                          ELSE k.task[t] = g.task[t]

LEMMA PutIs ==
    ASSUME NEW g \in Group, NEW p \in Threads, NEW shared \in BOOLEAN, NEW pending \in Pending, NEW m \in Int
    PROVE  LET a == PutPending(g, p, shared, pending)
               b == [a EXCEPT !.sigpending = m]
           IN /\ Put(g, a, p, shared, pending) /\ a.sigpending = g.sigpending
              /\ Put(g, b, p, shared, pending) /\ b.sigpending = m
<1> DEFINE T == [g.task EXCEPT ![p] = [g.task[p] EXCEPT !.pending = pending]]
           a == PutPending(g, p, shared, pending)
           b == [a EXCEPT !.sigpending = m]
<1>1. g.task \in [Threads -> Task] /\ g.task[p] \in Task
  BY GroupType
<1>2. [g.task[p] EXCEPT !.pending = pending] \in Task
  BY <1>1 DEF Task
<1>3. T \in [Threads -> Task] /\ T[p] = [g.task[p] EXCEPT !.pending = pending]
      /\ \A t \in Threads : t # p => T[t] = g.task[t]
  BY <1>1, <1>2
<1>4. CASE shared
  <2>1. a = [g EXCEPT !.shared = pending]
    BY <1>4 DEF PutPending
  <2> HIDE DEF a
  <2>2. a \in Group /\ Put(g, a, p, shared, pending) /\ a.sigpending = g.sigpending
    BY <1>4, <2>1 DEF Group, Put
  <2>3. Put(g, b, p, shared, pending) /\ b.sigpending = m
    BY <1>4, <2>2 DEF Group, Put
  <2> QED
    BY <2>2, <2>3 DEF a
<1>5. CASE ~shared
  <2>1. a = [g EXCEPT !.task = T]
    BY <1>5 DEF PutPending
  <2> HIDE DEF a, T
  <2>2. /\ a \in Group /\ a.flags = g.flags /\ a.group_stop_count = g.group_stop_count
        /\ a.action = g.action /\ a.timer = g.timer /\ a.curr_target = g.curr_target
        /\ a.shared = g.shared /\ a.task = T /\ a.sigpending = g.sigpending
    BY <1>3, <2>1 DEF Group
  <2>3. /\ b \in Group /\ b.flags = g.flags /\ b.group_stop_count = g.group_stop_count
        /\ b.action = g.action /\ b.timer = g.timer /\ b.curr_target = g.curr_target
        /\ b.shared = g.shared /\ b.task = T /\ b.sigpending = m
    BY <2>2 DEF Group
  <2> HIDE DEF b
  <2>4. Put(g, a, p, shared, pending) /\ Put(g, b, p, shared, pending)
    BY <1>3, <1>5, <2>2, <2>3 DEF Put
  <2> QED
    BY <2>2, <2>3, <2>4 DEF a, b
<1> QED
  BY <1>4, <1>5

LEMMA PutPlain ==
    ASSUME NEW g \in Group, NEW p \in Threads, NEW shared \in BOOLEAN, NEW pending \in Pending
    PROVE  LET a == PutPending(g, p, shared, pending)
           IN Put(g, a, p, shared, pending) /\ a.sigpending = g.sigpending
<1>1. 0 \in Int
  OBVIOUS
<1>2. LET a == PutPending(g, p, shared, pending)
          b == [a EXCEPT !.sigpending = 0]
      IN /\ Put(g, a, p, shared, pending) /\ a.sigpending = g.sigpending
         /\ Put(g, b, p, shared, pending) /\ b.sigpending = 0
  BY <1>1, PutIs
<1> QED
  BY <1>2

\* The queue that Put replaces is that of a live task, or of the process.
LEMMA PutTouches ==
    ASSUME NEW g \in Group, NEW k, NEW p \in Members(g), NEW shared \in BOOLEAN, NEW pending \in Pending,
           Put(g, k, p, shared, pending), g.action[SIGKILL].handler = "SIG_DFL",
           PendingOf(g, p, shared).signal \subseteq pending.signal
    PROVE  /\ TouchedAll(g, k)
           /\ \A t \in Threads : /\ k.task[t].tif = g.task[t].tif /\ k.task[t].state = g.task[t].state
                                 /\ k.task[t].pending = IF ~shared /\ t = p THEN pending ELSE g.task[t].pending
<1>1. p \in Threads /\ g.task[p].state # "dead"
  BY DEF Members
<1>2. ASSUME NEW t \in Threads
      PROVE  /\ Touched(g.task[t], k.task[t])
             /\ k.task[t].tif = g.task[t].tif /\ k.task[t].state = g.task[t].state
             /\ k.task[t].pending = IF ~shared /\ t = p THEN pending ELSE g.task[t].pending
  <2>1. g.task[t] \in Task /\ k.task[t] \in Task
    BY GroupType DEF Put
  <2>2. CASE ~shared /\ t = p
    <3>1. k.task[t] = [g.task[t] EXCEPT !.pending = pending] /\ g.task[t].pending.signal \subseteq pending.signal
      BY <2>2 DEF Put, PendingOf
    <3>2. /\ SameTask(g.task[t], k.task[t]) /\ k.task[t].tif = g.task[t].tif
          /\ k.task[t].state = g.task[t].state /\ k.task[t].pending = pending
      BY <2>1, <3>1 DEF SameTask, Task
    <3> QED
      BY <1>1, <2>2, <3>1, <3>2 DEF Touched
  <2>3. CASE ~(~shared /\ t = p)
    <3>1. k.task[t] = g.task[t]
      BY <2>3 DEF Put
    <3> QED
      BY <2>1, <2>3, <3>1 DEF Touched, SameTask
  <2> QED
    BY <2>2, <2>3
<1> QED
  BY <1>2 DEF TouchedAll, Put

LEMMA PutGood ==
    ASSUME NEW g, NEW r, NEW j, Good(g, r, j), NEW k, NEW p \in Members(g), NEW shared \in BOOLEAN, NEW sig,
           NEW pending \in Pending, Put(g, k, p, shared, pending),
           pending.signal = PendingOf(g, p, shared).signal \cup {sig}, sig \in SIG_KERNEL_STOP_MASK => j # "cont"
    PROVE  Good(k, r, j) /\ TouchedAll(g, k) /\ signal_group_exit(k) = signal_group_exit(g)
<1>1. g \in Group /\ g.action[SIGKILL].handler = "SIG_DFL"
  BY DEF Good
<1>2. /\ TouchedAll(g, k)
      /\ \A t \in Threads : k.task[t].pending = IF ~shared /\ t = p THEN pending ELSE g.task[t].pending
  BY <1>1, PutTouches
<1>3. k.shared = IF shared THEN pending ELSE g.shared
  BY DEF Put
<1>4. ASSUME ~signal_group_exit(g), j = "cont"
      PROVE  /\ k.shared.signal \cap SIG_KERNEL_STOP_MASK = {}
             /\ \A t \in Threads : k.task[t].pending.signal \cap SIG_KERNEL_STOP_MASK = {}
  <2>1. /\ g.shared.signal \cap SIG_KERNEL_STOP_MASK = {}
        /\ \A t \in Threads : g.task[t].pending.signal \cap SIG_KERNEL_STOP_MASK = {}
    BY <1>4 DEF Good, ContInv
  <2>2. pending.signal \cap SIG_KERNEL_STOP_MASK = {}
    BY <1>4, <2>1 DEF PendingOf, Members
  <2> QED
    BY <1>2, <1>3, <2>1, <2>2
<1> QED
  BY <1>2, <1>4, TouchedGood

\* The thread that complete_signal wakes.
LEMMA TargetIs ==
    ASSUME NEW g \in Group, NEW sig, NEW p \in Members(g), NEW shared \in BOOLEAN, NEW cpu
    PROVE  LET t == Target(g, sig, p, shared, cpu) IN
           \/ /\ t = NULL /\ ~wants_signal(g, sig, p, cpu)
              /\ shared => \A u \in Members(g) : ~wants_signal(g, sig, u, cpu)
           \/ t \in Members(g) /\ t # NULL /\ wants_signal(g, sig, t, cpu) /\ (shared \/ t = p)
<1> DEFINE able == {t \in Members(g) : wants_signal(g, sig, t, cpu)}
           t == Target(g, sig, p, shared, cpu)
<1>1. t = IF p \in able THEN p
          ELSE IF ~shared \/ thread_group_empty(g) \/ able = {} THEN NULL ELSE FirstFrom(g.curr_target, able)
  BY DEF Target
<1>2. NULL \notin Threads /\ Members(g) \subseteq Threads /\ able \subseteq Threads /\ able \subseteq Members(g)
  BY SignalsConstants DEF Members
<1>3. thread_group_empty(g) => Members(g) = {p}
  <2> SUFFICES ASSUME Cardinality(Members(g)) = 1
               PROVE  Members(g) = {p}
    BY DEF thread_group_empty
  <2>1. IsFiniteSet(Members(g))
    BY <1>2, ThreadsFinite, FS_Subset
  <2> QED
    BY <2>1, FS_Singleton
<1>4. able # {} => FirstFrom(g.curr_target, able) \in able
  BY <1>2, FirstIsMember, GroupType
<1>5. \A u \in Members(g) : u \in able <=> wants_signal(g, sig, u, cpu)
  OBVIOUS
<1> HIDE DEF able, t
<1> QED
  BY <1>1, <1>2, <1>3, <1>4, <1>5 DEF t

\* The group exit starts: SIGKILL for every task.
Doom(g, h) ==
    /\ h \in Group /\ h.flags = {"GROUP_EXIT"} /\ h.group_stop_count = 0
    /\ h.shared = g.shared /\ h.action = g.action /\ h.sigpending = g.sigpending /\ h.timer = g.timer
    /\ \A t \in Threads : h.task[t] = IF t \in Members(g) THEN Doomed(g.task[t]) ELSE g.task[t]

\* Only t has been woken.
WokenOne(g, h, t, dies) ==
    /\ h \in Group /\ h.flags = g.flags /\ h.group_stop_count = g.group_stop_count
    /\ h.shared = g.shared /\ h.action = g.action /\ h.sigpending = g.sigpending /\ h.timer = g.timer
    /\ h.task[t] = signal_wake_up(g.task[t], dies)
    /\ \A u \in Threads : u # t => h.task[u] = g.task[u]

Fatal(g, sig, t) ==
    /\ sig_fatal(g, sig) /\ ~signal_group_exit(g)
    /\ sig \notin g.task[t].real_blocked /\ ~sig_kernel_coredump(sig)

LEMMA CompleteIs ==
    ASSUME NEW g \in Group, NEW sig, NEW p \in Members(g), NEW shared \in BOOLEAN, NEW cpu
    PROVE  LET t == Target(g, sig, p, shared, cpu)
               h == complete_signal(g, sig, p, shared, cpu)
           IN \/ t = NULL /\ h = g
              \/ t # NULL /\ Fatal(g, sig, t) /\ Doom(g, h)
              \/ t # NULL /\ ~Fatal(g, sig, t) /\ WokenOne(g, h, t, sig = SIGKILL)
<1> DEFINE t == Target(g, sig, p, shared, cpu)
           h == complete_signal(g, sig, p, shared, cpu)
           new == [g EXCEPT !.curr_target = IF t = p THEN @ ELSE t]
           doom == [new EXCEPT !.flags = {"GROUP_EXIT"}, !.group_stop_count = 0]
<1>1. h = IF t = NULL THEN g
          ELSE IF Fatal(g, sig, t) THEN EveryTask(doom, Doomed)
          ELSE SetTask(new, t, signal_wake_up(new.task[t], sig = SIGKILL))
  BY DEF complete_signal, Fatal
<1>2. t = NULL \/ t \in Threads
  <2>1. Members(g) \subseteq Threads
    BY DEF Members
  <2> QED
    BY <2>1, TargetIs
<1> HIDE DEF t, h
<1>3. CASE t = NULL
  BY <1>1, <1>3 DEF t, h
<1>4. CASE t # NULL
  <2>1. /\ new \in Group /\ new.task = g.task /\ new.shared = g.shared /\ new.flags = g.flags
        /\ new.group_stop_count = g.group_stop_count /\ new.action = g.action
        /\ new.sigpending = g.sigpending /\ new.timer = g.timer
    BY <1>2, <1>4 DEF Group
  <2> HIDE DEF new
  <2>2. CASE Fatal(g, sig, t)
    <3>1. /\ doom \in Group /\ doom.task = g.task /\ doom.shared = g.shared /\ doom.flags = {"GROUP_EXIT"}
          /\ doom.group_stop_count = 0 /\ doom.action = g.action
          /\ doom.sigpending = g.sigpending /\ doom.timer = g.timer
      BY <2>1 DEF Group, GroupFlags
    <3> HIDE DEF doom
    <3>2. h = EveryTask(doom, Doomed)
      BY <1>1, <1>4, <2>2
    <3>3. /\ h \in Group /\ h = [doom EXCEPT !.task = h.task]
          /\ \A u \in Threads : h.task[u] = IF u \in Members(doom) THEN Doomed(doom.task[u]) ELSE doom.task[u]
      BY <3>1, <3>2, EveryTaskIs
    <3>4. /\ h.shared = doom.shared /\ h.flags = doom.flags /\ h.group_stop_count = doom.group_stop_count
          /\ h.action = doom.action /\ h.sigpending = doom.sigpending /\ h.timer = doom.timer
      BY <3>1, <3>3, OnlyTasks
    <3>5. Members(doom) = Members(g)
      BY <3>1 DEF Members
    <3>6. Doom(g, h)
      BY <3>1, <3>3, <3>4, <3>5 DEF Doom
    <3> QED
      BY <1>4, <2>2, <3>6 DEF t, h
  <2>3. CASE ~Fatal(g, sig, t)
    <3> DEFINE a == signal_wake_up(new.task[t], sig = SIGKILL)
    <3>1. new.task[t] \in Task
      BY <1>2, <1>4, <2>1, GroupType
    <3>2. a \in Task
      BY <3>1, WakeIs DEF SameTask
    <3>3. h = SetTask(new, t, a) /\ a = signal_wake_up(g.task[t], sig = SIGKILL)
      BY <1>1, <1>4, <2>1, <2>3
    <3> HIDE DEF a
    <3>4. WokenOne(g, h, t, sig = SIGKILL)
      BY <1>2, <1>4, <2>1, <3>2, <3>3, SetTaskIs DEF WokenOne
    <3> QED
      BY <1>4, <2>3, <3>4 DEF t, h
  <2> QED
    BY <2>2, <2>3
<1> QED
  BY <1>3, <1>4

\* A group exit leaves nobody out.
LEMMA DoomGood ==
    ASSUME NEW g, NEW r, NEW j, Good(g, r, j), NEW h, Doom(g, h)
    PROVE  Good(h, r, j) /\ signal_group_exit(h)
<1>1. g \in Group
  BY DEF Good
<1>2. signal_group_exit(h)
  BY DEF Doom, signal_group_exit
<1>3. ASSUME NEW t \in Threads
      PROVE  LinkAt(h.task[t], r[t]) /\ MaskAt(h.task[t], r[t]) /\ DeathAt(h.task[t], r[t])
  <2>1. g.task[t] \in Task /\ LinkAt(g.task[t], r[t]) /\ MaskAt(g.task[t], r[t])
    BY <1>1, GroupType DEF Good
  <2>2. CASE t \in Members(g)
    <3>1. g.task[t].state # "dead" /\ h.task[t] = Doomed(g.task[t])
      BY <2>2 DEF Members, Doom
    <3>2. /\ h.task[t].exiting = g.task[t].exiting /\ h.task[t].jobctl = {}
          /\ h.task[t].blocked = g.task[t].blocked /\ h.task[t].tif = TRUE
          /\ h.task[t].real_blocked = g.task[t].real_blocked
          /\ h.task[t].pending = SetOnly(g.task[t].pending, SIGKILL)
          /\ h.task[t].state = IF g.task[t].state \in {"interruptible", "stopped"} THEN "running"
                               ELSE g.task[t].state
      BY <2>1, <3>1, DoomedIs
    <3>3. SIGKILL \in h.task[t].pending.signal
      BY <2>1, <3>2, SetOnlyIs, SignalNumbers, TaskType
    <3>4. h.task[t].state \notin {"stopped", "interruptible"} /\ (h.task[t].state = "dead" <=> g.task[t].state = "dead")
      BY <2>1, <3>1, <3>2, TaskType
    <3>5. LinkAt(h.task[t], r[t])
      BY <2>1, <3>1, <3>2, <3>4 DEF LinkAt
    <3>6. MaskAt(h.task[t], r[t])
      BY <2>1, <3>2 DEF MaskAt
    <3> QED
      BY <3>2, <3>3, <3>4, <3>5, <3>6 DEF DeathAt
  <2>3. CASE t \notin Members(g)
    <3>1. g.task[t].state = "dead" /\ h.task[t] = g.task[t]
      BY <2>3 DEF Members, Doom
    <3>2. r[t].pc = "dead"
      BY <2>1, <3>1 DEF LinkAt
    <3> QED
      BY <2>1, <3>1, <3>2 DEF DeathAt, ExitPcs, Dying
  <2> QED
    BY <2>2, <2>3
<1>4. Death(h, r) /\ StopInv(h) /\ ContInv(h, j)
  BY <1>2, <1>3 DEF Death, StopInv, ContInv, Doom
<1>5. h \in Group /\ h.action[SIGKILL].handler = "SIG_DFL"
  BY DEF Doom, Good
<1> QED
  BY <1>2, <1>3, <1>4, <1>5 DEF Good

\* Outside a group exit, SIGKILL is fatal to any thread.
LEMMA KillIsFatal ==
    ASSUME NEW g, NEW r, NEW j, Good(g, r, j), ~signal_group_exit(g), NEW t \in Threads
    PROVE  Fatal(g, SIGKILL, t)
<1>1. SIGKILL \notin g.task[t].real_blocked /\ g.action[SIGKILL].handler = "SIG_DFL"
  BY DEF Good, MaskAt, SIG_KERNEL_ONLY_MASK
<1>2. SIGKILL \notin SIG_KERNEL_IGNORE_MASK \cup SIG_KERNEL_STOP_MASK
  BY DEF SIG_KERNEL_IGNORE_MASK, SIG_KERNEL_STOP_MASK, SIGKILL, SIGCONT, SIGSTOP, SIGTSTP
<1>3. ~sig_kernel_coredump(SIGKILL)
  BY DEF sig_kernel_coredump, SIGKILL
<1> QED
  BY <1>1, <1>2, <1>3 DEF Fatal, sig_fatal

LEMMA WokenGood ==
    ASSUME NEW g, NEW r, NEW j, Good(g, r, j), NEW t \in Members(g), NEW h, NEW dies \in BOOLEAN,
           WokenOne(g, h, t, dies), dies => signal_group_exit(g)
    PROVE  Good(h, r, j) /\ TouchedAll(g, h) /\ signal_group_exit(h) = signal_group_exit(g)
           /\ \A u \in Threads : h.task[u].pending = g.task[u].pending
<1>1. g \in Group /\ t \in Threads /\ g.task[t].state # "dead" /\ g.action[SIGKILL].handler = "SIG_DFL"
  BY DEF Good, Members
<1>2. g.task[t] \in Task
  BY <1>1, GroupType
<1>3. dies => g.task[t].state # "stopped"
  BY <1>1 DEF Good, Death, DeathAt
<1>4. Touched(g.task[t], h.task[t]) /\ h.task[t].pending = g.task[t].pending
  BY <1>1, <1>2, <1>3, WakeIs DEF WokenOne, Touched
<1>5. \A u \in Threads : u # t => Touched(g.task[u], h.task[u]) /\ h.task[u].pending = g.task[u].pending
  BY <1>1, GroupType DEF WokenOne, Touched, SameTask
<1>6. TouchedAll(g, h) /\ \A u \in Threads : h.task[u].pending = g.task[u].pending
  BY <1>1, <1>4, <1>5 DEF TouchedAll, WokenOne
<1>7. ~signal_group_exit(g) /\ j = "cont" =>
          /\ h.shared.signal \cap SIG_KERNEL_STOP_MASK = {}
          /\ \A u \in Threads : h.task[u].pending.signal \cap SIG_KERNEL_STOP_MASK = {}
  BY <1>6 DEF Good, ContInv, WokenOne
<1> QED
  BY <1>6, <1>7, TouchedGood

\* SIGKILL, once in the queue of a thread, starts the group exit.
LEMMA CompleteGood ==
    ASSUME NEW g, NEW r, NEW j, Good(g, r, j), NEW sig, NEW p \in Members(g), NEW shared \in BOOLEAN, NEW cpu,
           ~signal_group_exit(g) =>
               \A t \in Threads : SIGKILL \in g.task[t].pending.signal =>
                                      g.task[t].exiting \/ (sig = SIGKILL /\ t = p)
    PROVE  LET h == complete_signal(g, sig, p, shared, cpu) IN
           Good(h, r, j) /\ KillInv(h) /\ ("STOP_STOPPED" \in h.flags => "STOP_STOPPED" \in g.flags)
<1> DEFINE t == Target(g, sig, p, shared, cpu)
           h == complete_signal(g, sig, p, shared, cpu)
<1>1. g \in Group /\ p \in Threads /\ Members(g) \subseteq Threads
  BY DEF Good, Members
<1>2. \/ t = NULL /\ h = g
      \/ t # NULL /\ Fatal(g, sig, t) /\ Doom(g, h)
      \/ t # NULL /\ ~Fatal(g, sig, t) /\ WokenOne(g, h, t, sig = SIGKILL)
  BY <1>1, CompleteIs
<1>3. \/ t = NULL /\ ~wants_signal(g, sig, p, cpu)
      \/ t \in Members(g) /\ t # NULL
  BY <1>1, TargetIs
<1> HIDE DEF t, h
<1>4. CASE t = NULL /\ h = g
  <2>1. sig = SIGKILL => g.task[p].exiting
    <3>1. SIGKILL \notin g.task[p].blocked
      BY <1>1 DEF Good, MaskAt, SIG_KERNEL_ONLY_MASK
    <3> QED
      BY <1>3, <1>4, <3>1 DEF wants_signal
  <2>2. KillInv(g)
    BY <2>1 DEF KillInv
  <2> QED
    BY <1>4, <2>2 DEF h
<1>5. CASE t # NULL /\ Fatal(g, sig, t) /\ Doom(g, h)
  <2>1. Good(h, r, j) /\ signal_group_exit(h)
    BY <1>5, DoomGood
  <2>2. "STOP_STOPPED" \notin h.flags
    BY <1>5 DEF Doom
  <2> QED
    BY <2>1, <2>2 DEF KillInv, h
<1>6. CASE t # NULL /\ ~Fatal(g, sig, t) /\ WokenOne(g, h, t, sig = SIGKILL)
  <2>1. t \in Members(g) /\ t \in Threads
    BY <1>1, <1>3, <1>6
  <2>2. sig = SIGKILL => signal_group_exit(g)
    BY <1>6, <2>1, KillIsFatal
  <2>3. /\ Good(h, r, j) /\ TouchedAll(g, h) /\ signal_group_exit(h) = signal_group_exit(g)
        /\ \A u \in Threads : h.task[u].pending = g.task[u].pending
    BY <1>6, <2>1, <2>2, WokenGood
  <2>4. KillInv(h)
    BY <2>2, <2>3 DEF KillInv, TouchedAll, Touched, SameTask
  <2> QED
    BY <2>3, <2>4 DEF TouchedAll, h
<1> QED
  BY <1>2, <1>4, <1>5, <1>6

\* q, or its signal alone, has been added to the queue of p or of the process.
Added(g, k, p, shared, q) ==
    LET pending == PendingOf(g, p, shared)
    IN \/ /\ Put(g, k, p, shared, Enqueue(pending, q)) /\ k.sigpending = g.sigpending + sigqueue_free1(q)
       \/ Put(g, k, p, shared, SetOnly(pending, q.sig)) /\ k.sigpending = g.sigpending

LEMMA PendingOfType ==
    ASSUME NEW g \in Group, NEW p \in Threads, NEW shared \in BOOLEAN
    PROVE  PendingOf(g, p, shared) \in Pending
BY GroupType, TaskType DEF PendingOf

LEMMA AddedGood ==
    ASSUME NEW g, NEW r, NEW j, Good(g, r, j), KillInv(g), NEW p \in Members(g), NEW shared \in BOOLEAN,
           NEW q \in Entry, NEW k, Added(g, k, p, shared, q), NEW cpu, q.sig \in SIG_KERNEL_STOP_MASK => j # "cont"
    PROVE  LET h == complete_signal(k, q.sig, p, shared, cpu) IN
           /\ Good(k, r, j) /\ p \in Members(k) /\ signal_group_exit(k) = signal_group_exit(g)
           /\ Good(h, r, j) /\ KillInv(h) /\ ("STOP_STOPPED" \in h.flags => "STOP_STOPPED" \in g.flags)
<1>1. g \in Group /\ p \in Threads /\ q.sig \in AllSignals /\ g.action[SIGKILL].handler = "SIG_DFL"
  BY DEF Good, Members, Entry
<1>2. PendingOf(g, p, shared) \in Pending
  BY <1>1, PendingOfType
<1>3. PICK pending \in Pending : /\ Put(g, k, p, shared, pending)
                                 /\ pending.signal = PendingOf(g, p, shared).signal \cup {q.sig}
  <2> DEFINE old == PendingOf(g, p, shared)
  <2>1. /\ Enqueue(old, q) \in Pending /\ Enqueue(old, q).signal = old.signal \cup {q.sig}
        /\ SetOnly(old, q.sig) \in Pending /\ SetOnly(old, q.sig).signal = old.signal \cup {q.sig}
    BY <1>1, <1>2, EnqueueIs, SetOnlyIs
  <2>2. Put(g, k, p, shared, Enqueue(old, q)) \/ Put(g, k, p, shared, SetOnly(old, q.sig))
    BY DEF Added
  <2> HIDE DEF old
  <2> QED
    BY <2>1, <2>2 DEF old
<1>4. Good(k, r, j) /\ signal_group_exit(k) = signal_group_exit(g)
  <2>1. PICK s : s = q.sig
    OBVIOUS
  <2>2. pending.signal = PendingOf(g, p, shared).signal \cup {s} /\ (s \in SIG_KERNEL_STOP_MASK => j # "cont")
    BY <1>3, <2>1
  <2> QED
    BY <1>3, <2>2, PutGood
<1>5. \A t \in Threads : /\ k.task[t].state = g.task[t].state
                         /\ k.task[t].pending = IF ~shared /\ t = p THEN pending ELSE g.task[t].pending
                         /\ k.task[t].exiting = g.task[t].exiting
  <2>1. PendingOf(g, p, shared).signal \subseteq pending.signal
    BY <1>3
  <2>2. TouchedAll(g, k)
        /\ \A t \in Threads : /\ k.task[t].state = g.task[t].state
                              /\ k.task[t].pending = IF ~shared /\ t = p THEN pending ELSE g.task[t].pending
    BY <1>1, <1>3, <2>1, PutTouches
  <2> QED
    BY <2>2 DEF TouchedAll, Touched, SameTask
<1>6. p \in Members(k)
  BY <1>5 DEF Members
<1>7. ASSUME ~signal_group_exit(k), NEW t \in Threads, SIGKILL \in k.task[t].pending.signal
      PROVE  k.task[t].exiting \/ (q.sig = SIGKILL /\ t = p)
  <2>1. ~signal_group_exit(g)
    BY <1>4, <1>7
  <2>2. SIGKILL \in g.task[t].pending.signal => g.task[t].exiting
    BY <2>1 DEF KillInv
  <2>3. CASE ~shared /\ t = p
    BY <1>3, <1>5, <1>7, <2>2, <2>3 DEF PendingOf
  <2>4. CASE ~(~shared /\ t = p)
    BY <1>5, <1>7, <2>2, <2>4
  <2> QED
    BY <2>3, <2>4
<1>8. LET h == complete_signal(k, q.sig, p, shared, cpu) IN
      Good(h, r, j) /\ KillInv(h) /\ ("STOP_STOPPED" \in h.flags => "STOP_STOPPED" \in k.flags)
  BY <1>4, <1>6, <1>7, CompleteGood
<1>9. k.flags = g.flags
  BY <1>3 DEF Put
<1> QED
  BY <1>4, <1>6, <1>8, <1>9

LEMMA PreparedKill ==
    ASSUME NEW g \in Group, NEW h, NEW mask, Prepared(g, h, mask), KillInv(g)
    PROVE  KillInv(h) /\ Members(h) = Members(g)
<1>1. \A t \in Threads : /\ h.task[t].exiting = g.task[t].exiting
                         /\ h.task[t].pending = flush_sigqueue_mask(mask, g.task[t].pending).pending
                         /\ h.task[t].state = "dead" <=> g.task[t].state = "dead"
  BY DEF Prepared, PreparedAt
<1>2. \A t \in Threads : g.task[t].pending \in Pending
  BY GroupType, TaskType
<1>3. \A t \in Threads : h.task[t].pending.signal \subseteq g.task[t].pending.signal
  BY <1>1, <1>2, FlushMaskIs
<1>4. signal_group_exit(h) = signal_group_exit(g)
  BY DEF Prepared
<1> QED
  BY <1>1, <1>3, <1>4 DEF KillInv, Members

\* The entry that send_signal queues.
NewEntry(sig, info) == Sigqueue(sig, sig \in SYNCHRONOUS_MASK /\ info \in {"priv", "fault"}, FALSE)

LEMMA SendIs ==
    ASSUME NEW g \in Group, NEW sig \in AllSignals, NEW info, NEW p \in Threads, NEW shared \in BOOLEAN,
           NEW cpu, NEW mem, prepare_signal(g, sig) \in Group
    PROVE  LET n == prepare_signal(g, sig)
               h == send_signal(g, sig, info, p, shared, cpu, mem)
               q == NewEntry(sig, info)
           IN /\ q \in Entry /\ q.sig = sig /\ ~q.prealloc
              /\ \/ /\ h = n
                    /\ sig_ignored(n, p, sig) \/ legacy_queue(PendingOf(n, p, shared), sig) \/ sig >= SIGRTMIN
                 \/ /\ ~sig_ignored(n, p, sig) /\ ~legacy_queue(PendingOf(n, p, shared), sig)
                    /\ \E k : Added(n, k, p, shared, q) /\ h = complete_signal(k, sig, p, shared, cpu)
<1> DEFINE n == prepare_signal(g, sig)
           pending == PendingOf(n, p, shared)
           q == NewEntry(sig, info)
           h == send_signal(g, sig, info, p, shared, cpu, mem)
           k1 == [PutPending(n, p, shared, Enqueue(pending, q)) EXCEPT !.sigpending = @ + 1]
           k2 == PutPending(n, p, shared, SetOnly(pending, sig))
<1>1. q \in Entry /\ q.sig = sig /\ ~q.prealloc
  BY DEF NewEntry, Sigqueue, Entry
<1>2. h = IF sig_ignored(n, p, sig) \/ legacy_queue(pending, sig) THEN n
          ELSE IF info # "forced" /\ sigqueue_alloc1(n, sig, info, mem)
               THEN complete_signal(k1, sig, p, shared, cpu)
          ELSE IF ~is_si_special(info) /\ sig >= SIGRTMIN /\ info # "user" THEN n
          ELSE complete_signal(k2, sig, p, shared, cpu)
  BY DEF send_signal, NewEntry
<1> HIDE DEF n, q, h
<1>3. n \in Group /\ pending \in Pending /\ n.sigpending + 1 \in Int /\ n.sigpending \in Int
  BY PendingOfType, GroupType DEF n
<1> HIDE DEF pending
<1>4. Enqueue(pending, q) \in Pending /\ SetOnly(pending, sig) \in Pending
  BY <1>1, <1>3, EnqueueIs, SetOnlyIs
<1>5. Added(n, k1, p, shared, q)
  <2>1. PutPending(n, p, shared, Enqueue(pending, q)).sigpending = n.sigpending
    BY <1>3, <1>4, PutPlain
  <2>2. Put(n, k1, p, shared, Enqueue(pending, q)) /\ k1.sigpending = n.sigpending + 1
    BY <1>3, <1>4, <2>1, PutIs
  <2> QED
    BY <1>1, <2>2 DEF Added, sigqueue_free1, pending
<1>6. Added(n, k2, p, shared, q)
  <2>1. Put(n, k2, p, shared, SetOnly(pending, sig)) /\ k2.sigpending = n.sigpending
    BY <1>3, <1>4, PutPlain
  <2> QED
    BY <1>1, <2>1 DEF Added, pending
<1> HIDE DEF k1, k2
<1> QED
  BY <1>1, <1>2, <1>5, <1>6 DEF n, q, h, pending, is_si_special

LEMMA SendGood ==
    ASSUME NEW g, NEW r, NEW j, Good(g, r, j), KillInv(g), NEW sig \in AllSignals, NEW info, NEW p \in Members(g),
           NEW shared \in BOOLEAN, NEW cpu, NEW mem
    PROVE  LET h == send_signal(g, sig, info, p, shared, cpu, mem) IN
           Good(h, r, JobAfter(j, sig)) /\ KillInv(h) /\ ("STOP_STOPPED" \in h.flags => "STOP_STOPPED" \in g.flags)
<1> DEFINE n == prepare_signal(g, sig)
           h == send_signal(g, sig, info, p, shared, cpu, mem)
           q == NewEntry(sig, info)
           i == JobAfter(j, sig)
<1>1. g \in Group /\ p \in Threads
  BY DEF Good, Members
<1>2. Good(n, r, i) /\ \E mask : Prepared(g, n, mask)
  BY PrepareGood
<1>3. n \in Group /\ KillInv(n) /\ Members(n) = Members(g) /\ ("STOP_STOPPED" \in n.flags => "STOP_STOPPED" \in g.flags)
  BY <1>1, <1>2, PreparedKill DEF Prepared
<1>4. /\ q \in Entry /\ q.sig = sig
      /\ h = n \/ \E k : Added(n, k, p, shared, q) /\ h = complete_signal(k, sig, p, shared, cpu)
  <2>1. n \in Group
    BY <1>3
  <2> QED
    BY <1>1, <2>1, SendIs
<1>5. sig \in SIG_KERNEL_STOP_MASK => i # "cont"
  BY DEF JobAfter
<1> HIDE DEF n, h, q, i
<1>6. CASE h = n
  BY <1>2, <1>3, <1>6 DEF h, i
<1>7. CASE \E k : Added(n, k, p, shared, q) /\ h = complete_signal(k, sig, p, shared, cpu)
  <2>1. PICK k : Added(n, k, p, shared, q) /\ h = complete_signal(k, q.sig, p, shared, cpu)
    BY <1>4, <1>7
  <2>2. Good(h, r, i) /\ KillInv(h) /\ ("STOP_STOPPED" \in h.flags => "STOP_STOPPED" \in n.flags)
    BY <1>2, <1>3, <1>4, <1>5, <2>1, AddedGood
  <2> QED
    BY <1>3, <2>2 DEF h, i
<1> QED
  BY <1>4, <1>6, <1>7

-----------------------------------------------------------------------------
(* Taking a signal *)

\* Everything but the task of t stays.
OneTask(g, h, t, a) ==
    /\ h \in Group /\ h.task[t] = a /\ \A u \in Threads : u # t => h.task[u] = g.task[u]
    /\ h.shared = g.shared /\ h.flags = g.flags /\ h.group_stop_count = g.group_stop_count
    /\ h.curr_target = g.curr_target /\ h.action = g.action /\ h.sigpending = g.sigpending
    /\ h.timer = g.timer

LEMMA OneTaskIs ==
    ASSUME NEW g \in Group, NEW t \in Threads, NEW a \in Task
    PROVE  OneTask(g, SetTask(g, t, a), t, a)
BY SetTaskIs DEF OneTask

LEMMA RecalcType ==
    ASSUME NEW g, NEW t
    PROVE  /\ recalc_sigpending_tsk(g, t) \in BOOLEAN
           /\ recalc_sigpending_tsk(g, t) <=> \/ "STOP_PENDING" \in g.task[t].jobctl
                                              \/ g.task[t].pending.signal \ g.task[t].blocked # {}
                                              \/ g.shared.signal \ g.task[t].blocked # {}
BY DEF recalc_sigpending_tsk, has_pending_signals

LEMMA RecalcIs ==
    ASSUME NEW g \in Group, NEW t \in Threads
    PROVE  LET h == recalc_sigpending(g, t)
               a == [g.task[t] EXCEPT !.tif = recalc_sigpending_tsk(g, t)]
           IN /\ OneTask(g, h, t, a) /\ SameTask(g.task[t], a) /\ a.state = g.task[t].state
              /\ a.pending = g.task[t].pending /\ a.tif = recalc_sigpending_tsk(g, t)
              /\ recalc_sigpending_tsk(h, t) = recalc_sigpending_tsk(g, t)
<1> DEFINE v == recalc_sigpending_tsk(g, t)
           a == [g.task[t] EXCEPT !.tif = v]
           h == recalc_sigpending(g, t)
<1>1. v \in BOOLEAN /\ g.task[t] \in Task
  BY RecalcType, GroupType
<1>2. h = SetTask(g, t, a)
  BY DEF recalc_sigpending, SetTask
<1> HIDE DEF v, h
<1>3. SameTask(g.task[t], a) /\ a.state = g.task[t].state /\ a.pending = g.task[t].pending /\ a.tif = v
  BY <1>1 DEF SameTask, Task
<1> HIDE DEF a
<1>4. OneTask(g, h, t, a)
  BY <1>2, <1>3, OneTaskIs DEF SameTask
<1>5. recalc_sigpending_tsk(h, t) = recalc_sigpending_tsk(g, t)
  BY <1>3, <1>4 DEF recalc_sigpending_tsk, OneTask, SameTask
<1> QED
  BY <1>3, <1>4, <1>5 DEF v, a, h

\* t has taken sig, if it is not 0, off the queue of the process (shared) or its own, which is now c.
TookFrom(g, h, t, sig, shared, c, freed) ==
    LET a == g.task[t]
        b == h.task[t]
        p == PendingOf(g, t, shared)
    IN /\ h \in Group /\ h.flags = g.flags /\ h.group_stop_count = g.group_stop_count
       /\ h.action = g.action /\ h.timer = g.timer
       /\ \A u \in Threads : u # t => h.task[u] = g.task[u]
       /\ b.exiting = a.exiting /\ b.blocked = a.blocked /\ b.real_blocked = a.real_blocked
       /\ b.state = a.state
       /\ b.jobctl = IF sig \in SIG_KERNEL_STOP_MASK THEN a.jobctl \cup {"STOP_DEQUEUED"} ELSE a.jobctl
       /\ b.pending = IF shared THEN a.pending ELSE c
       /\ h.shared = IF shared THEN c ELSE g.shared
       /\ b.tif = recalc_sigpending_tsk(h, t) \/ (b.tif = a.tif /\ c.signal = p.signal)
       /\ Shrinks(p, c) /\ p.signal \ {sig} \subseteq c.signal
       /\ sig \in SIG_KERNEL_STOP_MASK => sig \in p.signal
       /\ freed \in Nat /\ h.sigpending = g.sigpending - freed
       /\ FreeAll(c.list) = FreeAll(p.list) - freed

Took(g, h, t, sig) ==
    \E shared \in BOOLEAN, c \in Pending, freed \in Nat : TookFrom(g, h, t, sig, shared, c, freed)

LEMMA NextSignal ==
    ASSUME NEW p \in Pending, NEW mask
    PROVE  LET s == next_signal(p, mask) IN
           /\ s = 0 => p.signal \ mask = {}
           /\ s # 0 => s \in p.signal \ mask
<1> DEFINE x == p.signal \ mask
           y == IF x \cap SYNCHRONOUS_MASK # {} THEN x \cap SYNCHRONOUS_MASK ELSE x
<1>1. x \in SUBSET Nat /\ 0 \notin x
  BY SignalNumbers, PendingType
<1>2. next_signal(p, mask) = IF x = {} THEN 0 ELSE Min(y)
  BY DEF next_signal
<1>3. y \in SUBSET Nat /\ (x # {} => y # {}) /\ y \subseteq x
  BY <1>1
<1> HIDE DEF x, y
<1>4. x # {} => Min(y) \in x
  BY <1>3, FirstPlace
<1> QED
  BY <1>1, <1>2, <1>4 DEF x

LEMMA DequeueSignalIs ==
    ASSUME NEW g \in Group, NEW t \in Threads, NEW mask
    PROVE  LET d == dequeue_signal(g, t, mask) IN
           /\ Took(g, d.group, t, d.sig) /\ d.group.task[t].tif = recalc_sigpending_tsk(d.group, t)
           /\ d.sig = 0 \/ (d.sig \in AllSignals /\ d.sig \notin mask)
           /\ d.sig = 0 => /\ g.task[t].pending.signal \ mask = {} /\ g.shared.signal \ mask = {}
                           /\ d.group.task[t].pending = g.task[t].pending /\ d.group.shared = g.shared
           /\ d.timer \in BOOLEAN /\ (d.timer => d.sig # 0)
           /\ Listed(g.task[t].pending) => Listed(d.group.task[t].pending)
           /\ Listed(g.shared) => Listed(d.group.shared)
<1> DEFINE own == next_signal(g.task[t].pending, mask)
           sig == IF own # 0 THEN own ELSE next_signal(g.shared, mask)
           shared == (own = 0)
           p == PendingOf(g, t, shared)
           c == collect_signal(sig, p)
           put == [PutPending(g, t, shared, c.pending) EXCEPT !.sigpending = @ - c.freed]
           taken == recalc_sigpending(put, t)
           h == IF sig \in SIG_KERNEL_STOP_MASK
                THEN [taken EXCEPT !.task[t].jobctl = @ \cup {"STOP_DEQUEUED"}] ELSE taken
           d == dequeue_signal(g, t, mask)
<1>1. d = IF sig = 0 THEN [group |-> recalc_sigpending(g, t), sig |-> 0, timer |-> FALSE]
          ELSE [group |-> h, sig |-> sig, timer |-> c.timer]
  BY DEF dequeue_signal
<1>2. g.task[t] \in Task /\ g.task[t].pending \in Pending /\ g.shared \in Pending /\ g.sigpending \in Int
  BY GroupType, TaskType
<1>3. /\ own = 0 => g.task[t].pending.signal \ mask = {}
      /\ own # 0 => own \in g.task[t].pending.signal \ mask
      /\ next_signal(g.shared, mask) = 0 => g.shared.signal \ mask = {}
      /\ next_signal(g.shared, mask) # 0 => next_signal(g.shared, mask) \in g.shared.signal \ mask
  BY <1>2, NextSignal
<1> HIDE DEF own, d
<1>4. CASE sig = 0
  <2> DEFINE k == recalc_sigpending(g, t)
             a == [g.task[t] EXCEPT !.tif = recalc_sigpending_tsk(g, t)]
  <2>1. d.group = k /\ d.sig = 0 /\ d.timer = FALSE
    BY <1>1, <1>4
  <2>2. /\ OneTask(g, k, t, a) /\ SameTask(g.task[t], a) /\ a.state = g.task[t].state
        /\ a.pending = g.task[t].pending /\ a.tif = recalc_sigpending_tsk(g, t)
        /\ recalc_sigpending_tsk(k, t) = recalc_sigpending_tsk(g, t)
    BY RecalcIs
  <2> HIDE DEF k, a
  <2>3. g.task[t].pending.signal \ mask = {} /\ g.shared.signal \ mask = {}
    BY <1>3, <1>4, SignalNumbers, PendingType, <1>2
  <2>4. Shrinks(g.task[t].pending, g.task[t].pending) /\ FreeAll(g.task[t].pending.list) \in Nat
    BY <1>2, ShrinkSelf, FreeAllType
  <2>5. 0 \notin SIG_KERNEL_STOP_MASK
    BY DEF SIG_KERNEL_STOP_MASK, SIGSTOP, SIGTSTP
  <2>6. TookFrom(g, k, t, 0, FALSE, g.task[t].pending, 0)
    BY <1>2, <2>2, <2>4, <2>5 DEF TookFrom, OneTask, SameTask, PendingOf
  <2>7. Took(g, k, t, 0)
    BY <1>2, <2>6 DEF Took
  <2> QED
    BY <2>1, <2>2, <2>3, <2>7 DEF OneTask, d
<1>5. CASE sig # 0
  <2>1. d.group = h /\ d.sig = sig /\ d.timer = c.timer
    BY <1>1, <1>5
  <2>2. shared \in BOOLEAN /\ p \in Pending
    BY <1>2 DEF PendingOf
  <2>3. sig \in p.signal \ mask /\ sig \in AllSignals
    <3>1. sig \in p.signal \ mask
      BY <1>3, <1>5 DEF PendingOf
    <3> QED
      BY <2>2, <3>1, PendingType
  <2> HIDE DEF p, sig
  <2>4. /\ Shrinks(p, c.pending) /\ p.signal \ {sig} \subseteq c.pending.signal
        /\ c.freed \in Nat /\ FreeAll(c.pending.list) = FreeAll(p.list) - c.freed
        /\ c.timer \in BOOLEAN /\ (Listed(p) => Listed(c.pending))
    BY <2>2, CollectIs
  <2> HIDE DEF c
  <2>5. c.pending \in Pending
    BY <2>4 DEF Shrinks
  <2>6. Put(g, put, t, shared, c.pending) /\ put.sigpending = g.sigpending - c.freed
    <3>1. PutPending(g, t, shared, c.pending).sigpending = g.sigpending
      BY <2>2, <2>5, PutPlain
    <3> DEFINE m == g.sigpending - c.freed
    <3>2. m \in Int
      BY <1>2, <2>4
    <3>3. put = [PutPending(g, t, shared, c.pending) EXCEPT !.sigpending = m]
      BY <3>1
    <3> HIDE DEF m, put, shared
    <3>4. LET b == [PutPending(g, t, shared, c.pending) EXCEPT !.sigpending = m]
          IN Put(g, b, t, shared, c.pending) /\ b.sigpending = m
      BY <2>2, <2>5, <3>2, PutIs
    <3> QED
      BY <3>3, <3>4 DEF m
  <2> HIDE DEF put
  <2> DEFINE a == put.task[t]
             b == [a EXCEPT !.tif = recalc_sigpending_tsk(put, t)]
  <2>7. /\ put \in Group /\ a \in Task /\ SameTask(g.task[t], a) /\ a.tif = g.task[t].tif
        /\ a.state = g.task[t].state /\ a.pending = (IF shared THEN g.task[t].pending ELSE c.pending)
        /\ put.shared = (IF shared THEN c.pending ELSE g.shared)
        /\ \A u \in Threads : u # t => put.task[u] = g.task[u]
        /\ put.flags = g.flags /\ put.group_stop_count = g.group_stop_count
        /\ put.action = g.action /\ put.timer = g.timer
    <3>1. put \in Group /\ put.task[t] \in Task
      BY <2>6, GroupType DEF Put
    <3>2. put.task[t] = IF shared THEN g.task[t] ELSE [g.task[t] EXCEPT !.pending = c.pending]
      BY <2>6 DEF Put
    <3>3. /\ SameTask(g.task[t], a) /\ a.tif = g.task[t].tif
          /\ a.state = g.task[t].state /\ a.pending = (IF shared THEN g.task[t].pending ELSE c.pending)
      BY <1>2, <3>1, <3>2 DEF SameTask, Task
    <3> QED
      BY <2>6, <3>1, <3>3 DEF Put
  <2>8. /\ OneTask(put, taken, t, b) /\ SameTask(a, b) /\ b.state = a.state
        /\ b.pending = a.pending /\ b.tif = recalc_sigpending_tsk(put, t)
        /\ recalc_sigpending_tsk(taken, t) = recalc_sigpending_tsk(put, t)
    BY <2>7, RecalcIs
  <2> HIDE DEF a, b, taken
  <2> DEFINE job2 == IF sig \in SIG_KERNEL_STOP_MASK THEN b.jobctl \cup {"STOP_DEQUEUED"} ELSE b.jobctl
             e == [b EXCEPT !.jobctl = job2]
  <2>9. b \in Task /\ b.jobctl = g.task[t].jobctl /\ job2 \subseteq JobctlBits
    <3>1. b \in Task /\ b.jobctl = g.task[t].jobctl
      BY <2>7, <2>8 DEF SameTask
    <3>2. b.jobctl \subseteq JobctlBits
      BY <3>1, TaskType
    <3> QED
      BY <3>1, <3>2 DEF JobctlBits
  <2>10. h = SetTask(taken, t, e)
    <3>1. taken \in Group /\ taken.task[t] = b /\ taken.task \in [Threads -> Task]
      BY <2>8, GroupType DEF OneTask
    <3>2. [b EXCEPT !.jobctl = b.jobctl] = b
      BY <2>9 DEF Task
    <3>3. [taken EXCEPT !.task = [taken.task EXCEPT ![t] = taken.task[t]]] = taken
      BY <3>1 DEF Group
    <3> QED
      BY <3>1, <3>2, <3>3 DEF SetTask
  <2>11. /\ e \in Task /\ e.jobctl = job2 /\ e.exiting = b.exiting /\ e.blocked = b.blocked
         /\ e.real_blocked = b.real_blocked /\ e.state = b.state /\ e.pending = b.pending /\ e.tif = b.tif
    BY <2>9 DEF Task
  <2> HIDE DEF e, h
  <2>12. OneTask(taken, h, t, e)
    BY <2>8, <2>10, <2>11, OneTaskIs DEF OneTask
  <2>13. recalc_sigpending_tsk(h, t) = recalc_sigpending_tsk(put, t)
    <3>1. "STOP_PENDING" \in job2 <=> "STOP_PENDING" \in b.jobctl
      OBVIOUS
    <3>2. recalc_sigpending_tsk(h, t) <=> recalc_sigpending_tsk(taken, t)
      BY <2>8, <2>11, <2>12, <3>1, RecalcType DEF OneTask
    <3> QED
      BY <2>8, <3>2, RecalcType
  <2>14. TookFrom(g, h, t, sig, shared, c.pending, c.freed)
    <3>1. PendingOf(g, t, shared) = p
      BY DEF p
    <3>2. /\ h \in Group /\ h.flags = g.flags /\ h.group_stop_count = g.group_stop_count
          /\ h.action = g.action /\ h.timer = g.timer /\ h.sigpending = g.sigpending - c.freed
          /\ \A u \in Threads : u # t => h.task[u] = g.task[u]
          /\ h.shared = (IF shared THEN c.pending ELSE g.shared)
      BY <2>6, <2>7, <2>8, <2>12 DEF OneTask
    <3>3. /\ h.task[t].exiting = g.task[t].exiting /\ h.task[t].blocked = g.task[t].blocked
          /\ h.task[t].real_blocked = g.task[t].real_blocked /\ h.task[t].state = g.task[t].state
          /\ h.task[t].pending = (IF shared THEN g.task[t].pending ELSE c.pending)
      BY <2>7, <2>8, <2>11, <2>12 DEF OneTask, SameTask
    <3>4. h.task[t].jobctl = job2 /\ h.task[t].tif = recalc_sigpending_tsk(h, t)
      BY <2>8, <2>11, <2>12, <2>13 DEF OneTask
    <3> QED
      BY <2>3, <2>4, <2>9, <3>1, <3>2, <3>3, <3>4 DEF TookFrom
  <2>15. Took(g, h, t, sig)
    BY <2>2, <2>4, <2>5, <2>14 DEF Took
  <2>16. h.task[t].tif = recalc_sigpending_tsk(h, t)
    BY <2>8, <2>11, <2>12, <2>13 DEF OneTask
  <2>17. /\ Listed(g.task[t].pending) => Listed(h.task[t].pending)
         /\ Listed(g.shared) => Listed(h.shared)
    BY <2>4, <2>14 DEF TookFrom, PendingOf, p
  <2> QED
    BY <1>5, <2>1, <2>3, <2>4, <2>15, <2>16, <2>17 DEF d
<1> QED
  BY <1>4, <1>5

NoFault(p) == \A i \in 1 .. Len(p.list) : ~p.list[i].positive

LEMMA DequeueIs ==
    ASSUME NEW g \in Group, NEW t \in Threads
    PROVE  LET d == Dequeue(g, t)
               a == g.task[t]
           IN /\ Took(g, d.group, t, d.sig) /\ d.sig \in AllSignals \cup {0} /\ d.timer \in BOOLEAN
              /\ d.timer => d.sig # 0
              /\ d.sig = 0 => a.pending.signal \ a.blocked = {} /\ g.shared.signal \ a.blocked = {}
              /\ \/ d.group.task[t].tif = recalc_sigpending_tsk(d.group, t)
                 \/ d.group.task[t].tif = a.tif /\ ~NoFault(a.pending)
              /\ Listed(a.pending) /\ FaultFirst(a.pending) => Listed(d.group.task[t].pending)
              /\ Listed(g.shared) => Listed(d.group.shared)
              /\ Listed(a.pending) /\ FaultFirst(a.pending) /\ (NoFault(a.pending) \/ SIGSEGV \notin a.blocked)
                     => NoFault(d.group.task[t].pending)
<1> DEFINE a == g.task[t]
           d == Dequeue(g, t)
<1>1. a \in Task /\ a.pending \in Pending /\ g.shared \in Pending /\ g.sigpending \in Int
  BY GroupType, TaskType
<1>2. CASE SynchronousEntry(a.pending, a.blocked) = 0
  <2> DEFINE e == dequeue_signal(g, t, a.blocked)
  <2>1. d = e
    BY <1>2 DEF Dequeue
  <2>2. /\ Took(g, e.group, t, e.sig) /\ e.group.task[t].tif = recalc_sigpending_tsk(e.group, t)
        /\ e.sig = 0 \/ (e.sig \in AllSignals /\ e.sig \notin a.blocked)
        /\ e.sig = 0 => a.pending.signal \ a.blocked = {} /\ g.shared.signal \ a.blocked = {}
        /\ e.timer \in BOOLEAN /\ (e.timer => e.sig # 0)
        /\ Listed(g.task[t].pending) => Listed(e.group.task[t].pending)
        /\ Listed(g.shared) => Listed(e.group.shared)
    BY DequeueSignalIs
  <2> HIDE DEF d, e
  <2>3. ASSUME Listed(a.pending), FaultFirst(a.pending), NoFault(a.pending) \/ SIGSEGV \notin a.blocked
        PROVE  NoFault(e.group.task[t].pending)
    <3>1. NoFault(a.pending)
      <4> SUFFICES ASSUME SIGSEGV \notin a.blocked, NEW i \in 1 .. Len(a.pending.list), a.pending.list[i].positive
                   PROVE  FALSE
        BY <2>3 DEF NoFault
      <4> DEFINE I == {k \in 1 .. Len(a.pending.list) :
                           a.pending.list[k].positive /\ a.pending.list[k].sig \in SYNCHRONOUS_MASK}
      <4>1. a.pending.list[i].sig = SIGSEGV /\ SIGSEGV \in a.pending.signal /\ SIGSEGV \in SYNCHRONOUS_MASK
        BY <2>3 DEF FaultFirst, Listed, SYNCHRONOUS_MASK
      <4>2. SynchronousEntry(a.pending, a.blocked) = IF I # {} THEN Min(I) ELSE 0
        BY <4>1 DEF SynchronousEntry, SelectInSeq
      <4>3. i \in I /\ I \in SUBSET Nat /\ 0 \notin I
        BY <1>1, <4>1, PendingType
      <4> HIDE DEF I
      <4>4. Min(I) \in I
        BY <4>3, FirstPlace
      <4> QED
        BY <1>2, <4>2, <4>3, <4>4
    <3>2. PICK shared \in BOOLEAN, c \in Pending, freed \in Nat :
            TookFrom(g, e.group, t, e.sig, shared, c, freed)
      BY <2>2 DEF Took
    <3>3. CASE shared
      BY <3>1, <3>2, <3>3 DEF TookFrom
    <3>4. CASE ~shared
      <4>1. Shrinks(a.pending, c) /\ e.group.task[t].pending = c
        BY <3>2, <3>4 DEF TookFrom, PendingOf
      <4>2. PICK f \in [1 .. Len(c.list) -> 1 .. Len(a.pending.list)] :
              \A k \in 1 .. Len(c.list) : c.list[k] = a.pending.list[f[k]]
        BY <1>1, <4>1, ShrinkPlaces
      <4> QED
        BY <3>1, <4>1, <4>2 DEF NoFault
    <3> QED
      BY <3>3, <3>4
  <2> QED
    BY <2>1, <2>2, <2>3 DEF d, e
<1>3. CASE SynchronousEntry(a.pending, a.blocked) # 0
  <2> DEFINE s == dequeue_synchronous_signal(a.pending, a.blocked)
             new == [g EXCEPT !.task[t].pending = s.pending, !.sigpending = @ - s.freed]
             h == IF s.last THEN recalc_sigpending(new, t) ELSE new
  <2>1. d = [group |-> h, sig |-> s.sig, timer |-> FALSE]
    BY <1>3 DEF Dequeue
  <2>2. /\ Shrinks(a.pending, s.pending) /\ a.pending.signal \ {s.sig} \subseteq s.pending.signal
        /\ s.freed \in Nat /\ FreeAll(s.pending.list) = FreeAll(a.pending.list) - s.freed
        /\ s.sig \in AllSignals /\ s.sig \in SYNCHRONOUS_MASK /\ s.last \in BOOLEAN
        /\ ~s.last => s.pending.signal = a.pending.signal
        /\ \E i \in 1 .. Len(a.pending.list) : a.pending.list[i].positive /\ a.pending.list[i].sig = s.sig
        /\ FaultFirst(a.pending) => \A k \in 1 .. Len(s.pending.list) : ~s.pending.list[k].positive
        /\ Listed(a.pending) /\ FaultFirst(a.pending) => Listed(s.pending)
    BY <1>1, <1>3, SynchronousIs
  <2> HIDE DEF s, d
  <2> DEFINE b == [a EXCEPT !.pending = s.pending]
             k == SetTask(g, t, b)
  <2>3. s.pending \in Pending /\ s.sig \notin SIG_KERNEL_STOP_MASK
    BY <2>2 DEF Shrinks, SYNCHRONOUS_MASK, SIG_KERNEL_STOP_MASK, SIGSEGV, SIGSTOP, SIGTSTP
  <2>4. /\ b \in Task /\ SameTask(a, b) /\ b.state = a.state /\ b.tif = a.tif /\ b.pending = s.pending
    BY <1>1, <2>3 DEF Task, SameTask
  <2>5. new = [k EXCEPT !.sigpending = g.sigpending - s.freed]
    BY DEF SetTask, Group
  <2> HIDE DEF b
  <2>6. OneTask(g, k, t, b)
    BY <2>4, OneTaskIs
  <2> HIDE DEF k, new
  <2>7. /\ new \in Group /\ new.task = k.task /\ new.shared = g.shared /\ new.flags = g.flags
        /\ new.group_stop_count = g.group_stop_count /\ new.action = g.action /\ new.timer = g.timer
        /\ new.sigpending = g.sigpending - s.freed
    BY <1>1, <2>2, <2>5, <2>6 DEF OneTask, Group
  <2>8. new.task[t] = b /\ \A u \in Threads : u # t => new.task[u] = g.task[u]
    BY <2>6, <2>7 DEF OneTask
  <2> DEFINE v == recalc_sigpending_tsk(new, t)
             c == [b EXCEPT !.tif = v]
  <2>9. LET f == recalc_sigpending(new, t)
        IN /\ OneTask(new, f, t, c) /\ SameTask(b, c) /\ c.state = b.state
           /\ c.pending = b.pending /\ c.tif = v /\ recalc_sigpending_tsk(f, t) = v
    BY <2>7, <2>8, RecalcIs
  <2> HIDE DEF c, v
  <2>10. PICK f : f = h
    OBVIOUS
  <2>11. /\ f \in Group /\ f.shared = g.shared /\ f.flags = g.flags
         /\ f.group_stop_count = g.group_stop_count /\ f.action = g.action /\ f.timer = g.timer
         /\ f.sigpending = g.sigpending - s.freed /\ SameTask(a, f.task[t]) /\ f.task[t].state = a.state
         /\ f.task[t].pending = s.pending
         /\ (f.task[t].tif = recalc_sigpending_tsk(f, t) \/ (f.task[t].tif = a.tif /\ s.pending.signal = a.pending.signal))
         /\ \A u \in Threads : u # t => f.task[u] = g.task[u]
    <3>1. CASE s.last
      BY <2>4, <2>7, <2>8, <2>9, <2>10, <3>1 DEF OneTask, SameTask
    <3>2. CASE ~s.last
      BY <2>2, <2>4, <2>7, <2>8, <2>10, <3>2
    <3> QED
      BY <3>1, <3>2
  <2>12. TookFrom(g, f, t, s.sig, FALSE, s.pending, s.freed)
    <3>1. PendingOf(g, t, FALSE) = a.pending
      BY DEF PendingOf
    <3> HIDE DEF a
    <3> QED
      BY <2>2, <2>3, <2>11, <3>1 DEF TookFrom, SameTask, a
  <2>13. Took(g, f, t, s.sig)
    BY <2>2, <2>3, <2>12 DEF Took
  <2>14. ~NoFault(a.pending)
    BY <2>2 DEF NoFault
  <2>15. s.sig # 0
    BY <2>2, SignalNumbers
  <2> HIDE DEF h, a
  <2>16. d.group = f /\ d.sig = s.sig /\ d.timer = FALSE
    BY <2>1, <2>10
  <2>17. /\ Listed(a.pending) /\ FaultFirst(a.pending) => Listed(f.task[t].pending)
         /\ Listed(g.shared) => Listed(f.shared)
         /\ FaultFirst(a.pending) => NoFault(f.task[t].pending)
    BY <2>2, <2>11 DEF NoFault
  <2> QED
    BY <2>2, <2>11, <2>13, <2>14, <2>15, <2>16, <2>17 DEF d, a
<1> QED
  BY <1>2, <1>3

\* Taking a signal keeps a group stop and a group exit; who takes SIGKILL dies.
LEMMA TookGood ==
    ASSUME NEW g, NEW r, NEW j, Good(g, r, j), NEW t \in Threads, NEW h, NEW sig, Took(g, h, t, sig), NEW q,
           \A u \in Threads : u # t => q[u] = r[u],
           LinkAt(h.task[t], q[t]), MaskAt(h.task[t], q[t]), ~Dying(r[t]),
           signal_group_exit(g) /\ sig = SIGKILL => Dying(q[t])
    PROVE  /\ Good(h, q, j) /\ h.flags = g.flags /\ (KillInv(g) => KillInv(h))
           /\ \A u \in Threads : h.task[u].state = g.task[u].state /\ h.task[u].exiting = g.task[u].exiting
<1>1. PICK shared \in BOOLEAN, c \in Pending, freed \in Nat : TookFrom(g, h, t, sig, shared, c, freed)
  BY DEF Took
<1> DEFINE a == g.task[t]
           b == h.task[t]
           p == PendingOf(g, t, shared)
<1>2. /\ h \in Group /\ h.flags = g.flags /\ h.group_stop_count = g.group_stop_count
      /\ h.action = g.action /\ \A u \in Threads : u # t => h.task[u] = g.task[u]
      /\ b.exiting = a.exiting /\ b.blocked = a.blocked /\ b.state = a.state
      /\ b.jobctl = IF sig \in SIG_KERNEL_STOP_MASK THEN a.jobctl \cup {"STOP_DEQUEUED"} ELSE a.jobctl
      /\ b.pending = IF shared THEN a.pending ELSE c
      /\ h.shared = IF shared THEN c ELSE g.shared
      /\ b.tif = recalc_sigpending_tsk(h, t) \/ (b.tif = a.tif /\ c.signal = p.signal)
      /\ p.signal \ {sig} \subseteq c.signal /\ c.signal \subseteq p.signal
      /\ sig \in SIG_KERNEL_STOP_MASK => sig \in p.signal
  BY <1>1 DEF TookFrom, Shrinks
<1>3. p = IF shared THEN g.shared ELSE a.pending
  BY DEF PendingOf
<1>4. /\ g \in Group /\ g.action[SIGKILL].handler = "SIG_DFL" /\ SIGKILL \notin a.blocked
      /\ \A u \in Threads : LinkAt(g.task[u], r[u]) /\ MaskAt(g.task[u], r[u])
  BY DEF Good, MaskAt, SIG_KERNEL_ONLY_MASK
<1> HIDE DEF p
<1>5. h.shared.signal \subseteq g.shared.signal
      /\ \A u \in Threads : h.task[u].pending.signal \subseteq g.task[u].pending.signal
  BY <1>2, <1>3
<1>6. recalc_sigpending_tsk(h, t) <=> \/ "STOP_PENDING" \in b.jobctl \/ b.pending.signal \ b.blocked # {}
                                      \/ h.shared.signal \ b.blocked # {}
  BY RecalcType
<1>7. "STOP_PENDING" \in b.jobctl /\ a.tif => b.tif
  BY <1>2, <1>6
<1>8. sig # SIGKILL /\ SIGKILL \in a.pending.signal /\ a.tif => SIGKILL \in b.pending.signal /\ b.tif
  BY <1>2, <1>3, <1>4, <1>6
<1>9. CalmAt(signal_group_exit(g), a, r[t], b, q[t])
  BY <1>2, <1>7, <1>8 DEF CalmAt, Dying
<1>10. \A u \in Threads : u # t => CalmAt(signal_group_exit(g), g.task[u], r[u], h.task[u], q[u])
  BY <1>2 DEF CalmAt
<1>11. Calm(g, r, h, q)
  BY <1>2, <1>4, <1>9, <1>10 DEF Calm
<1>12. ContInv(h, j)
  <2> SUFFICES ASSUME j = "cont", ~signal_group_exit(h)
               PROVE  /\ h.shared.signal \cap SIG_KERNEL_STOP_MASK = {}
                      /\ \A u \in Threads : /\ h.task[u].jobctl = {} /\ h.task[u].state # "stopped"
                                            /\ h.task[u].pending.signal \cap SIG_KERNEL_STOP_MASK = {}
    BY DEF ContInv
  <2>1. ~signal_group_exit(g)
    BY <1>2 DEF signal_group_exit
  <2>2. /\ g.shared.signal \cap SIG_KERNEL_STOP_MASK = {}
        /\ \A u \in Threads : /\ g.task[u].jobctl = {} /\ g.task[u].state # "stopped"
                              /\ g.task[u].pending.signal \cap SIG_KERNEL_STOP_MASK = {}
    BY <2>1 DEF Good, ContInv
  <2>3. sig \notin SIG_KERNEL_STOP_MASK
    BY <1>2, <1>3, <2>2
  <2> QED
    BY <1>2, <1>5, <2>2, <2>3
<1>13. Good(h, q, j) /\ signal_group_exit(h) = signal_group_exit(g)
  BY <1>11, <1>12, CalmGood
<1>14. KillInv(g) => KillInv(h)
  BY <1>2, <1>5, <1>13 DEF KillInv
<1> QED
  BY <1>2, <1>13, <1>14

-----------------------------------------------------------------------------
(* Changing a mask *)

\* The threads to which retarget_shared_pending offers the signals of which.
Takers(g, t, s) == {u \in Members(g) \ {t} : ~g.task[u].exiting /\ s \notin g.task[u].blocked}

Retargeted(g, h, t, which) ==
    /\ h \in Group /\ h.shared = g.shared /\ h.flags = g.flags /\ h.group_stop_count = g.group_stop_count
    /\ h.curr_target = g.curr_target /\ h.action = g.action /\ h.sigpending = g.sigpending
    /\ h.timer = g.timer /\ h.task[t] = g.task[t]
    /\ \A u \in Threads : h.task[u] = g.task[u] \/ h.task[u] = signal_wake_up(g.task[u], FALSE)
    /\ \A s \in g.shared.signal \cap which : Takers(g, t, s) # {} =>
           \E u \in Takers(g, t, s) : h.task[u].tif

LEMMA RetargetIs ==
    ASSUME NEW g \in Group, NEW t \in Threads, NEW which
    PROVE  Retargeted(g, retarget_shared_pending(g, t, which), t, which)
<1> DEFINE takers(s) == {u \in Members(g) \ {t} : ~g.task[u].exiting /\ s \notin g.task[u].blocked}
           woken == {FirstFrom(t, takers(s)) : s \in {s \in g.shared.signal \cap which : takers(s) # {}}}
           T == [u \in Threads |-> IF u \in woken /\ ~g.task[u].tif THEN signal_wake_up(g.task[u], FALSE)
                                   ELSE g.task[u]]
           h == retarget_shared_pending(g, t, which)
<1>1. h = [g EXCEPT !.task = T]
  BY DEF retarget_shared_pending
<1>2. \A s : takers(s) = Takers(g, t, s)
  BY DEF Takers
<1>3. \A s : Takers(g, t, s) \subseteq Threads \ {t}
  BY DEF Takers, Members
<1>4. \A s : Takers(g, t, s) # {} => FirstFrom(t, Takers(g, t, s)) \in Takers(g, t, s)
  BY <1>3, FirstIsMember
<1>5. t \notin woken
  BY <1>2, <1>3, <1>4
<1>6. \A s \in g.shared.signal \cap which : Takers(g, t, s) # {} => FirstFrom(t, Takers(g, t, s)) \in woken
  BY <1>2
<1> HIDE DEF woken, h
<1>7. \A u \in Threads : /\ g.task[u] \in Task /\ signal_wake_up(g.task[u], FALSE) \in Task
                         /\ signal_wake_up(g.task[u], FALSE).tif = TRUE
  BY GroupType, WakeIs DEF SameTask
<1>8. T \in [Threads -> Task]
  BY <1>7
<1>9. \A u \in Threads : T[u] = g.task[u] \/ T[u] = signal_wake_up(g.task[u], FALSE)
  OBVIOUS
<1>10. \A u \in Threads : u \in woken => T[u].tif
  BY <1>7
<1>11. T[t] = g.task[t]
  BY <1>5
<1> HIDE DEF T
<1>12. /\ h \in Group /\ h.shared = g.shared /\ h.flags = g.flags /\ h.group_stop_count = g.group_stop_count
       /\ h.curr_target = g.curr_target /\ h.action = g.action /\ h.sigpending = g.sigpending
       /\ h.timer = g.timer /\ h.task = T
  BY <1>1, <1>8 DEF Group
<1>13. ASSUME NEW s \in g.shared.signal \cap which, Takers(g, t, s) # {}
       PROVE  \E u \in Takers(g, t, s) : h.task[u].tif
  <2>1. FirstFrom(t, Takers(g, t, s)) \in Takers(g, t, s) /\ FirstFrom(t, Takers(g, t, s)) \in woken
        /\ FirstFrom(t, Takers(g, t, s)) \in Threads
    BY <1>3, <1>4, <1>6, <1>13
  <2> QED
    BY <1>10, <1>12, <2>1
<1> QED
  BY <1>9, <1>11, <1>12, <1>13 DEF h, Retargeted

\* A step of t on its own task that leaves its queue and its part in a stop alone.
LEMMA OneTaskGood ==
    ASSUME NEW g, NEW r, NEW j, Good(g, r, j), NEW t \in Threads, NEW h, NEW b, OneTask(g, h, t, b), NEW q,
           \A u \in Threads : u # t => q[u] = r[u],
           LinkAt(b, q[t]), MaskAt(b, q[t]), CalmAt(signal_group_exit(g), g.task[t], r[t], b, q[t]),
           b.pending = g.task[t].pending, b.jobctl = g.task[t].jobctl
    PROVE  Good(h, q, j) /\ h.flags = g.flags /\ (KillInv(g) => KillInv(h)) /\ signal_group_exit(h) = signal_group_exit(g)
<1>1. /\ h \in Group /\ h.task[t] = b /\ \A u \in Threads : u # t => h.task[u] = g.task[u]
      /\ h.shared = g.shared /\ h.flags = g.flags /\ h.group_stop_count = g.group_stop_count
      /\ h.action = g.action
  BY DEF OneTask
<1>2. /\ g.action[SIGKILL].handler = "SIG_DFL"
      /\ \A u \in Threads : LinkAt(g.task[u], r[u]) /\ MaskAt(g.task[u], r[u])
  BY DEF Good
<1>3. \A u \in Threads : u # t => CalmAt(signal_group_exit(g), g.task[u], r[u], h.task[u], q[u])
  BY <1>1 DEF CalmAt
<1>4. Calm(g, r, h, q)
  BY <1>1, <1>2, <1>3 DEF Calm
<1>5. signal_group_exit(h) = signal_group_exit(g)
  BY <1>1 DEF signal_group_exit
<1>6. ContInv(h, j)
  <2>1. ContInv(g, j)
    BY DEF Good
  <2>2. b.state = "stopped" <=> g.task[t].state = "stopped"
    BY DEF CalmAt
  <2> QED
    BY <1>1, <1>5, <2>1, <2>2 DEF ContInv
<1>7. KillInv(g) => KillInv(h)
  <2>1. b.exiting = g.task[t].exiting
    BY DEF CalmAt
  <2> QED
    BY <1>1, <1>5, <2>1 DEF KillInv
<1> QED
  BY <1>1, <1>4, <1>5, <1>6, <1>7, CalmGood

\* t has a new mask, and others have been woken for what it no longer takes.
BlocksTo(g, h, t, newset) ==
    LET a == g.task[t]
        b == h.task[t]
    IN /\ h \in Group /\ h.flags = g.flags /\ h.group_stop_count = g.group_stop_count
       /\ h.shared = g.shared /\ h.action = g.action /\ h.sigpending = g.sigpending /\ h.timer = g.timer
       /\ b.exiting = a.exiting /\ b.jobctl = a.jobctl /\ b.real_blocked = a.real_blocked
       /\ b.state = a.state /\ b.pending = a.pending
       /\ b.blocked = newset /\ b.tif = recalc_sigpending_tsk(h, t)
       /\ \A u \in Threads : u # t => h.task[u] = g.task[u] \/ h.task[u] = signal_wake_up(g.task[u], FALSE)
       /\ \A s \in g.shared.signal \cap (newset \ a.blocked) :
              a.tif /\ Takers(g, t, s) # {} => \E u \in Takers(g, t, s) : h.task[u].tif

LEMMA AloneIs ==
    ASSUME NEW g, NEW t \in Members(g), thread_group_empty(g)
    PROVE  Members(g) = {t}
<1>1. IsFiniteSet(Members(g))
  BY ThreadsFinite, FS_Subset DEF Members
<1>2. Cardinality(Members(g)) = 1
  BY DEF thread_group_empty
<1> QED
  BY <1>1, <1>2, FS_Singleton

LEMMA SetTaskBlockedIs ==
    ASSUME NEW g \in Group, NEW t \in Members(g), NEW newset \in SUBSET Signo
    PROVE  BlocksTo(g, set_task_blocked(g, t, newset), t, newset)
<1> DEFINE a == g.task[t]
           which == newset \ a.blocked
           R == retarget_shared_pending(g, t, which)
           new == IF a.tif /\ ~thread_group_empty(g) THEN R ELSE g
           mid == [new EXCEPT !.task[t].blocked = newset]
           h == recalc_sigpending(mid, t)
           b == [a EXCEPT !.blocked = newset]
<1>1. t \in Threads
  BY DEF Members
<1>2. set_task_blocked(g, t, newset) = h
  BY DEF set_task_blocked
<1>3. /\ new \in Group /\ new.shared = g.shared /\ new.flags = g.flags
      /\ new.group_stop_count = g.group_stop_count
      /\ new.action = g.action /\ new.sigpending = g.sigpending /\ new.timer = g.timer /\ new.task[t] = a
      /\ \A u \in Threads : new.task[u] = g.task[u] \/ new.task[u] = signal_wake_up(g.task[u], FALSE)
  <2> HIDE DEF which
  <2>1. /\ R \in Group /\ R.shared = g.shared /\ R.flags = g.flags
        /\ R.group_stop_count = g.group_stop_count
        /\ R.action = g.action /\ R.sigpending = g.sigpending /\ R.timer = g.timer /\ R.task[t] = a
        /\ \A u \in Threads : R.task[u] = g.task[u] \/ R.task[u] = signal_wake_up(g.task[u], FALSE)
    <3>1. Retargeted(g, R, t, which)
      BY <1>1, RetargetIs
    <3> HIDE DEF R
    <3> QED
      BY <3>1 DEF Retargeted
  <2> HIDE DEF R
  <2> QED
    BY <2>1
<1>4. ASSUME NEW s \in g.shared.signal \cap which, a.tif, Takers(g, t, s) # {}
      PROVE  \E u \in Takers(g, t, s) : new.task[u].tif
  <2>1. ~thread_group_empty(g)
    BY <1>4, AloneIs DEF Takers
  <2>2. new = R
    BY <1>4, <2>1
  <2> HIDE DEF new, which
  <2>3. Retargeted(g, R, t, which)
    BY <1>1, RetargetIs
  <2> HIDE DEF R
  <2> QED
    BY <1>4, <2>2, <2>3 DEF Retargeted
<1> HIDE DEF new
<1>5. a \in Task
  BY <1>1, GroupType
<1>6. /\ b \in Task /\ b.blocked = newset /\ b.exiting = a.exiting /\ b.jobctl = a.jobctl
      /\ b.real_blocked = a.real_blocked /\ b.state = a.state /\ b.pending = a.pending
  BY <1>5 DEF Task
<1>7. mid = SetTask(new, t, b)
  BY <1>3 DEF SetTask
<1> HIDE DEF b, mid
<1>8. OneTask(new, mid, t, b)
  BY <1>1, <1>3, <1>6, <1>7, OneTaskIs
<1> DEFINE v == recalc_sigpending_tsk(mid, t)
           c == [mid.task[t] EXCEPT !.tif = v]
<1>9. /\ OneTask(mid, h, t, c) /\ SameTask(mid.task[t], c) /\ c.state = mid.task[t].state
      /\ c.pending = mid.task[t].pending /\ c.tif = v /\ recalc_sigpending_tsk(h, t) = v
  BY <1>1, <1>8, RecalcIs DEF OneTask
<1> HIDE DEF v, c, h
<1>10. \A u \in Threads : u # t => h.task[u] = new.task[u]
  BY <1>8, <1>9 DEF OneTask
<1>11. \A s : Takers(g, t, s) \subseteq Threads \ {t}
  BY DEF Takers, Members
<1>12. \A s \in g.shared.signal \cap (newset \ a.blocked) :
           a.tif /\ Takers(g, t, s) # {} => \E u \in Takers(g, t, s) : h.task[u].tif
  BY <1>4, <1>10, <1>11
<1>13. /\ h \in Group /\ h.flags = g.flags /\ h.group_stop_count = g.group_stop_count
       /\ h.shared = g.shared /\ h.action = g.action /\ h.sigpending = g.sigpending /\ h.timer = g.timer
  BY <1>3, <1>8, <1>9 DEF OneTask
<1>14. /\ h.task[t].exiting = a.exiting /\ h.task[t].jobctl = a.jobctl
       /\ h.task[t].real_blocked = a.real_blocked /\ h.task[t].state = a.state
       /\ h.task[t].pending = a.pending /\ h.task[t].blocked = newset
       /\ h.task[t].tif = recalc_sigpending_tsk(h, t)
  BY <1>6, <1>8, <1>9 DEF OneTask, SameTask
<1> HIDE DEF a
<1>15. BlocksTo(g, h, t, newset)
  BY <1>3, <1>10, <1>12, <1>13, <1>14 DEF BlocksTo, a
<1> QED
  BY <1>2, <1>15

LEMMA BlocksGood ==
    ASSUME NEW g, NEW r, NEW j, Good(g, r, j), NEW t \in Threads, NEW h, NEW newset, BlocksTo(g, h, t, newset), NEW q,
           \A u \in Threads : u # t => q[u] = r[u], newset \cap SIG_KERNEL_ONLY_MASK = {},
           LinkAt(h.task[t], q[t]), MaskAt(h.task[t], q[t]), ~Dying(r[t])
    PROVE  Good(h, q, j) /\ h.flags = g.flags /\ (KillInv(g) => KillInv(h)) /\ signal_group_exit(h) = signal_group_exit(g)
<1> DEFINE a == g.task[t]
           b == h.task[t]
<1>1. /\ h \in Group /\ h.flags = g.flags /\ h.group_stop_count = g.group_stop_count
      /\ h.shared = g.shared /\ h.action = g.action
      /\ b.exiting = a.exiting /\ b.jobctl = a.jobctl
      /\ b.state = a.state /\ b.pending = a.pending
      /\ b.blocked = newset /\ b.tif = recalc_sigpending_tsk(h, t)
      /\ \A u \in Threads : u # t => h.task[u] = g.task[u] \/ h.task[u] = signal_wake_up(g.task[u], FALSE)
  BY DEF BlocksTo
<1>2. /\ g \in Group /\ g.action[SIGKILL].handler = "SIG_DFL" /\ SIGKILL \notin newset
      /\ \A u \in Threads : LinkAt(g.task[u], r[u]) /\ MaskAt(g.task[u], r[u])
  BY DEF Good, SIG_KERNEL_ONLY_MASK
<1>3. recalc_sigpending_tsk(h, t) <=> \/ "STOP_PENDING" \in b.jobctl \/ b.pending.signal \ b.blocked # {}
                                      \/ h.shared.signal \ b.blocked # {}
  BY RecalcType
<1>4. CalmAt(signal_group_exit(g), a, r[t], b, q[t])
  BY <1>1, <1>2, <1>3 DEF CalmAt, Dying
<1>5. ASSUME NEW u \in Threads, u # t
      PROVE  /\ Touched(g.task[u], h.task[u]) /\ h.task[u].pending = g.task[u].pending
             /\ h.task[u].jobctl = g.task[u].jobctl /\ h.task[u].exiting = g.task[u].exiting
             /\ h.task[u].state = "stopped" <=> g.task[u].state = "stopped"
  <2>1. g.task[u] \in Task
    BY <1>2, GroupType
  <2>2. CASE h.task[u] = g.task[u]
    BY <2>1, <2>2 DEF Touched, SameTask
  <2>3. CASE h.task[u] = signal_wake_up(g.task[u], FALSE)
    <3>1. FALSE \in BOOLEAN
      OBVIOUS
    <3> QED
      BY <2>1, <2>3, <3>1, WakeIs DEF Touched, SameTask
  <2> QED
    BY <1>1, <1>5, <2>2, <2>3
<1>6. \A u \in Threads : u # t => /\ LinkAt(h.task[u], q[u]) /\ MaskAt(h.task[u], q[u])
                                  /\ CalmAt(signal_group_exit(g), g.task[u], r[u], h.task[u], q[u])
  BY <1>2, <1>5, TouchedIsCalm
<1>7. Calm(g, r, h, q)
  BY <1>1, <1>2, <1>4, <1>6 DEF Calm
<1>8. signal_group_exit(h) = signal_group_exit(g)
  BY <1>1 DEF signal_group_exit
<1>9. ContInv(h, j)
  <2>1. ContInv(g, j)
    BY DEF Good
  <2> QED
    BY <1>1, <1>5, <1>8, <2>1 DEF ContInv
<1>10. KillInv(g) => KillInv(h)
  BY <1>1, <1>5, <1>8 DEF KillInv
<1> QED
  BY <1>1, <1>7, <1>8, <1>9, <1>10, CalmGood

\* Only handlers have changed, and not that of SIGKILL.
ActOnly(g, h) ==
    /\ h \in Group /\ h.task = g.task /\ h.shared = g.shared /\ h.flags = g.flags
    /\ h.group_stop_count = g.group_stop_count /\ h.sigpending = g.sigpending /\ h.timer = g.timer
    /\ h.action[SIGKILL].handler = "SIG_DFL"

LEMMA ActIs ==
    ASSUME NEW g \in Group, g.action[SIGKILL].handler = "SIG_DFL", NEW sig \in AllSignals, NEW act \in Action,
           sig = SIGKILL => act.handler = "SIG_DFL"
    PROVE  LET h == [g EXCEPT !.action[sig] = act] IN ActOnly(g, h) /\ h.action[sig] = act
<1> DEFINE A == [g.action EXCEPT ![sig] = act]
           h == [g EXCEPT !.action[sig] = act]
<1>1. A \in [AllSignals -> Action] /\ A[sig] = act /\ A[SIGKILL].handler = "SIG_DFL"
  BY GroupType, SignalNumbers
<1>2. h = [g EXCEPT !.action = A]
  OBVIOUS
<1> HIDE DEF A, h
<1>3. h \in Group /\ h.action = A /\ h.task = g.task /\ h.shared = g.shared /\ h.flags = g.flags
      /\ h.group_stop_count = g.group_stop_count /\ h.sigpending = g.sigpending /\ h.timer = g.timer
  BY <1>1, <1>2 DEF Group
<1> QED
  BY <1>1, <1>3 DEF ActOnly, h

LEMMA DefaultIs ==
    ASSUME NEW g \in Group, g.action[SIGKILL].handler = "SIG_DFL", NEW sig \in AllSignals
    PROVE  LET h == [g EXCEPT !.action[sig].handler = "SIG_DFL"] IN
           ActOnly(g, h) /\ h.action[sig].handler = "SIG_DFL"
<1> DEFINE act == [g.action[sig] EXCEPT !.handler = "SIG_DFL"]
<1>1. g.action[sig] \in Action
  BY GroupType
<1>2. act \in Action /\ act.handler = "SIG_DFL"
  BY <1>1 DEF Action, Handlers
<1>3. [g EXCEPT !.action[sig].handler = "SIG_DFL"] = [g EXCEPT !.action[sig] = act]
  OBVIOUS
<1> HIDE DEF act
<1>4. LET h == [g EXCEPT !.action[sig] = act] IN ActOnly(g, h) /\ h.action[sig] = act
  BY <1>2, ActIs
<1> DEFINE h == [g EXCEPT !.action[sig] = act]
<1>5. ActOnly(g, h) /\ h.action[sig] = act
  BY <1>4
<1> HIDE DEF h
<1> QED
  BY <1>2, <1>3, <1>5 DEF h

LEMMA ActGood ==
    ASSUME NEW g, NEW r, NEW j, Good(g, r, j), NEW h, ActOnly(g, h)
    PROVE  Good(h, r, j) /\ (KillInv(g) => KillInv(h)) /\ signal_group_exit(h) = signal_group_exit(g)
<1>1. /\ h \in Group /\ h.task = g.task /\ h.shared = g.shared /\ h.flags = g.flags
      /\ h.group_stop_count = g.group_stop_count /\ h.action[SIGKILL].handler = "SIG_DFL"
  BY DEF ActOnly
<1>2. signal_group_exit(h) = signal_group_exit(g)
  BY <1>1 DEF signal_group_exit
<1>3. Stopped(h) = Stopped(g) /\ Joining(h) = Joining(g)
  BY <1>1 DEF Stopped, Joining
<1>4. Death(h, r) /\ ContInv(h, j)
  BY <1>1, <1>2 DEF Good, Death, ContInv
<1>5. StopInv(h)
  BY <1>1, <1>2, <1>3 DEF Good, StopInv
<1> QED
  BY <1>1, <1>2, <1>4, <1>5 DEF Good, KillInv

\* The first half of force_sig_info: t does not block SIGSEGV any more, and knows what it unblocked.
Unblocked(g, h, t) ==
    LET a == g.task[t]
        b == h.task[t]
    IN /\ h \in Group /\ h.shared = g.shared /\ h.flags = g.flags
       /\ h.group_stop_count = g.group_stop_count /\ h.sigpending = g.sigpending /\ h.timer = g.timer
       /\ h.action[SIGKILL].handler = "SIG_DFL" /\ h.action[SIGSEGV].handler # "SIG_IGN"
       /\ \A u \in Threads : u # t => h.task[u] = g.task[u]
       /\ b.blocked = a.blocked \ {SIGSEGV} /\ b.real_blocked = a.real_blocked /\ b.exiting = a.exiting
       /\ b.jobctl = a.jobctl /\ b.pending = a.pending
       /\ b.state = a.state \/ (a.state = "interruptible" /\ b.state = "running")
       /\ a.tif => b.tif
       /\ b.blocked = a.blocked \/ ~recalc_sigpending_tsk(h, t) \/ b.tif

\* x is what becomes of g when SIGSEGV is forced on t.
Forced(g, x, t, info, mem) ==
    \E k : Unblocked(g, k, t) /\ x = send_signal(k, SIGSEGV, info, t, FALSE, {t}, mem)

LEMMA ForceIs ==
    ASSUME NEW g \in Group, g.action[SIGKILL].handler = "SIG_DFL", NEW t \in Threads, NEW info, NEW mem,
           NEW x, x = force_sig_info(g, SIGSEGV, info, t, mem)
    PROVE  Forced(g, x, t, info, mem)
<1> DEFINE a == g.task[t]
           blocked == SIGSEGV \in a.blocked
           h == IF blocked \/ g.action[SIGSEGV].handler = "SIG_IGN"
                THEN [g EXCEPT !.action[SIGSEGV].handler = "SIG_DFL"] ELSE g
           k == [h EXCEPT !.task[t].blocked = @ \ {SIGSEGV}]
           u == IF blocked THEN recalc_sigpending_and_wake(k, t) ELSE h
           b == [a EXCEPT !.blocked = a.blocked \ {SIGSEGV}]
<1>1. x = send_signal(u, SIGSEGV, info, t, FALSE, {t}, mem)
  BY DEF force_sig_info
<1>2. a \in Task /\ SIGSEGV \in AllSignals
  BY GroupType, SignalNumbers
<1>3. ActOnly(g, h) /\ h.action[SIGSEGV].handler # "SIG_IGN"
  <2>1. ActOnly(g, g)
    BY DEF ActOnly
  <2>2. LET f == [g EXCEPT !.action[SIGSEGV].handler = "SIG_DFL"]
        IN ActOnly(g, f) /\ f.action[SIGSEGV].handler = "SIG_DFL"
    BY <1>2, DefaultIs
  <2> QED
    BY <2>1, <2>2
<1> HIDE DEF h
<1>4. h \in Group /\ h.task[t] = a
  BY <1>3 DEF ActOnly
<1>5. /\ b \in Task /\ b.blocked = a.blocked \ {SIGSEGV} /\ b.real_blocked = a.real_blocked
      /\ b.exiting = a.exiting /\ b.jobctl = a.jobctl /\ b.pending = a.pending /\ b.state = a.state
      /\ b.tif = a.tif
  BY <1>2, TaskType DEF Task
<1>6. k = SetTask(h, t, b)
  BY <1>4 DEF SetTask
<1> HIDE DEF b, k
<1>7. OneTask(h, k, t, b)
  BY <1>4, <1>5, <1>6, OneTaskIs
<1>8. CASE ~blocked
  <2>1. u = h /\ a.blocked = a.blocked \ {SIGSEGV}
    BY <1>8
  <2>2. Unblocked(g, h, t)
    BY <1>3, <1>4, <2>1 DEF Unblocked, ActOnly
  <2> QED
    BY <1>1, <2>1, <2>2 DEF Forced
<1>9. CASE blocked
  <2>1. u = IF recalc_sigpending_tsk(k, t) THEN SetTask(k, t, signal_wake_up(k.task[t], FALSE)) ELSE k
    BY <1>9 DEF recalc_sigpending_and_wake
  <2>2. k \in Group /\ k.task[t] = b
    BY <1>7 DEF OneTask
  <2>3. CASE ~recalc_sigpending_tsk(k, t)
    <3>1. u = k
      BY <2>1, <2>3
    <3>2. Unblocked(g, k, t)
      BY <1>3, <1>5, <1>7, <2>3 DEF Unblocked, ActOnly, OneTask
    <3> QED
      BY <1>1, <3>1, <3>2 DEF Forced
  <2>4. CASE recalc_sigpending_tsk(k, t)
    <3> DEFINE c == signal_wake_up(b, FALSE)
               w == SetTask(k, t, c)
    <3>1. u = w
      BY <2>1, <2>2, <2>4
    <3>2. FALSE \in BOOLEAN
      OBVIOUS
    <3>3. /\ SameTask(b, c) /\ c.pending = b.pending /\ c.tif = TRUE /\ c \in Task
          /\ c.state = b.state \/ (b.state = "interruptible" /\ c.state = "running")
      BY <1>5, <3>2, WakeIs DEF SameTask
    <3> HIDE DEF c
    <3>4. OneTask(k, w, t, c)
      BY <2>2, <3>3, OneTaskIs
    <3> HIDE DEF w
    <3>5. Unblocked(g, w, t)
      BY <1>3, <1>5, <1>7, <3>3, <3>4 DEF Unblocked, ActOnly, OneTask, SameTask
    <3> HIDE DEF u
    <3> QED
      BY <1>1, <3>1, <3>5 DEF Forced
  <2> QED
    BY <2>3, <2>4
<1> QED
  BY <1>8, <1>9

LEMMA UnblockedGood ==
    ASSUME NEW g, NEW r, NEW j, Good(g, r, j), NEW t \in Threads, NEW h, Unblocked(g, h, t),
           ~Dying(r[t])
    PROVE  Good(h, r, j) /\ (KillInv(g) => KillInv(h)) /\ signal_group_exit(h) = signal_group_exit(g)
<1> DEFINE a == g.task[t]
           b == h.task[t]
<1>1. /\ h \in Group /\ h.shared = g.shared /\ h.flags = g.flags /\ h.group_stop_count = g.group_stop_count
      /\ h.action[SIGKILL].handler = "SIG_DFL" /\ \A u \in Threads : u # t => h.task[u] = g.task[u]
      /\ b.blocked = a.blocked \ {SIGSEGV} /\ b.real_blocked = a.real_blocked /\ b.exiting = a.exiting
      /\ b.jobctl = a.jobctl /\ b.pending = a.pending
      /\ b.state = a.state \/ (a.state = "interruptible" /\ b.state = "running")
      /\ a.tif => b.tif
  BY DEF Unblocked
<1>2. \A u \in Threads : LinkAt(g.task[u], r[u]) /\ MaskAt(g.task[u], r[u])
  BY DEF Good
<1>3. LinkAt(b, r[t]) /\ MaskAt(b, r[t])
  BY <1>1, <1>2 DEF LinkAt, MaskAt
<1>4. CalmAt(signal_group_exit(g), a, r[t], b, r[t])
  BY <1>1 DEF CalmAt
<1>5. \A u \in Threads : u # t => CalmAt(signal_group_exit(g), g.task[u], r[u], h.task[u], r[u])
  BY <1>1 DEF CalmAt
<1>6. Calm(g, r, h, r)
  BY <1>1, <1>2, <1>3, <1>4, <1>5 DEF Calm
<1>7. signal_group_exit(h) = signal_group_exit(g)
  BY <1>1 DEF signal_group_exit
<1>8. ContInv(h, j)
  <2>1. ContInv(g, j)
    BY DEF Good
  <2> QED
    BY <1>1, <1>7, <2>1 DEF ContInv
<1>9. KillInv(g) => KillInv(h)
  BY <1>1, <1>7 DEF KillInv
<1> QED
  BY <1>6, <1>7, <1>8, <1>9, CalmGood

-----------------------------------------------------------------------------
(* The group stop *)

\* A group stop is on in which the threads of P, t among them, have yet to take part.
Stopping(g, P, t) ==
    /\ g \in Group /\ ~signal_group_exit(g) /\ "STOP_STOPPED" \notin g.flags
    /\ P = Joining(g) /\ t \in P /\ g.group_stop_count = Cardinality(P)
    /\ \A u \in Threads : "STOP_PENDING" \in g.task[u].jobctl <=> "STOP_CONSUME" \in g.task[u].jobctl
    /\ \A u \in P : g.task[u].state # "stopped" /\ (u # t => g.task[u].tif /\ ~g.task[u].exiting)
    /\ \A u \in Threads : g.task[u].exiting \/ u \in Stopped(g) \cup P

\* t has taken part; told: whether it was the last.
TookPart(g, h, P, t, last) ==
    /\ h \in Group /\ h.shared = g.shared /\ h.action = g.action /\ h.sigpending = g.sigpending
    /\ h.timer = g.timer /\ h.curr_target = g.curr_target
    /\ h.group_stop_count = Cardinality(P \ {t}) /\ last \in BOOLEAN /\ (last <=> P \ {t} = {})
    /\ h.flags = IF last THEN {"STOP_STOPPED"} ELSE g.flags
    /\ h.task[t] = [g.task[t] EXCEPT !.jobctl = {}]
    /\ \A u \in Threads : u # t => h.task[u] = g.task[u]

LEMMA ParticipateIs ==
    ASSUME NEW g, NEW P, NEW t \in Threads, Stopping(g, P, t)
    PROVE  LET x == task_participate_group_stop(g, t) IN TookPart(g, x.group, P, t, x.notify)
<1> DEFINE x == task_participate_group_stop(g, t)
           consume == "STOP_CONSUME" \in g.task[t].jobctl
           count == IF consume /\ g.group_stop_count > 0 THEN g.group_stop_count - 1 ELSE g.group_stop_count
           notify == consume /\ count = 0 /\ "STOP_STOPPED" \notin g.flags
           a == [g.task[t] EXCEPT !.jobctl = {}]
           new == SetTask(g, t, a)
           fl == IF notify THEN signal_set_stop_flags(new.flags, {"STOP_STOPPED"}) ELSE new.flags
           h == [new EXCEPT !.group_stop_count = count, !.flags = fl]
<1>1. x = [group |-> h, notify |-> notify]
  BY DEF task_participate_group_stop, task_clear_jobctl_pending
<1>2. /\ g \in Group /\ consume /\ "STOP_STOPPED" \notin g.flags /\ g.group_stop_count = Cardinality(P) /\ t \in P
      /\ P \subseteq Threads /\ "GROUP_EXIT" \notin g.flags
  BY DEF Stopping, Joining, signal_group_exit
<1>3. IsFiniteSet(P) /\ Cardinality(P) \in Nat /\ Cardinality(P \ {t}) = Cardinality(P) - 1
      /\ IsFiniteSet(P \ {t}) /\ Cardinality(P \ {t}) \in Nat
  BY <1>2, ThreadsFinite, FS_Subset, FS_RemoveElement, FS_CardinalityType
<1>4. Cardinality(P \ {t}) = 0 <=> P \ {t} = {}
  BY <1>3, FS_EmptySet
<1>5. count = Cardinality(P \ {t}) /\ count \in Nat
  BY <1>2, <1>3
<1>6. notify \in BOOLEAN /\ (notify <=> P \ {t} = {})
  BY <1>2, <1>4, <1>5
<1> HIDE DEF count, notify
<1>7. a \in Task
  BY <1>2, GroupType DEF Task
<1> HIDE DEF a
<1>8. OneTask(g, new, t, a)
  BY <1>2, <1>7, OneTaskIs
<1> HIDE DEF new
<1>9. fl = (IF notify THEN {"STOP_STOPPED"} ELSE g.flags) /\ fl \subseteq GroupFlags
  BY <1>2, <1>8, GroupType DEF OneTask, signal_set_stop_flags, GroupFlags
<1> HIDE DEF fl
<1>10. /\ h \in Group /\ h.group_stop_count = count /\ h.flags = fl /\ h.task = new.task
       /\ h.shared = new.shared /\ h.action = new.action /\ h.sigpending = new.sigpending
       /\ h.timer = new.timer /\ h.curr_target = new.curr_target
  BY <1>5, <1>8, <1>9 DEF OneTask, Group
<1> HIDE DEF h
<1>11. TookPart(g, h, P, t, notify)
  BY <1>5, <1>6, <1>8, <1>9, <1>10 DEF TookPart, OneTask, a
<1>12. x.group = h /\ x.notify = notify
  BY <1>1
<1> QED
  BY <1>11, <1>12 DEF x

\* A thread that has the stop pending finds the stop on.
LEMMA JoinStopping ==
    ASSUME NEW g, NEW r, NEW j, Good(g, r, j), NEW t \in Threads, ~signal_group_exit(g),
           "STOP_PENDING" \in g.task[t].jobctl
    PROVE  Stopping(g, Joining(g), t) /\ Stopped(g) # {} /\ j # "cont"
<1>1. g \in Group /\ StopInv(g) /\ ContInv(g, j)
  BY DEF Good
<1>2. t \in Joining(g)
  BY DEF Joining
<1>3. /\ g.group_stop_count = Cardinality(Joining(g)) /\ \A u \in Threads : StopAt(g.task[u])
      /\ Stopped(g) # {} /\ "STOP_STOPPED" \notin g.flags
      /\ \A u \in Threads : g.task[u].exiting \/ u \in Stopped(g) \cup Joining(g)
  BY <1>1, <1>2 DEF StopInv
<1>4. Stopping(g, Joining(g), t)
  <2>1. \A u \in Joining(g) : u \in Threads /\ g.task[u].tif /\ ~g.task[u].exiting /\ g.task[u].state # "stopped"
    BY <1>3 DEF Joining, StopAt
  <2>2. \A u \in Threads : "STOP_PENDING" \in g.task[u].jobctl <=> "STOP_CONSUME" \in g.task[u].jobctl
    BY <1>3 DEF StopAt
  <2> QED
    BY <1>1, <1>2, <1>3, <2>1, <2>2 DEF Stopping
<1>5. j # "cont"
  BY <1>1 DEF ContInv
<1> QED
  BY <1>3, <1>4, <1>5

\* A thread with a stop signal makes every live thread take part.
LEMMA InitiateIs ==
    ASSUME NEW g, NEW r, NEW j, Good(g, r, j), KillInv(g), NEW t \in Threads, ~signal_group_exit(g),
           "STOP_PENDING" \notin g.task[t].jobctl, ~g.task[t].exiting, g.task[t].state # "stopped"
    PROVE  LET h == InitiateStop(g, t)
               P == {u \in Threads : ~g.task[u].exiting /\ g.task[u].state # "stopped"}
           IN /\ Stopping(h, P, t) /\ h.flags = g.flags /\ h.shared = g.shared /\ h.action = g.action
              /\ h.sigpending = g.sigpending /\ h.timer = g.timer /\ h.curr_target = g.curr_target
              /\ h.task[t] = [g.task[t] EXCEPT !.jobctl = @ \cup {"STOP_PENDING", "STOP_CONSUME"}]
              /\ \A u \in Threads : u # t =>
                   \/ u \notin P /\ h.task[u] = g.task[u]
                   \/ u \in P /\ h.task[u] = signal_wake_up([g.task[u] EXCEPT !.jobctl = @ \cup {"STOP_PENDING", "STOP_CONSUME"}], FALSE)
<1> DEFINE h == InitiateStop(g, t)
           P == {u \in Threads : ~g.task[u].exiting /\ g.task[u].state # "stopped"}
           part == {u \in Members(g) : task_set_jobctl_pending(g.task[u]) /\ (u = t \/ g.task[u].state # "stopped")}
           J(u) == [g.task[u] EXCEPT !.jobctl = @ \cup {"STOP_PENDING", "STOP_CONSUME"}]
           K(u) == IF u = t THEN J(u) ELSE signal_wake_up(J(u), FALSE)
           T == [u \in Threads |-> IF u \in part THEN K(u) ELSE g.task[u]]
<1>1. g \in Group /\ StopInv(g) /\ \A u \in Threads : LinkAt(g.task[u], r[u])
  BY DEF Good
<1>2. part = P
  <2>1. \A u \in Threads : g.task[u].state = "dead" => g.task[u].exiting
    BY <1>1 DEF LinkAt
  <2>2. \A u \in Threads : SIGKILL \in g.task[u].pending.signal => g.task[u].exiting
    BY DEF KillInv
  <2> QED
    BY <2>1, <2>2 DEF Members, task_set_jobctl_pending, fatal_signal_pending
<1>3. h = [g EXCEPT !.group_stop_count = Cardinality(part), !.task = T]
  BY DEF InitiateStop
<1>4. IsFiniteSet(P) /\ Cardinality(P) \in Nat
  BY ThreadsFinite, FS_Subset, FS_CardinalityType
<1> HIDE DEF part
<1>5. ASSUME NEW u \in Threads
      PROVE  /\ g.task[u] \in Task /\ J(u) \in Task /\ K(u) \in Task
             /\ J(u).jobctl = g.task[u].jobctl \cup {"STOP_PENDING", "STOP_CONSUME"}
             /\ K(u).jobctl = g.task[u].jobctl \cup {"STOP_PENDING", "STOP_CONSUME"}
             /\ K(u).exiting = g.task[u].exiting /\ (u # t => K(u).tif)
             /\ (K(u).state = "stopped" <=> g.task[u].state = "stopped")
  <2>1. g.task[u] \in Task /\ FALSE \in BOOLEAN
    BY <1>1, GroupType
  <2>2. J(u) \in Task /\ J(u).jobctl = g.task[u].jobctl \cup {"STOP_PENDING", "STOP_CONSUME"}
        /\ J(u).exiting = g.task[u].exiting /\ J(u).state = g.task[u].state
    BY <2>1 DEF Task, JobctlBits
  <2> HIDE DEF J
  <2>3. PICK b : b = signal_wake_up(J(u), FALSE)
    OBVIOUS
  <2>4. SameTask(J(u), b) /\ b.tif = TRUE /\ (b.state = "stopped" <=> J(u).state = "stopped")
    BY <2>1, <2>2, <2>3, WakeIs
  <2>5. K(u) = IF u = t THEN J(u) ELSE b
    BY <2>3
  <2> HIDE DEF K
  <2>6. b \in Task /\ b.exiting = g.task[u].exiting /\ b.jobctl = J(u).jobctl
    BY <2>2, <2>4 DEF SameTask
  <2>7. CASE u = t
    BY <2>1, <2>2, <2>5, <2>7
  <2>8. CASE u # t
    BY <2>1, <2>2, <2>4, <2>5, <2>6, <2>8
  <2> QED
    BY <2>7, <2>8
<1>6. K(t) = J(t) /\ \A u \in Threads : u # t => K(u) = signal_wake_up(J(u), FALSE)
  OBVIOUS
<1>7. t \in P
  OBVIOUS
<1> HIDE DEF J, K
<1>8. T \in [Threads -> Task]
  BY <1>5
<1>9. \A u \in Threads : T[u] = IF u \in P THEN K(u) ELSE g.task[u]
  BY <1>2
<1> HIDE DEF T
<1>10. /\ h \in Group /\ h.task = T /\ h.group_stop_count = Cardinality(P) /\ h.flags = g.flags
      /\ h.shared = g.shared /\ h.action = g.action /\ h.sigpending = g.sigpending
      /\ h.timer = g.timer /\ h.curr_target = g.curr_target
  BY <1>1, <1>2, <1>3, <1>4, <1>8 DEF Group
<1> HIDE DEF h
<1>11. \A u \in Threads : StopAt(g.task[u])
  BY <1>1 DEF StopInv
<1>12. \A u \in Threads : /\ u \in P => "STOP_PENDING" \in T[u].jobctl /\ "STOP_CONSUME" \in T[u].jobctl
                          /\ u \notin P => "STOP_PENDING" \notin T[u].jobctl /\ "STOP_CONSUME" \notin T[u].jobctl
  BY <1>5, <1>9, <1>11 DEF StopAt
<1>13. Joining(h) = P
  BY <1>10, <1>12 DEF Joining
<1>14. "STOP_STOPPED" \notin g.flags
  BY <1>1 DEF StopInv, Joining, Stopped
<1>15. ~signal_group_exit(h)
  BY <1>10 DEF signal_group_exit
<1>16. \A u \in P : h.task[u].state # "stopped" /\ (u # t => h.task[u].tif /\ ~h.task[u].exiting)
  BY <1>5, <1>9, <1>10
<1>17. \A u \in Threads : h.task[u].exiting \/ u \in Stopped(h) \cup P
  BY <1>5, <1>9, <1>10 DEF Stopped
<1>18. Stopping(h, P, t)
  BY <1>10, <1>12, <1>13, <1>14, <1>15, <1>16, <1>17 DEF Stopping
<1>19. h.task[t] = J(t)
  BY <1>9, <1>10, <1>6, <1>7
<1>20. ASSUME NEW u \in Threads, u # t
       PROVE  \/ u \notin P /\ h.task[u] = g.task[u]
              \/ u \in P /\ h.task[u] = signal_wake_up(J(u), FALSE)
  <2> HIDE DEF P
  <2>1. h.task[u] = IF u \in P THEN K(u) ELSE g.task[u]
    BY <1>9, <1>10
  <2>2. K(u) = signal_wake_up(J(u), FALSE)
    BY <1>20, <1>6
  <2> QED
    BY <2>1, <2>2
<1> QED
  BY <1>10, <1>18, <1>19, <1>20 DEF h, J

\* What a step of a group stop leaves alone in a task: it may only be woken, or stop.
Joins(a, b) ==
    /\ b \in Task /\ b.exiting = a.exiting /\ b.blocked = a.blocked /\ b.real_blocked = a.real_blocked
    /\ b.pending = a.pending /\ (a.tif => b.tif)

\* t stops, the last to do so or not; the others may have been asked to join.
Halted(g, h, t, last) ==
    /\ h \in Group /\ h.shared = g.shared /\ h.action = g.action /\ h.sigpending = g.sigpending
    /\ h.timer = g.timer /\ h.flags = IF last THEN {"STOP_STOPPED"} ELSE g.flags
    /\ \A u \in Threads : /\ Joins(g.task[u], h.task[u])
                          /\ u # t => \/ h.task[u].state = g.task[u].state
                                      \/ g.task[u].state = "interruptible" /\ h.task[u].state = "running"
    /\ h.task[t].state = "stopped" /\ h.task[t].jobctl = {} /\ h.group_stop_count = Cardinality(Joining(h))
    /\ (last <=> Joining(h) = {}) /\ last \in BOOLEAN /\ "STOP_STOPPED" \notin g.flags
    /\ \A u \in Threads : u # t => StopAt(h.task[u])
    /\ \A u \in Threads : h.task[u].exiting \/ u \in Stopped(h) \cup Joining(h)
    /\ \A u \in Threads : g.task[u].state = "dead" => h.task[u] = g.task[u]

\* From a group stop that is on, t stops.
LEMMA HaltIs ==
    ASSUME NEW g, NEW P, NEW t \in Threads, Stopping(g, P, t), g.task[t].exiting = FALSE,
           g.task[t].state # "dead"
    PROVE  LET x == task_participate_group_stop(g, t)
               h == [x.group EXCEPT !.task[t].state = "stopped"]
           IN /\ h \in Group /\ h.task[t] = [g.task[t] EXCEPT !.jobctl = {}, !.state = "stopped"]
              /\ \A u \in Threads : u # t => h.task[u] = g.task[u]
              /\ Halted(g, h, t, x.notify)
<1> DEFINE x == task_participate_group_stop(g, t)
           a == [g.task[t] EXCEPT !.jobctl = {}, !.state = "stopped"]
           h == [x.group EXCEPT !.task[t].state = "stopped"]
<1>1. TookPart(g, x.group, P, t, x.notify)
  BY ParticipateIs
<1>2. PICK k, last : k = x.group /\ last = x.notify
  OBVIOUS
<1> HIDE DEF x
<1>3. g \in Group /\ g.task[t] \in Task /\ a \in Task /\ a.tif = g.task[t].tif /\ a.pending = g.task[t].pending
      /\ a.blocked = g.task[t].blocked /\ a.real_blocked = g.task[t].real_blocked /\ a.exiting = FALSE
      /\ a.state = "stopped" /\ a.jobctl = {}
  <2>1. g \in Group /\ g.task[t] \in Task
    BY GroupType DEF Stopping
  <2> QED
    BY <2>1 DEF Task
<1>4. k \in Group /\ k.task[t] = [g.task[t] EXCEPT !.jobctl = {}] /\ k.task \in [Threads -> Task]
  BY <1>1, <1>2, GroupType DEF TookPart
<1>5. h = SetTask(k, t, a)
  BY <1>2, <1>3, <1>4 DEF SetTask, Group, Task
<1> HIDE DEF h, a
<1>6. OneTask(k, h, t, a)
  BY <1>3, <1>4, <1>5, OneTaskIs
<1>7. /\ h \in Group /\ h.task[t] = a /\ \A u \in Threads : u # t => h.task[u] = g.task[u]
      /\ h.shared = g.shared /\ h.action = g.action /\ h.sigpending = g.sigpending /\ h.timer = g.timer
      /\ h.flags = IF last THEN {"STOP_STOPPED"} ELSE g.flags
      /\ h.group_stop_count = Cardinality(P \ {t}) /\ last \in BOOLEAN /\ (last <=> P \ {t} = {})
  BY <1>1, <1>2, <1>6 DEF OneTask, TookPart
<1>8. /\ "STOP_STOPPED" \notin g.flags /\ P = Joining(g)
      /\ \A u \in Threads : "STOP_PENDING" \in g.task[u].jobctl <=> "STOP_CONSUME" \in g.task[u].jobctl
      /\ \A u \in P : g.task[u].state # "stopped" /\ (u # t => g.task[u].tif /\ ~g.task[u].exiting)
      /\ \A u \in Threads : g.task[u].exiting \/ u \in Stopped(g) \cup P
  BY DEF Stopping
<1>9. Joining(h) = P \ {t}
  BY <1>3, <1>7, <1>8 DEF Joining
<1>10. \A u \in Threads : u # t => StopAt(h.task[u])
  BY <1>7, <1>8 DEF StopAt, Joining
<1>11. \A u \in Threads : h.task[u].exiting \/ u \in Stopped(h) \cup Joining(h)
  BY <1>3, <1>7, <1>8, <1>9 DEF Stopped
<1>12. \A u \in Threads : g.task[u] \in Task
  BY <1>3, GroupType
<1>13. \A u \in Threads : /\ Joins(g.task[u], h.task[u])
                          /\ u # t => \/ h.task[u].state = g.task[u].state
                                      \/ g.task[u].state = "interruptible" /\ h.task[u].state = "running"
  BY <1>3, <1>7, <1>12 DEF Joins
<1>14. \A u \in Threads : g.task[u].state = "dead" => h.task[u] = g.task[u]
  BY <1>7
<1>15. Halted(g, h, t, last)
  BY <1>3, <1>7, <1>8, <1>9, <1>10, <1>11, <1>13, <1>14 DEF Halted
<1> QED
  BY <1>2, <1>7, <1>15 DEF h, a, x

\* do_signal_stop: the group stop that is on, or a new one, and t stops.
LEMMA StopIs ==
    ASSUME NEW g, NEW r, NEW j, Good(g, r, j), KillInv(g), NEW t \in Threads, ~signal_group_exit(g),
           g.task[t].exiting = FALSE, g.task[t].state = "running",
           "STOP_PENDING" \in g.task[t].jobctl \/ "STOP_DEQUEUED" \in g.task[t].jobctl
    PROVE  LET new == IF "STOP_PENDING" \in g.task[t].jobctl THEN g ELSE InitiateStop(g, t)
               x == task_participate_group_stop(new, t)
               h == [x.group EXCEPT !.task[t].state = "stopped"]
           IN Halted(g, h, t, x.notify) /\ j # "cont"
<1> DEFINE new == IF "STOP_PENDING" \in g.task[t].jobctl THEN g ELSE InitiateStop(g, t)
           x == task_participate_group_stop(new, t)
           h == [x.group EXCEPT !.task[t].state = "stopped"]
<1>1. j # "cont"
  BY DEF Good, ContInv
<1>2. CASE "STOP_PENDING" \in g.task[t].jobctl
  <2>1. new = g
    BY <1>2
  <2>2. Stopping(g, Joining(g), t)
    BY <1>2, JoinStopping
  <2> QED
    BY <1>1, <2>1, <2>2, HaltIs
<1>3. CASE "STOP_PENDING" \notin g.task[t].jobctl
  <2>1. PICK k, P : k = InitiateStop(g, t) /\ P = {u \in Threads : ~g.task[u].exiting /\ g.task[u].state # "stopped"}
    OBVIOUS
  <2>2. /\ Stopping(k, P, t) /\ k.flags = g.flags /\ k.shared = g.shared /\ k.action = g.action
        /\ k.sigpending = g.sigpending /\ k.timer = g.timer
        /\ k.task[t] = [g.task[t] EXCEPT !.jobctl = @ \cup {"STOP_PENDING", "STOP_CONSUME"}]
        /\ \A u \in Threads : u # t =>
             \/ u \notin P /\ k.task[u] = g.task[u]
             \/ u \in P /\ k.task[u] = signal_wake_up([g.task[u] EXCEPT !.jobctl = @ \cup {"STOP_PENDING", "STOP_CONSUME"}], FALSE)
    <3>1. ~g.task[t].exiting /\ g.task[t].state # "stopped"
      OBVIOUS
    <3>2. LET z == InitiateStop(g, t)
              Q == {u \in Threads : ~g.task[u].exiting /\ g.task[u].state # "stopped"}
          IN /\ Stopping(z, Q, t) /\ z.flags = g.flags /\ z.shared = g.shared /\ z.action = g.action
             /\ z.sigpending = g.sigpending /\ z.timer = g.timer /\ z.curr_target = g.curr_target
             /\ z.task[t] = [g.task[t] EXCEPT !.jobctl = @ \cup {"STOP_PENDING", "STOP_CONSUME"}]
             /\ \A u \in Threads : u # t =>
                   \/ u \notin Q /\ z.task[u] = g.task[u]
                   \/ u \in Q /\ z.task[u] = signal_wake_up([g.task[u] EXCEPT !.jobctl = @ \cup {"STOP_PENDING", "STOP_CONSUME"}], FALSE)
      BY <1>3, <3>1, InitiateIs
    <3> QED
      BY <2>1, <3>2
  <2>3. \A u \in Threads : g.task[u] \in Task
    BY GroupType DEF Good
  <2>4. Joins(g.task[t], k.task[t]) /\ k.task[t].state = "running"
    BY <2>2, <2>3 DEF Joins, Task, JobctlBits
  <2>5. ASSUME NEW u \in Threads, u # t
        PROVE  /\ Joins(g.task[u], k.task[u])
               /\ \/ k.task[u].state = g.task[u].state
                  \/ g.task[u].state = "interruptible" /\ k.task[u].state = "running"
               /\ g.task[u].state = "dead" => k.task[u] = g.task[u]
    <3>1. CASE u \notin P /\ k.task[u] = g.task[u]
      BY <2>3, <3>1 DEF Joins
    <3>2. CASE u \in P /\ k.task[u] = signal_wake_up([g.task[u] EXCEPT !.jobctl = @ \cup {"STOP_PENDING", "STOP_CONSUME"}], FALSE)
      <4> DEFINE c == [g.task[u] EXCEPT !.jobctl = @ \cup {"STOP_PENDING", "STOP_CONSUME"}]
      <4>1. c \in Task /\ c.exiting = g.task[u].exiting /\ c.blocked = g.task[u].blocked /\ c.pending = g.task[u].pending
            /\ c.real_blocked = g.task[u].real_blocked /\ c.tif = g.task[u].tif /\ c.state = g.task[u].state
        BY <2>3 DEF Task, JobctlBits
      <4>2. k.task[u] = signal_wake_up(c, FALSE) /\ FALSE \in BOOLEAN
        BY <3>2
      <4> HIDE DEF c
      <4>3. SameTask(c, k.task[u]) /\ k.task[u].pending = c.pending /\ k.task[u].tif = TRUE
            /\ k.task[u].state = IF c.state = "interruptible" THEN "running" ELSE c.state
        BY <4>1, <4>2, WakeIs
      <4>4. g.task[u].state # "dead"
        BY <2>1, <3>2 DEF Good, LinkAt
      <4> QED
        BY <4>1, <4>3, <4>4 DEF SameTask, Joins
    <3> QED
      BY <2>2, <2>5, <3>1, <3>2
  <2>6. k.task[t].exiting = FALSE /\ new = k /\ k.task[t].state # "dead"
    BY <1>3, <2>1, <2>4 DEF Joins
  <2> HIDE DEF new
  <2>7. Halted(k, h, t, x.notify)
    BY <2>2, <2>6, HaltIs
  <2> HIDE DEF h, x
  <2>8. ASSUME NEW u \in Threads
        PROVE  /\ Joins(g.task[u], h.task[u])
               /\ u # t => \/ h.task[u].state = g.task[u].state
                           \/ g.task[u].state = "interruptible" /\ h.task[u].state = "running"
               /\ g.task[u].state = "dead" => h.task[u] = g.task[u]
    BY <2>4, <2>5, <2>7 DEF Halted, Joins
  <2>9. Halted(g, h, t, x.notify)
    BY <2>2, <2>7, <2>8 DEF Halted
  <2> QED
    BY <1>1, <2>9 DEF h, x, new
<1> QED
  BY <1>2, <1>3

\* Where t is when it has stopped: about to tell the parent when it was the last.
Rests(r, q, t, last) ==
    /\ \A u \in Threads : u # t => q[u] = r[u]
    /\ q[t].pc = (IF last THEN "stopnotify" ELSE "stopped") /\ (last => q[t].why = "stopped")
    /\ q[t].which = r[t].which /\ q[t].saved = r[t].saved

LEMMA HaltGood ==
    ASSUME NEW g, NEW r, NEW j, Good(g, r, j), KillInv(g), NEW t \in Threads, ~signal_group_exit(g), j # "cont",
           ~g.task[t].exiting, g.task[t].state = "running", NEW h, NEW last, Halted(g, h, t, last), NEW q,
           Rests(r, q, t, last)
    PROVE  Good(h, q, j) /\ KillInv(h) /\ ("STOP_STOPPED" \in h.flags => q[t].pc = "stopnotify")
<1>1. /\ \A u \in Threads : u # t => q[u] = r[u]
      /\ q[t].pc = (IF last THEN "stopnotify" ELSE "stopped") /\ (last => q[t].why = "stopped")
      /\ q[t].which = r[t].which /\ q[t].saved = r[t].saved
  BY DEF Rests
<1>2. /\ g \in Group /\ g.action[SIGKILL].handler = "SIG_DFL"
      /\ \A u \in Threads : LinkAt(g.task[u], r[u]) /\ MaskAt(g.task[u], r[u])
  BY DEF Good
<1>3. /\ h \in Group /\ h.shared = g.shared /\ h.action = g.action
      /\ h.flags = IF last THEN {"STOP_STOPPED"} ELSE g.flags
      /\ h.task[t].state = "stopped" /\ h.task[t].jobctl = {} /\ h.group_stop_count = Cardinality(Joining(h))
      /\ (last <=> Joining(h) = {}) /\ last \in BOOLEAN /\ "STOP_STOPPED" \notin g.flags
      /\ \A u \in Threads : u # t => StopAt(h.task[u])
      /\ \A u \in Threads : h.task[u].exiting \/ u \in Stopped(h) \cup Joining(h)
      /\ \A u \in Threads : g.task[u].state = "dead" => h.task[u] = g.task[u]
  BY DEF Halted
<1>4. \A u \in Threads : /\ Joins(g.task[u], h.task[u])
                         /\ u # t => \/ h.task[u].state = g.task[u].state
                                     \/ g.task[u].state = "interruptible" /\ h.task[u].state = "running"
  BY DEF Halted
<1>5. ~signal_group_exit(h)
  BY <1>3 DEF signal_group_exit
<1>6. ASSUME NEW u \in Threads
      PROVE  LinkAt(h.task[u], q[u]) /\ MaskAt(h.task[u], q[u])
  <2>1. CASE u = t
    BY <1>1, <1>2, <1>3, <1>4, <2>1 DEF LinkAt, MaskAt, Joins
  <2>2. CASE u # t
    BY <1>1, <1>2, <1>3, <1>4, <2>2 DEF LinkAt, MaskAt, Joins
  <2> QED
    BY <2>1, <2>2
<1>7. Death(h, q) /\ ContInv(h, j)
  BY <1>5 DEF Death, ContInv
<1>8. StopInv(h)
  <2>1. t \in Stopped(h)
    BY <1>3 DEF Stopped
  <2>2. StopAt(h.task[t])
    BY <1>3 DEF StopAt
  <2>3. "STOP_STOPPED" \in h.flags <=> last
    BY <1>3
  <2> QED
    BY <1>3, <2>1, <2>2, <2>3 DEF StopInv
<1>9. KillInv(h)
  BY <1>4 DEF KillInv, Joins
<1> QED
  BY <1>1, <1>2, <1>3, <1>6, <1>7, <1>8, <1>9 DEF Good

-----------------------------------------------------------------------------
(* The steps: stops, continues and the group exit *)

\* The part of the invariant that group stops, continues and the group exit rest on.
Core ==
    /\ run \in [Threads -> Run] /\ siglock \in Threads \cup {NULL} /\ LockInv
    /\ Good(group, run, job) /\ KillInv(group)
    /\ ToldInv(group, run, told) /\ GoneInv(group, told)

\* Who holds siglock after a step of t that leaves it at v.
LockStep(t, v) ==
    \/ siglock' = siglock /\ (v.pc = "loop" <=> run[t].pc = "loop")
    \/ siglock \in {NULL, t} /\ siglock' = IF v.pc = "loop" THEN t ELSE NULL

LEMMA MembersBy ==
    ASSUME NEW g, NEW r, NEW j, Good(g, r, j)
    PROVE  Members(g) = {t \in Threads : r[t].pc # "dead"}
BY DEF Members, Good, LinkAt

\* What is left to show of a step in which t moves.
LEMMA CoreStep ==
    ASSUME Core, NEW t \in Threads, NEW v \in Run, run' = [run EXCEPT ![t] = v], LockStep(t, v),
           Good(group', run', job'), KillInv(group'), told' = told,
           v.pc = "dead" <=> run[t].pc = "dead",
           "STOP_STOPPED" \in group'.flags => "STOP_STOPPED" \in group.flags \/ v.pc \in {"stopnotify", "exitnotify"},
           run[t].pc \in {"stopnotify", "exitnotify"} => v.pc = run[t].pc
    PROVE  Core'
<1>1. run' \in [Threads -> Run] /\ run'[t] = v /\ \A u \in Threads : u # t => run'[u] = run[u]
  BY DEF Core
<1>2. siglock' \in Threads \cup {NULL}
  BY DEF Core, LockStep
<1>3. LockInv'
  <2>1. \A u \in Threads : u # NULL
    BY SignalsConstants
  <2>2. \A u \in Threads : siglock = u <=> run[u].pc = "loop"
    BY DEF Core, LockInv
  <2>3. \A u \in Threads : siglock' = u <=> run'[u].pc = "loop"
    <3>1. CASE siglock' = siglock /\ (v.pc = "loop" <=> run[t].pc = "loop")
      BY <1>1, <2>2, <3>1
    <3>2. CASE siglock \in {NULL, t} /\ siglock' = IF v.pc = "loop" THEN t ELSE NULL
      BY <1>1, <2>1, <2>2, <3>2
    <3> QED
      BY <3>1, <3>2 DEF LockStep
  <2> QED
    BY <2>3 DEF LockInv
<1>4. Members(group') = Members(group)
  <2>1. Good(group, run, job)
    BY DEF Core
  <2>2. Members(group) = {u \in Threads : run[u].pc # "dead"}
    BY <2>1, MembersBy
  <2>3. Members(group') = {u \in Threads : run'[u].pc # "dead"}
    BY MembersBy
  <2> QED
    BY <1>1, <2>2, <2>3
<1>5. GoneInv(group', told')
  <2>1. leader \in Threads /\ GoneInv(group, told)
    BY ThreadsFinite DEF Core
  <2>2. group'.task[leader].state = "dead" <=> group.task[leader].state = "dead"
    BY <1>4, <2>1 DEF Members
  <2> QED
    BY <1>4, <2>1, <2>2 DEF GoneInv
<1>6. ToldInv(group', run', told')
  BY <1>1 DEF Core, ToldInv
<1> QED
  BY <1>1, <1>2, <1>3, <1>5, <1>6 DEF Core

\* A step in which no thread moves.
LEMMA CoreStill ==
    ASSUME Core, run' = run, siglock' = siglock, told' = told, Good(group', run, job'), KillInv(group'),
           "STOP_STOPPED" \in group'.flags => "STOP_STOPPED" \in group.flags
    PROVE  Core'
<1>1. leader \in Threads /\ run = [run EXCEPT ![leader] = run[leader]] /\ run[leader] \in Run
  BY ThreadsFinite DEF Core
<1>2. LockStep(leader, run[leader])
  BY DEF LockStep
<1> QED
  BY <1>1, <1>2, CoreStep

LEMMA MoveGood ==
    ASSUME NEW g, NEW r, NEW j, Good(g, r, j), NEW t \in Threads, NEW q,
           \A u \in Threads : u # t => q[u] = r[u], LinkAt(g.task[t], q[t]), MaskAt(g.task[t], q[t]),
           signal_group_exit(g) =>
               /\ Dying(r[t]) => Dying(q[t])
               /\ r[t].pc \in ExitPcs \ {"exitlock"} => q[t].pc \in ExitPcs \ {"exitlock"}
    PROVE  Good(g, q, j)
<1>1. OneTask(g, g, t, g.task[t])
  BY DEF OneTask, Good
<1>2. CalmAt(signal_group_exit(g), g.task[t], r[t], g.task[t], q[t])
  BY DEF CalmAt
<1> QED
  BY <1>1, <1>2, OneTaskGood

LEMMA RunType ==
    ASSUME NEW v \in Run
    PROVE  /\ v.pc \in Pcs /\ v.sig \in AllSignals \cup {0} /\ v.saved \in (SUBSET Signo) \cup {NULL}
           /\ v.which \subseteq AllSignals /\ v.ka \in Action /\ v.why \in {"none", "stopped", "continued"}
BY DEF Run

LEMMA GotoIs ==
    ASSUME run \in [Threads -> Run], NEW t \in Threads, NEW at \in Pcs
    PROVE  LET v == [run[t] EXCEPT !.pc = at]
           IN /\ v \in Run /\ v.pc = at /\ v.sig = run[t].sig /\ v.saved = run[t].saved /\ v.which = run[t].which
              /\ v.ka = run[t].ka /\ v.why = run[t].why
              /\ Goto(t, at) => run' = [run EXCEPT ![t] = v]
<1>1. run[t] \in Run
  OBVIOUS
<1> QED
  BY <1>1 DEF Run, Goto

\* t goes on to another place in the code, and the group stays as it is.
LEMMA CoreMove ==
    ASSUME Core, NEW t \in Threads, NEW at \in Pcs, Goto(t, at), group' = group, job' = job, told' = told,
           \/ siglock' = siglock /\ (at = "loop" <=> run[t].pc = "loop")
           \/ siglock \in {NULL, t} /\ siglock' = IF at = "loop" THEN t ELSE NULL,
           LinkAt(group.task[t], [run[t] EXCEPT !.pc = at]),
           run[t].pc \notin {"dead", "stopnotify", "exitnotify"}, at # "dead",
           signal_group_exit(group) =>
               /\ run[t].pc \in ExitPcs \cup {"fatal", "rearm"} => at \in ExitPcs \cup {"fatal"}
               /\ run[t].pc \in ExitPcs \ {"exitlock"} => at \in ExitPcs \ {"exitlock"}
    PROVE  Core'
<1> DEFINE v == [run[t] EXCEPT !.pc = at]
<1>1. run \in [Threads -> Run] /\ Good(group, run, job) /\ KillInv(group)
  BY DEF Core
<1>2. /\ v \in Run /\ v.pc = at /\ v.saved = run[t].saved /\ v.which = run[t].which
      /\ run' = [run EXCEPT ![t] = v]
  BY <1>1, GotoIs
<1> HIDE DEF v
<1>3. run'[t] = v /\ \A u \in Threads : u # t => run'[u] = run[u]
  BY <1>1, <1>2
<1>4. LinkAt(group.task[t], v) /\ MaskAt(group.task[t], v)
  <2>1. MaskAt(group.task[t], run[t])
    BY <1>1 DEF Good
  <2> QED
    BY <1>2, <2>1 DEF MaskAt, v
<1>5. Good(group, run', job)
  <2>1. signal_group_exit(group) =>
            /\ Dying(run[t]) => Dying(run'[t])
            /\ run[t].pc \in ExitPcs \ {"exitlock"} => run'[t].pc \in ExitPcs \ {"exitlock"}
    BY <1>2, <1>3 DEF Dying
  <2> QED
    BY <1>1, <1>2, <1>3, <1>4, <2>1, MoveGood
<1>6. LockStep(t, v)
  BY <1>2 DEF LockStep
<1> QED
  BY <1>1, <1>2, <1>5, <1>6, CoreStep

\* What LinkAt says of a thread at a place, when it moves to a place of the same kind.
LEMMA LinkMove ==
    ASSUME Core, NEW t \in Threads, NEW at \in Pcs,
           at \notin {"dead", "exitnotify", "exited", "rearm", "deliver", "stopnotify"},
           run[t].pc \notin {"dead", "exitnotify", "exited"},
           group.task[t].state = "running" \/ at = run[t].pc
    PROVE  LinkAt(group.task[t], [run[t] EXCEPT !.pc = at])
<1>1. run \in [Threads -> Run] /\ LinkAt(group.task[t], run[t])
  BY DEF Core, Good
<1>2. [run[t] EXCEPT !.pc = at].pc = at
  BY <1>1, GotoIs
<1> QED
  BY <1>1, <1>2 DEF LinkAt

\* Outside pause, sigtimedwait and a stop a live thread runs.
LEMMA Running ==
    ASSUME Core, NEW t \in Threads, run[t].pc \notin {"dead", "stopped", "stopnotify", "pause", "sigwait"}
    PROVE  group.task[t].state = "running"
<1>1. group.task[t] \in Task /\ LinkAt(group.task[t], run[t])
  BY GroupType DEF Core, Good
<1> QED
  BY <1>1, TaskType DEF LinkAt

LEMMA PcsAre ==
    /\ {"user", "out", "pause", "sigwait", "rearm", "orphan", "stop", "restore", "deliver", "segv", "fatal"} \subseteq Pcs
    /\ {"exit", "exitlock", "exitnotify", "exited", "dead", "stopped", "stopnotify", "relock", "notify", "loop"} \subseteq Pcs
BY DEF Pcs, ExitPcs, LoopPcs

LEMMA PauseCore ==
    ASSUME Core, NEW t \in Threads, pause(t)
    PROVE  Core'
<1>1. run[t].pc = "user" /\ Goto(t, "pause") /\ UNCHANGED <<group, siglock, told, job>>
  BY DEF pause
<1>2. group.task[t].state = "running" /\ "pause" \in Pcs
  BY <1>1, Running, PcsAre
<1>3. LinkAt(group.task[t], [run[t] EXCEPT !.pc = "pause"])
  BY <1>1, <1>2, LinkMove
<1> QED
  BY <1>1, <1>2, <1>3, CoreMove DEF ExitPcs, Dying

LEMMA ExitToUserCore ==
    ASSUME Core, NEW t \in Threads, exit_to_usermode_loop(t)
    PROVE  Core'
<1>1. PICK at \in {"relock", "user"} : run[t].pc \in {"user", "out"} /\ Goto(t, at) /\ UNCHANGED <<group, siglock, told, job>>
  BY DEF exit_to_usermode_loop
<1>2. group.task[t].state = "running" /\ at \in Pcs
  BY <1>1, Running, PcsAre
<1>3. LinkAt(group.task[t], [run[t] EXCEPT !.pc = at])
  BY <1>1, <1>2, LinkMove
<1> QED
  BY <1>1, <1>2, <1>3, CoreMove DEF ExitPcs, Dying

LEMMA OrphanedCore ==
    ASSUME Core, NEW t \in Threads, CheckOrphaned(t)
    PROVE  Core'
<1>1. PICK at \in {"relock", "stop"} : run[t].pc = "orphan" /\ Goto(t, at) /\ UNCHANGED <<group, siglock, told, job>>
  BY DEF CheckOrphaned
<1>2. group.task[t].state = "running" /\ at \in Pcs
  BY <1>1, Running, PcsAre
<1>3. LinkAt(group.task[t], [run[t] EXCEPT !.pc = at])
  BY <1>1, <1>2, LinkMove
<1> QED
  BY <1>1, <1>2, <1>3, CoreMove DEF ExitPcs, Dying

LEMMA ResumeCore ==
    ASSUME Core, NEW t \in Threads, Resume(t)
    PROVE  Core'
<1>1. run[t].pc = "stopped" /\ group.task[t].state = "running" /\ Goto(t, "relock") /\ UNCHANGED <<group, siglock, told, job>>
  BY DEF Resume
<1>2. "relock" \in Pcs
  BY PcsAre
<1>3. LinkAt(group.task[t], [run[t] EXCEPT !.pc = "relock"])
  BY <1>1, <1>2, LinkMove
<1> QED
  BY <1>1, <1>2, <1>3, CoreMove DEF ExitPcs, Dying

LEMMA ExitCore ==
    ASSUME Core, NEW t \in Threads, do_exit(t) \/ ExitAmongOthers(t)
    PROVE  Core'
<1>1. PICK at \in {"exit", "exitlock"} :
        /\ run[t].pc \in {"user", "exit"} /\ (at = "exitlock" => ~signal_group_exit(group))
        /\ Goto(t, at) /\ UNCHANGED <<group, siglock, told, job>>
  BY DEF do_exit, ExitAmongOthers
<1>2. group.task[t].state = "running" /\ at \in Pcs
  BY <1>1, Running, PcsAre
<1>3. LinkAt(group.task[t], [run[t] EXCEPT !.pc = at])
  BY <1>1, <1>2, LinkMove
<1> QED
  BY <1>1, <1>2, <1>3, CoreMove DEF ExitPcs, Dying

\* Only a thread that has stopped can have news of the stop; a continue has undone it.
LEMMA NotStopped ==
    ASSUME NEW g, NEW r, NEW j, Good(g, r, j), NEW t \in Threads, r[t].pc \notin {"stopped", "stopnotify"},
           ~g.task[t].exiting
    PROVE  "STOP_STOPPED" \notin g.flags
<1>1. g.task[t].state # "stopped"
  BY DEF Good, LinkAt
<1>2. CASE signal_group_exit(g)
  BY <1>2 DEF Good, Death
<1>3. CASE ~signal_group_exit(g)
  <2>1. StopInv(g)
    BY DEF Good
  <2> QED
    BY <1>1, <1>3, <2>1 DEF StopInv, Stopped
<1> QED
  BY <1>2, <1>3

LEMMA NotifyCore ==
    ASSUME Core, NEW t \in Threads, NotifyParent(t)
    PROVE  Core'
<1> DEFINE at == CASE run[t].pc = "notify" -> "relock"
                   [] run[t].pc = "stopnotify" -> "stopped"
                   [] run[t].pc = "exitnotify" -> "exited"
           v == [run[t] EXCEPT !.why = "none", !.pc = at]
<1>1. /\ run[t].pc \in {"notify", "stopnotify", "exitnotify"} /\ told' = run[t].why
      /\ group' = group /\ siglock' = siglock /\ job' = job
  BY DEF NotifyParent
<1>2. run \in [Threads -> Run] /\ run[t] \in Run /\ Good(group, run, job) /\ KillInv(group) /\ LockInv
      /\ siglock \in Threads \cup {NULL} /\ ToldInv(group, run, told) /\ GoneInv(group, told)
  BY DEF Core
<1>3. run' = [run EXCEPT ![t] = v]
  BY <1>2 DEF NotifyParent, Run
<1>4. /\ at \in Pcs /\ at \notin {"dead", "loop", "fatal", "rearm", "deliver", "stopnotify", "exitnotify", "exitlock"}
      /\ run[t].pc = "notify" => at = "relock"
      /\ run[t].pc = "stopnotify" => at = "stopped"
      /\ run[t].pc = "exitnotify" => at = "exited"
  BY <1>1, PcsAre
<1> HIDE DEF at
<1>5. v \in Run /\ v.pc = at /\ v.saved = run[t].saved /\ v.which = run[t].which
  BY <1>2, <1>4 DEF Run
<1> HIDE DEF v
<1>6. run' \in [Threads -> Run] /\ run'[t] = v /\ \A u \in Threads : u # t => run'[u] = run[u]
  BY <1>2, <1>3, <1>5
<1>7. LinkAt(group.task[t], v) /\ MaskAt(group.task[t], v)
  <2>1. LinkAt(group.task[t], run[t]) /\ MaskAt(group.task[t], run[t])
    BY <1>2 DEF Good
  <2>2. run[t].pc = "notify" => group.task[t].state = "running"
    BY Running
  <2>3. MaskAt(group.task[t], v)
    BY <1>5, <2>1 DEF MaskAt
  <2>4. LinkAt(group.task[t], v)
    BY <1>1, <1>4, <1>5, <2>1, <2>2 DEF LinkAt
  <2> QED
    BY <2>3, <2>4
<1>8. Good(group', run', job')
  <2>1. /\ Dying(run[t]) => Dying(v)
        /\ run[t].pc \in ExitPcs \ {"exitlock"} => v.pc \in ExitPcs \ {"exitlock"}
    BY <1>1, <1>4, <1>5 DEF ExitPcs, Dying
  <2>2. Good(group, run', job)
    BY <1>2, <1>6, <1>7, <2>1, MoveGood
  <2> QED
    BY <1>1, <2>2
<1>9. LockInv'
  BY <1>1, <1>2, <1>4, <1>5, <1>6 DEF LockInv
<1>10. Members(group') = Members(group)
  BY <1>1
<1>11. GoneInv(group', told')
  <2>1. run[t].why # "exited"
    BY <1>2 DEF Run
  <2> QED
    BY <1>1, <1>2, <2>1 DEF GoneInv
<1>12. ToldInv(group', run', told')
  <2>1. CASE run[t].pc = "notify"
    <3>1. ~group.task[t].exiting
      BY <1>2, <2>1 DEF Good, LinkAt
    <3>2. "STOP_STOPPED" \notin group.flags
      BY <1>2, <2>1, <3>1, NotStopped
    <3> QED
      BY <1>1, <3>2 DEF ToldInv
  <2>2. CASE run[t].pc # "notify"
    <3>1. run[t].why = "stopped"
      BY <1>1, <1>2, <2>2 DEF Good, LinkAt
    <3> QED
      BY <1>1, <3>1 DEF ToldInv
  <2> QED
    BY <2>1, <2>2
<1> QED
  BY <1>1, <1>2, <1>6, <1>8, <1>9, <1>11, <1>12 DEF Core

LEMMA NotifyExitCore ==
    ASSUME Core, NEW t \in Threads, do_notify_parent(t)
    PROVE  Core'
<1>1. /\ t = leader /\ run[t].pc = "exited" /\ Members(group) = {leader} /\ told' = "exited"
      /\ UNCHANGED <<group, siglock, run, job>>
  BY DEF do_notify_parent
<1>2. "STOP_STOPPED" \notin group.flags
  <2>1. CASE signal_group_exit(group)
    BY <2>1 DEF Core, Good, Death
  <2>2. CASE ~signal_group_exit(group)
    <3>1. Stopped(group) \subseteq Members(group)
      BY DEF Stopped, Members
    <3>2. group.task[leader].state # "stopped"
      BY <1>1 DEF Core, Good, LinkAt
    <3>3. Stopped(group) = {}
      BY <1>1, <3>1, <3>2 DEF Stopped
    <3> QED
      BY <2>2, <3>3 DEF Core, Good, StopInv
  <2> QED
    BY <2>1, <2>2
<1>3. group.task[leader].state # "dead"
  BY <1>1 DEF Members
<1>4. GoneInv(group', told')
  BY <1>1, <1>3 DEF GoneInv
<1>5. ToldInv(group', run', told')
  BY <1>1, <1>2 DEF ToldInv
<1> QED
  BY <1>1, <1>4, <1>5 DEF Core, LockInv

\* The news of a continue are taken off the flags; those of the stop and the exit stay.
LEMMA NoticeCore ==
    ASSUME Core, NEW t \in Threads, NoticeContinue(t)
    PROVE  Core'
<1> DEFINE h == [group EXCEPT !.flags = @ \ {"CLD_STOPPED", "CLD_CONTINUED"}]
           why == IF "CLD_CONTINUED" \in group.flags THEN "continued" ELSE "stopped"
           v == [run[t] EXCEPT !.pc = "notify", !.why = why]
<1>1. /\ run[t].pc = "relock" /\ siglock = NULL /\ siglock' = siglock /\ job' = job /\ told' = told
      /\ group.flags \cap {"CLD_STOPPED", "CLD_CONTINUED"} # {} /\ group' = h
  BY DEF NoticeContinue, Locked
<1>2. run \in [Threads -> Run] /\ run[t] \in Run /\ Good(group, run, job) /\ KillInv(group)
      /\ group \in Group /\ Death(group, run) /\ StopInv(group) /\ ContInv(group, job)
  BY DEF Core, Good
<1>3. run' = [run EXCEPT ![t] = v]
  BY <1>2 DEF NoticeContinue, Run
<1>4. v \in Run /\ v.pc = "notify" /\ v.saved = run[t].saved /\ v.which = run[t].which
  BY <1>2, PcsAre DEF Run
<1> HIDE DEF v
<1>5. run'[t] = v /\ \A u \in Threads : u # t => run'[u] = run[u]
  BY <1>2, <1>3, <1>4
<1>6. ~signal_group_exit(group)
  BY <1>1, <1>2 DEF Death
<1>7. /\ h \in Group /\ h.flags = group.flags \ {"CLD_STOPPED", "CLD_CONTINUED"} /\ h.task = group.task
      /\ h.shared = group.shared /\ h.action = group.action /\ h.group_stop_count = group.group_stop_count
  BY <1>2 DEF Group
<1> HIDE DEF h
<1>8. ~signal_group_exit(h)
  BY <1>6, <1>7 DEF signal_group_exit
<1>9. \A u \in Threads : LinkAt(h.task[u], run'[u]) /\ MaskAt(h.task[u], run'[u])
  <2>1. \A u \in Threads : LinkAt(group.task[u], run[u]) /\ MaskAt(group.task[u], run[u])
    BY <1>2 DEF Good
  <2>2. group.task[t].state = "running"
    BY <1>1, Running
  <2>3. LinkAt(h.task[t], v) /\ MaskAt(h.task[t], v)
    BY <1>1, <1>4, <1>7, <2>1, <2>2 DEF LinkAt, MaskAt
  <2> QED
    BY <1>5, <1>7, <2>1, <2>3
<1>10. Death(h, run') /\ ContInv(h, job)
  BY <1>2, <1>6, <1>7, <1>8 DEF Death, ContInv
<1>11. StopInv(h)
  BY <1>2, <1>6, <1>7, <1>8 DEF StopInv, Joining, Stopped
<1>12. KillInv(h)
  BY <1>2, <1>6, <1>7 DEF KillInv
<1>13. Good(h, run', job) 
  BY <1>2, <1>7, <1>9, <1>10, <1>11 DEF Good
<1>14. LockStep(t, v)
  BY <1>1, <1>4 DEF LockStep
<1> QED
  BY <1>1, <1>3, <1>4, <1>7, <1>12, <1>13, <1>14, CoreStep

\* A thread in the kernel on its own account sets its mask and moves on.
Masked(t, newset, v) ==
    /\ run[t].pc \in {"user", "restore", "deliver"} /\ newset \cap SIG_KERNEL_ONLY_MASK = {}
    /\ group' = set_current_blocked(group, t, newset) /\ run' = [run EXCEPT ![t] = v]
    /\ v.pc \in {"user", "pause", "out"} /\ (v.pc = "user" => run[t].pc = "user")
    /\ v.which \cap SIG_KERNEL_ONLY_MASK = {} /\ (v.saved # NULL => v.saved \cap SIG_KERNEL_ONLY_MASK = {})
    /\ siglock' = siglock /\ told' = told /\ job' = job

LEMMA MaskCore ==
    ASSUME Core, NEW t \in Threads, NEW newset \in SUBSET Signo, NEW v \in Run, Masked(t, newset, v)
    PROVE  Core'
<1> USE DEF Masked
<1>1. run \in [Threads -> Run] /\ Good(group, run, job) /\ KillInv(group) /\ group \in Group
  BY DEF Core, Good
<1>2. group.task[t].state = "running"
  BY Running
<1>3. run'[t] = v /\ \A u \in Threads : u # t => run'[u] = run[u]
  BY <1>1
<1>4. LinkAt(group.task[t], run[t]) /\ MaskAt(group.task[t], run[t])
  BY <1>1 DEF Good
<1>5. ~Dying(run[t])
  BY DEF ExitPcs, Dying
<1>6. Good(group', run', job) /\ group'.flags = group.flags /\ KillInv(group')
  <2>1. CASE newset = group.task[t].blocked
    <3>1. group' = group
      BY <2>1 DEF set_current_blocked
    <3>2. LinkAt(group.task[t], run'[t]) /\ MaskAt(group.task[t], run'[t])
      BY <1>2, <1>3, <1>4 DEF LinkAt, MaskAt
    <3>3. Good(group, run', job)
      BY <1>1, <1>3, <1>5, <3>2, MoveGood DEF Dying
    <3> QED
      BY <1>1, <3>1, <3>3
  <2>2. CASE newset # group.task[t].blocked
    <3>1. group' = set_task_blocked(group, t, newset) /\ t \in Members(group)
      BY <1>2, <2>2 DEF set_current_blocked, Members
    <3>2. BlocksTo(group, group', t, newset)
      BY <1>1, <3>1, SetTaskBlockedIs
    <3>3. LinkAt(group'.task[t], run'[t]) /\ MaskAt(group'.task[t], run'[t])
      BY <1>2, <1>3, <1>4, <3>2 DEF LinkAt, MaskAt, BlocksTo
    <3> QED
      <4>1. PICK h, q : h = group' /\ q = run'
        OBVIOUS
      <4>2. /\ BlocksTo(group, h, t, newset) /\ LinkAt(h.task[t], q[t]) /\ MaskAt(h.task[t], q[t])
            /\ \A u \in Threads : u # t => q[u] = run[u]
        BY <1>3, <3>2, <3>3, <4>1
      <4>3. Good(h, q, job) /\ h.flags = group.flags /\ (KillInv(group) => KillInv(h))
        BY <1>1, <1>5, <4>2, BlocksGood
      <4> QED
        BY <1>1, <4>1, <4>3
  <2> QED
    BY <2>1, <2>2
<1>7. LockStep(t, v)
  BY DEF LockStep
<1> QED
  BY <1>1, <1>6, <1>7, CoreStep

LEMMA BlockableIs ==
    ASSUME NEW s
    PROVE  Blockable(s) \subseteq s /\ Blockable(s) \cap SIG_KERNEL_ONLY_MASK = {}
BY DEF Blockable

LEMMA MaskBits ==
    ASSUME Core, NEW t \in Threads
    PROVE  /\ group \in Group /\ group.task[t] \in Task /\ group.task[t].blocked \subseteq Signo
           /\ group.task[t].blocked \cap SIG_KERNEL_ONLY_MASK = {}
           /\ group.task[t].real_blocked \subseteq Signo /\ group.task[t].real_blocked \cap SIG_KERNEL_ONLY_MASK = {}
           /\ run \in [Threads -> Run] /\ run[t] \in Run /\ run[t].which \cap SIG_KERNEL_ONLY_MASK = {}
           /\ run[t].saved # NULL => run[t].saved \subseteq Signo /\ run[t].saved \cap SIG_KERNEL_ONLY_MASK = {}
           /\ LinkAt(group.task[t], run[t])
<1>1. group \in Group /\ run \in [Threads -> Run] /\ MaskAt(group.task[t], run[t]) /\ LinkAt(group.task[t], run[t])
  BY DEF Core, Good
<1>2. group.task[t] \in Task
  BY <1>1, GroupType
<1>3. run[t] \in Run
  BY <1>1
<1> QED
  BY <1>1, <1>2, <1>3, TaskType, RunType DEF MaskAt

LEMMA SigprocmaskIs ==
    ASSUME Core, NEW t \in Threads, NEW how \in {"SIG_BLOCK", "SIG_UNBLOCK", "SIG_SETMASK"}, NEW set \in Masks,
           rt_sigprocmask(t, how, set)
    PROVE  \E newset \in SUBSET Signo, v \in Run : Masked(t, newset, v)
<1> DEFINE new == sigprocmask(group.task[t].blocked, how, Blockable(set))
<1>1. /\ run[t].pc = "user" /\ siglock' = siglock /\ run' = run /\ told' = told /\ job' = job
      /\ group' = set_current_blocked(group, t, new)
  BY DEF rt_sigprocmask, Locked
<1>2. set \subseteq Signo
  BY SignalsConstants DEF Signo
<1>3. new \subseteq Signo /\ new \cap SIG_KERNEL_ONLY_MASK = {}
  BY <1>2, MaskBits, BlockableIs DEF sigprocmask
<1> HIDE DEF new
<1>4. run[t] \in Run /\ run' = [run EXCEPT ![t] = run[t]]
  BY <1>1, MaskBits
<1> QED
  BY <1>1, <1>3, <1>4, MaskBits DEF Masked

LEMMA SuspendIs ==
    ASSUME Core, NEW t \in Threads, NEW set \in Masks, sigsuspend(t, set)
    PROVE  \E newset \in SUBSET Signo, v \in Run : Masked(t, newset, v)
<1> DEFINE v == [run[t] EXCEPT !.pc = "pause", !.saved = group.task[t].blocked]
<1>1. /\ run[t].pc = "user" /\ siglock' = siglock /\ told' = told /\ job' = job
      /\ group' = set_current_blocked(group, t, Blockable(set))
  BY DEF sigsuspend, Locked
<1>2. Blockable(set) \subseteq Signo /\ Blockable(set) \cap SIG_KERNEL_ONLY_MASK = {}
  BY SignalsConstants, BlockableIs DEF Signo
<1>3. /\ v \in Run /\ v.pc = "pause" /\ v.saved = group.task[t].blocked /\ v.which = run[t].which
      /\ run' = [run EXCEPT ![t] = v]
  BY MaskBits, PcsAre DEF Run, sigsuspend
<1> HIDE DEF v
<1> QED
  BY <1>1, <1>2, <1>3, MaskBits DEF Masked

LEMMA RestoreIs ==
    ASSUME Core, NEW t \in Threads, RestoreMask(t)
    PROVE  \E newset \in SUBSET Signo, v \in Run : Masked(t, newset, v)
<1> DEFINE v == [run[t] EXCEPT !.pc = "out", !.saved = NULL]
           new == IF run[t].saved = NULL THEN group.task[t].blocked ELSE run[t].saved
<1>1. run[t].pc = "restore" /\ siglock' = siglock /\ told' = told /\ job' = job
  BY DEF RestoreMask, Locked
<1>2. group' = set_current_blocked(group, t, new)
  BY DEF RestoreMask, set_current_blocked
<1>3. v \in Run /\ v.pc = "out" /\ v.saved = NULL /\ v.which = run[t].which /\ run' = [run EXCEPT ![t] = v]
  BY MaskBits, PcsAre DEF Run, RestoreMask
<1>4. new \subseteq Signo /\ new \cap SIG_KERNEL_ONLY_MASK = {}
  BY MaskBits
<1> HIDE DEF v, new
<1> QED
  BY <1>1, <1>2, <1>3, <1>4, MaskBits DEF Masked

LEMMA IdleType ==
    ASSUME NEW at \in Pcs
    PROVE  Idle(at) \in Run /\ Idle(at).pc = at /\ Idle(at).which = {} /\ Idle(at).saved = NULL /\ Idle(at).sig = 0
           /\ Idle(at).why = "none"
BY ActionTypes DEF Idle, Run

LEMMA DeliveredIs ==
    ASSUME Core, NEW t \in Threads, signal_delivered(t)
    PROVE  \E newset \in SUBSET Signo, v \in Run : Masked(t, newset, v)
<1> DEFINE own == IF "SA_NODEFER" \in run[t].ka.flags THEN {} ELSE {run[t].sig}
           new == Blockable(group.task[t].blocked \cup run[t].ka.mask \cup own)
<1>1. run[t].pc = "deliver" /\ siglock' = siglock /\ told' = told /\ job' = job
      /\ group' = set_current_blocked(group, t, new) /\ run' = [run EXCEPT ![t] = Idle("out")]
  BY DEF signal_delivered, Locked
<1>2. run[t].ka.mask \subseteq Signo /\ run[t].sig \in Signo
  <2>1. run[t].sig # 0
    BY <1>1, MaskBits DEF LinkAt
  <2>2. run[t].sig \in AllSignals /\ run[t].ka \in Action
    BY <2>1, MaskBits, RunType
  <2> QED
    BY <2>2, SignalNumbers DEF Action
<1>3. new \subseteq Signo /\ new \cap SIG_KERNEL_ONLY_MASK = {}
  BY <1>2, MaskBits, BlockableIs
<1>4. Idle("out") \in Run /\ Idle("out").pc = "out" /\ Idle("out").which = {} /\ Idle("out").saved = NULL
  BY PcsAre, IdleType
<1> HIDE DEF new
<1> QED
  BY <1>1, <1>3, <1>4 DEF Masked

\* Settable signals do not include SIGKILL, so that its action stays.
LEMMA SigactionCore ==
    ASSUME Core, NEW t \in Threads, NEW sig \in Settable, NEW act \in Actions, do_sigaction(t, sig, act)
    PROVE  Core'
<1> DEFINE new == [group EXCEPT !.action[sig] = [act EXCEPT !.mask = Blockable(@)]]
<1>1. /\ siglock' = siglock /\ run' = run /\ told' = told /\ job' = job
      /\ group' = IF sig_handler_ignored(act, sig) THEN FlushAll(new, {sig}) ELSE new
  BY DEF do_sigaction, Locked
<1>2. Good(group, run, job) /\ KillInv(group) /\ group \in Group /\ group.action[SIGKILL].handler = "SIG_DFL"
  BY DEF Core, Good
<1>3. sig \in AllSignals /\ SIGKILL \notin {sig}
  BY SignalNumbers, SignalsConstants DEF SIG_KERNEL_ONLY_MASK
<1>4. [act EXCEPT !.mask = Blockable(@)] \in Action
  BY ActionTypes, BlockableIs DEF Action
<1>5. ActOnly(group, new)
  BY <1>2, <1>3, <1>4, ActIs
<1> HIDE DEF new
<1>6. Good(new, run, job) /\ KillInv(new) /\ new.flags = group.flags
  BY <1>2, <1>5, ActGood DEF ActOnly
<1>7. CASE group' = new
  BY <1>1, <1>6, <1>7, CoreStill
<1>8. CASE group' = FlushAll(new, {sig})
  <2>1. PICK h : h = FlushAll(new, {sig})
    OBVIOUS
  <2>2. /\ TouchedAll(new, h) /\ Good(h, run, job) /\ signal_group_exit(h) = signal_group_exit(new)
        /\ \A u \in Threads : h.task[u].pending.signal = new.task[u].pending.signal \ {sig}
    BY <1>3, <1>6, <2>1, FlushGood
  <2>3. h.flags = group.flags /\ KillInv(h)
    BY <1>6, <2>2 DEF TouchedAll, Touched, SameTask, KillInv
  <2> QED
    BY <1>1, <1>8, <2>1, <2>2, <2>3, CoreStill
<1> QED
  BY <1>1, <1>7, <1>8

LEMMA SleepCore ==
    ASSUME Core, NEW t \in Threads, Sleep(t)
    PROVE  Core'
<1>1. run[t].pc = "pause" /\ siglock' = siglock /\ told' = told /\ job' = job
  BY DEF Sleep
<1>2. PICK s \in {"running", "interruptible"}, v \in Run :
        /\ group' = [group EXCEPT !.task[t].state = s] /\ run' = [run EXCEPT ![t] = v]
        /\ v.pc = IF s = "running" THEN "out" ELSE "pause"
        /\ v.saved = run[t].saved /\ v.which = run[t].which
  <2>1. CASE group.task[t].tif
    <3>1. Goto(t, "out") /\ group' = [group EXCEPT !.task[t].state = "running"]
      BY <2>1 DEF Sleep
    <3>2. PICK w : w = [run[t] EXCEPT !.pc = "out"]
      OBVIOUS
    <3>3. w \in Run /\ w.pc = "out" /\ w.saved = run[t].saved /\ w.which = run[t].which /\ run' = [run EXCEPT ![t] = w]
      BY <3>1, <3>2, MaskBits, PcsAre, GotoIs
    <3> QED
      BY <3>1, <3>3
  <2>2. CASE ~group.task[t].tif
    <3>1. run' = run /\ group' = [group EXCEPT !.task[t].state = "interruptible"]
      BY <2>2 DEF Sleep
    <3>2. run' = [run EXCEPT ![t] = run[t]] /\ run[t] \in Run
      BY <3>1, MaskBits
    <3> QED
      BY <1>1, <3>1, <3>2
  <2> QED
    BY <2>1, <2>2
<1> DEFINE a == group.task[t]
           b == [a EXCEPT !.state = s]
<1>3. Good(group, run, job) /\ KillInv(group) /\ group \in Group /\ run \in [Threads -> Run] /\ a \in Task
      /\ LinkAt(a, run[t]) /\ MaskAt(a, run[t])
  BY MaskBits DEF Core, Good
<1>4. group' = SetTask(group, t, b) /\ b \in Task /\ b.state = s /\ b.pending = a.pending /\ b.jobctl = a.jobctl
      /\ b.tif = a.tif /\ b.exiting = a.exiting /\ b.blocked = a.blocked /\ b.real_blocked = a.real_blocked
  BY <1>2, <1>3 DEF SetTask, Group, Task
<1> HIDE DEF b
<1>5. OneTask(group, group', t, b)
  BY <1>3, <1>4, OneTaskIs
<1>6. run'[t] = v /\ \A u \in Threads : u # t => run'[u] = run[u]
  BY <1>2, <1>3
<1>7. LinkAt(b, v) /\ MaskAt(b, v)
  BY <1>1, <1>2, <1>3, <1>4 DEF LinkAt, MaskAt
<1>8. CalmAt(signal_group_exit(group), a, run[t], b, v)
  BY <1>1, <1>2, <1>3, <1>4 DEF CalmAt, LinkAt, ExitPcs, Dying
<1>9. LockStep(t, v)
  BY <1>1, <1>2 DEF LockStep
<1>10. Good(group', run', job) /\ group'.flags = group.flags /\ KillInv(group')
  <2>1. PICK h, q : h = group' /\ q = run'
    OBVIOUS
  <2>2. OneTask(group, h, t, b) /\ LinkAt(b, q[t]) /\ MaskAt(b, q[t]) /\ \A u \in Threads : u # t => q[u] = run[u]
    BY <1>5, <1>6, <1>7, <2>1
  <2>3. CalmAt(signal_group_exit(group), group.task[t], run[t], b, q[t])
    BY <1>6, <1>8, <2>1
  <2>4. Good(h, q, job) /\ h.flags = group.flags /\ (KillInv(group) => KillInv(h))
    BY <1>3, <1>4, <2>2, <2>3, OneTaskGood
  <2> QED
    BY <1>3, <2>1, <2>4
<1> QED
  BY <1>1, <1>2, <1>9, <1>10, CoreStep

\* Who is marked for death has taken its SIGKILL and is on its way out.
LEMMA MarkedCore ==
    ASSUME Core, NEW t \in Threads, MarkedForDeath(t)
    PROVE  Core'
<1> DEFINE a == group.task[t]
           c == [a EXCEPT !.pending.signal = @ \ {SIGKILL}]
           k == [group EXCEPT !.task[t].pending.signal = @ \ {SIGKILL}]
           v == [run[t] EXCEPT !.pc = "fatal"]
<1>1. run[t].pc = "relock" /\ signal_group_exit(group) /\ siglock' = siglock /\ told' = told /\ job' = job
      /\ Goto(t, "fatal") /\ group' = recalc_sigpending(k, t)
  BY DEF MarkedForDeath, Locked
<1>2. Good(group, run, job) /\ KillInv(group) /\ group \in Group /\ run \in [Threads -> Run] /\ a \in Task
      /\ LinkAt(a, run[t]) /\ MaskAt(a, run[t])
  BY MaskBits DEF Core, Good
<1>3. v \in Run /\ v.pc = "fatal" /\ v.saved = run[t].saved /\ v.which = run[t].which /\ run' = [run EXCEPT ![t] = v]
  BY <1>1, <1>2, PcsAre, GotoIs
<1>4. k = SetTask(group, t, c) /\ c \in Task /\ c.state = a.state /\ c.jobctl = a.jobctl
      /\ c.exiting = a.exiting /\ c.blocked = a.blocked /\ c.real_blocked = a.real_blocked
  BY <1>2 DEF SetTask, Group, Task, Pending
<1> HIDE DEF c, k, v
<1>5. OneTask(group, k, t, c)
  BY <1>2, <1>4, OneTaskIs
<1>6. PICK b : OneTask(k, group', t, b) /\ SameTask(c, b) /\ b.state = c.state
  <2>1. k \in Group /\ k.task[t] = c
    BY <1>5 DEF OneTask
  <2> QED
    <3>1. LET z == recalc_sigpending(k, t)
              d == [k.task[t] EXCEPT !.tif = recalc_sigpending_tsk(k, t)]
          IN OneTask(k, z, t, d) /\ SameTask(k.task[t], d) /\ d.state = k.task[t].state
      BY <2>1, RecalcIs
    <3> QED
      BY <1>1, <2>1, <3>1
<1>7. OneTask(group, group', t, b)
  BY <1>5, <1>6 DEF OneTask
<1>8. group.task[t].state = "running"
  BY <1>1, Running
<1>9. LinkAt(b, v) /\ MaskAt(b, v)
  BY <1>1, <1>2, <1>3, <1>4, <1>6, <1>8 DEF LinkAt, MaskAt, SameTask
<1>10. CalmAt(TRUE, a, run[t], b, v)
  BY <1>1, <1>3, <1>4, <1>6, <1>8 DEF CalmAt, SameTask, ExitPcs, Dying
<1>11. run'[t] = v /\ \A u \in Threads : u # t => run'[u] = run[u]
  BY <1>2, <1>3
<1>12. Calm(group, run, group', run')
  <2>1. \A u \in Threads : LinkAt(group.task[u], run[u]) /\ MaskAt(group.task[u], run[u])
    BY <1>2 DEF Good
  <2>2. \A u \in Threads : LinkAt(group'.task[u], run'[u]) /\ MaskAt(group'.task[u], run'[u])
    BY <1>7, <1>9, <1>11, <2>1 DEF OneTask
  <2>3. \A u \in Threads : CalmAt(TRUE, group.task[u], run[u], group.task[u], run[u])
    BY DEF CalmAt
  <2>4. \A u \in Threads : CalmAt(TRUE, group.task[u], run[u], group'.task[u], run'[u])
    BY <1>7, <1>10, <1>11, <2>3 DEF OneTask
  <2>5. signal_group_exit(group) = TRUE
    BY <1>1 DEF signal_group_exit
  <2>6. /\ group' \in Group /\ group'.flags = group.flags /\ group'.group_stop_count = group.group_stop_count
        /\ group'.action[SIGKILL].handler = "SIG_DFL"
    BY <1>2, <1>7 DEF OneTask, Good
  <2> QED
    BY <2>2, <2>4, <2>5, <2>6 DEF Calm
<1>13. signal_group_exit(group') /\ group'.flags = group.flags
  BY <1>1, <1>7 DEF OneTask, signal_group_exit
<1>14. ContInv(group', job) /\ KillInv(group')
  BY <1>13 DEF ContInv, KillInv
<1>15. Good(group', run', job)
  BY <1>2, <1>12, <1>14, CalmGood
<1>16. LockStep(t, v)
  BY <1>1, <1>3 DEF LockStep
<1> QED
  BY <1>1, <1>3, <1>13, <1>14, <1>15, <1>16, CoreStep

LEMMA RecalcOne ==
    ASSUME NEW g \in Group, NEW t \in Threads
    PROVE  \E b : /\ OneTask(g, recalc_sigpending(g, t), t, b) /\ SameTask(g.task[t], b) /\ b.state = g.task[t].state
                  /\ b.pending = g.task[t].pending /\ b.tif = recalc_sigpending_tsk(g, t)
<1>1. LET z == recalc_sigpending(g, t)
          d == [g.task[t] EXCEPT !.tif = recalc_sigpending_tsk(g, t)]
      IN OneTask(g, z, t, d) /\ SameTask(g.task[t], d) /\ d.state = g.task[t].state
         /\ d.pending = g.task[t].pending /\ d.tif = recalc_sigpending_tsk(g, t)
  BY RecalcIs
<1> QED
  BY <1>1

LEMMA TookKeeps ==
    ASSUME NEW g, NEW h, NEW t, NEW sig, Took(g, h, t, sig)
    PROVE  /\ h \in Group /\ h.flags = g.flags /\ h.action = g.action /\ h.timer = g.timer
           /\ h.task[t].state = g.task[t].state /\ h.task[t].exiting = g.task[t].exiting
           /\ h.task[t].blocked = g.task[t].blocked /\ h.task[t].real_blocked = g.task[t].real_blocked
           /\ \A u \in Threads : u # t => h.task[u] = g.task[u]
           /\ sig \in SIG_KERNEL_STOP_MASK => "STOP_DEQUEUED" \in h.task[t].jobctl
           /\ "STOP_PENDING" \in h.task[t].jobctl => "STOP_PENDING" \in g.task[t].jobctl
BY DEF Took, TookFrom

\* A thread that runs in the kernel takes a signal, not SIGKILL, and moves on.
LEMMA TookMove ==
    ASSUME NEW g, NEW r, NEW j, Good(g, r, j), KillInv(g), NEW t \in Threads, NEW h, NEW sig, Took(g, h, t, sig),
           NEW q, \A u \in Threads : u # t => q[u] = r[u], g.task[t].state = "running", ~g.task[t].exiting,
           q[t].pc \notin ExitPcs \cup {"rearm", "deliver", "stopnotify"}, q[t].which \cap SIG_KERNEL_ONLY_MASK = {},
           q[t].saved = r[t].saved \/ q[t].saved = NULL, ~Dying(r[t]),
           signal_group_exit(g) /\ sig = SIGKILL => q[t].pc = "fatal"
    PROVE  Good(h, q, j) /\ KillInv(h) /\ h.flags = g.flags
<1>1. /\ h.task[t].state = "running" /\ h.task[t].exiting = g.task[t].exiting
      /\ h.task[t].blocked = g.task[t].blocked /\ h.task[t].real_blocked = g.task[t].real_blocked
  BY TookKeeps
<1>2. LinkAt(h.task[t], q[t])
  BY <1>1 DEF LinkAt, ExitPcs, Dying
<1>3. MaskAt(g.task[t], r[t])
  BY DEF Good
<1>4. MaskAt(h.task[t], q[t])
  BY <1>1, <1>3 DEF MaskAt
<1>5. signal_group_exit(g) /\ sig = SIGKILL => Dying(q[t])
  BY DEF Dying
<1> QED
  BY <1>2, <1>4, <1>5, TookGood

LEMMA SigwaitCore ==
    ASSUME Core, NEW t \in Threads, NEW set \in Masks, NEW timeout, do_sigtimedwait(t, set, timeout)
    PROVE  Core'
<1> DEFINE which == Blockable(set)
           d == dequeue_signal(group, t, AllSignals \ which)
           k == d.group
           a == group.task[t]
           c == [k.task[t] EXCEPT !.real_blocked = a.blocked, !.blocked = @ \ which, !.state = "interruptible"]
<1>1. run[t].pc = "user" /\ siglock' = siglock /\ told' = told /\ job' = job
  BY DEF do_sigtimedwait, Locked
<1>2. Good(group, run, job) /\ KillInv(group) /\ group \in Group /\ run \in [Threads -> Run]
      /\ LinkAt(a, run[t]) /\ MaskAt(a, run[t]) /\ run[t] \in Run
  BY MaskBits DEF Core, Good
<1>3. a.state = "running" /\ ~a.exiting /\ ~Dying(run[t])
  BY <1>1, <1>2, Running DEF LinkAt, ExitPcs, Dying
<1>4. which \subseteq AllSignals /\ which \cap SIG_KERNEL_ONLY_MASK = {} /\ SIGKILL \notin which
  BY SignalNumbers, BlockableIs DEF SIG_KERNEL_ONLY_MASK
<1>5. \/ group' = k /\ Goto(t, "out")
      \/ /\ d.sig = 0 /\ group' = recalc_sigpending(SetTask(k, t, c), t)
         /\ run' = [run EXCEPT ![t].pc = "sigwait", ![t].which = which]
  BY DEF do_sigtimedwait
<1> HIDE DEF which
<1>6. Took(group, k, t, d.sig) /\ (d.sig = 0 \/ (d.sig \in AllSignals /\ d.sig \notin AllSignals \ which))
  BY <1>2, DequeueSignalIs
<1>7. d.sig # SIGKILL
  BY <1>4, <1>6 DEF SIGKILL
<1> HIDE DEF d
<1>8. CASE group' = k /\ Goto(t, "out")
  <2>1. PICK v : v = [run[t] EXCEPT !.pc = "out"]
    OBVIOUS
  <2>2. v \in Run /\ v.pc = "out" /\ v.saved = run[t].saved /\ v.which = run[t].which /\ run' = [run EXCEPT ![t] = v]
    BY <1>2, <1>8, <2>1, PcsAre, GotoIs
  <2>3. PICK q : q = run'
    OBVIOUS
  <2>4. q[t] = v /\ \A u \in Threads : u # t => q[u] = run[u]
    BY <1>2, <2>2, <2>3
  <2>5. q[t].pc \notin ExitPcs \cup {"rearm", "deliver", "stopnotify"} /\ q[t].which \cap SIG_KERNEL_ONLY_MASK = {}
        /\ q[t].saved = run[t].saved
    BY <2>2, <2>4, MaskBits DEF ExitPcs, Dying
  <2>6. Good(k, q, job) /\ KillInv(k) /\ k.flags = group.flags
    BY <1>2, <1>3, <1>6, <1>7, <2>4, <2>5, TookMove
  <2>7. LockStep(t, v)
    BY <1>1, <2>2 DEF LockStep
  <2> QED
    BY <1>1, <1>8, <2>2, <2>3, <2>6, <2>7, CoreStep
<1>9. CASE /\ d.sig = 0 /\ group' = recalc_sigpending(SetTask(k, t, c), t)
           /\ run' = [run EXCEPT ![t].pc = "sigwait", ![t].which = which]
  <2>1. PICK v : v = [run[t] EXCEPT !.pc = "sigwait", !.which = which]
    OBVIOUS
  <2>2. v \in Run /\ v.pc = "sigwait" /\ v.saved = run[t].saved /\ v.which = which /\ run' = [run EXCEPT ![t] = v]
    BY <1>2, <1>4, <1>9, <2>1, PcsAre DEF Run
  <2>3. run'[t] = v /\ \A u \in Threads : u # t => run'[u] = run[u]
    BY <1>2, <2>2
  <2>4. Good(k, run, job) /\ KillInv(k) /\ k.flags = group.flags
    <3>1. run[t].pc \notin ExitPcs \cup {"rearm", "deliver", "stopnotify"} /\ run[t].which \cap SIG_KERNEL_ONLY_MASK = {}
      BY <1>1, MaskBits DEF ExitPcs, Dying
    <3> QED
      BY <1>2, <1>3, <1>6, <1>7, <3>1, TookMove
  <2>5. k \in Group /\ k.task[t] \in Task /\ k.task[t].state = "running" /\ k.task[t].exiting = a.exiting
        /\ k.task[t].blocked = a.blocked
    <3>1. k \in Group
      BY <1>6, TookKeeps
    <3> QED
      BY <1>3, <1>6, <3>1, TookKeeps, GroupType
  <2>6. c \in Task /\ c.state = "interruptible" /\ c.blocked = a.blocked \ which /\ c.real_blocked = a.blocked
        /\ c.jobctl = k.task[t].jobctl /\ c.exiting = a.exiting /\ c.pending = k.task[t].pending /\ c.tif = k.task[t].tif
    BY <2>5, MaskBits DEF Task
  <2> HIDE DEF c, k
  <2>7. PICK m : m = SetTask(k, t, c)
    OBVIOUS
  <2>8. OneTask(k, m, t, c)
    BY <2>5, <2>6, <2>7, OneTaskIs
  <2>9. m \in Group /\ m.task[t] = c
    BY <2>8 DEF OneTask
  <2>10. PICK b : /\ OneTask(m, group', t, b) /\ SameTask(c, b) /\ b.state = c.state
                  /\ b.pending = c.pending /\ b.tif = recalc_sigpending_tsk(m, t)
    BY <1>9, <2>7, <2>9, RecalcOne
  <2>11. OneTask(k, group', t, b)
    BY <2>8, <2>10 DEF OneTask
  <2>12. LinkAt(b, v) /\ MaskAt(b, v)
    <3>1. MaskAt(b, v)
      BY <1>4, <2>2, <2>6, <2>10, MaskBits DEF MaskAt, SameTask
    <3>2. LinkAt(b, v)
      BY <1>3, <2>2, <2>6, <2>10 DEF LinkAt, SameTask
    <3> QED
      BY <3>1, <3>2
  <2>13. /\ b.tif <=> \/ "STOP_PENDING" \in c.jobctl \/ c.pending.signal \ c.blocked # {}
                      \/ m.shared.signal \ c.blocked # {}
         /\ SIGKILL \notin c.blocked
    BY <1>2, <2>6, <2>9, <2>10, RecalcType, MaskBits DEF SIG_KERNEL_ONLY_MASK
  <2>14. CalmAt(signal_group_exit(k), k.task[t], run[t], b, v)
    BY <1>1, <2>2, <2>5, <2>6, <2>10, <2>13 DEF CalmAt, SameTask, ExitPcs, Dying
  <2>15. Good(group', run', job) /\ group'.flags = group.flags /\ KillInv(group')
    <3>1. PICK h, q : h = group' /\ q = run'
      OBVIOUS
    <3>2. OneTask(k, h, t, b) /\ LinkAt(b, q[t]) /\ MaskAt(b, q[t]) /\ \A u \in Threads : u # t => q[u] = run[u]
      BY <2>3, <2>11, <2>12, <3>1
    <3>3. CalmAt(signal_group_exit(k), k.task[t], run[t], b, q[t])
      BY <2>3, <2>14, <3>1
    <3>4. b.pending = k.task[t].pending /\ b.jobctl = k.task[t].jobctl
      BY <2>6, <2>10 DEF SameTask
    <3>5. Good(h, q, job) /\ h.flags = k.flags /\ (KillInv(k) => KillInv(h))
      BY <2>4, <3>2, <3>3, <3>4, OneTaskGood
    <3> QED
      BY <2>4, <3>1, <3>5
  <2>16. LockStep(t, v)
    BY <1>1, <2>2 DEF LockStep
  <2> QED
    BY <1>1, <2>2, <2>15, <2>16, CoreStep
<1> QED
  BY <1>5, <1>8, <1>9

\* t is awake, and its mask in use is the only one it has.
Awake(g, h, t) ==
    \E b \in Task : /\ OneTask(g, h, t, b) /\ b.state = "running" /\ b.real_blocked = {}
                    /\ b.blocked = g.task[t].blocked /\ b.pending = g.task[t].pending
                    /\ b.tif = g.task[t].tif /\ b.jobctl = g.task[t].jobctl /\ b.exiting = g.task[t].exiting

\* The three steps of the end of sigtimedwait: the old mask, awake, and the signal that came.
LEMMA EndSigwaitIs ==
    ASSUME Core, NEW t \in Threads, EndSigwait(t)
    PROVE  /\ \E g1, g2, sig :
               /\ BlocksTo(group, g1, t, group.task[t].real_blocked) /\ Awake(g1, g2, t)
               /\ Took(g2, group', t, sig) /\ group'.task[t].tif = recalc_sigpending_tsk(group', t)
               /\ sig = 0 \/ (sig \in AllSignals /\ sig \in run[t].which)
               /\ Listed(g2.task[t].pending) => Listed(group'.task[t].pending)
               /\ Listed(g2.shared) => Listed(group'.shared)
           /\ \E v \in Run : v.pc = "out" /\ v.saved = run[t].saved /\ v.which = {} /\ run' = [run EXCEPT ![t] = v]
<1> DEFINE a == group.task[t]
           back == set_task_blocked(group, t, a.real_blocked)
           k == [back EXCEPT !.task[t].real_blocked = {}, !.task[t].state = "running"]
           d == dequeue_signal(k, t, AllSignals \ run[t].which)
<1>1. run[t].pc = "sigwait" /\ group' = d.group /\ run' = [run EXCEPT ![t].pc = "out", ![t].which = {}]
  BY DEF EndSigwait, Locked
<1>2. group \in Group /\ run \in [Threads -> Run] /\ run[t] \in Run /\ t \in Members(group) /\ a.real_blocked \in SUBSET Signo
  BY <1>1, MaskBits DEF Members, LinkAt
<1>3. BlocksTo(group, back, t, a.real_blocked)
  BY <1>2, SetTaskBlockedIs
<1> HIDE DEF back
<1>4. back \in Group /\ back.task[t] \in Task
  BY <1>3, GroupType DEF BlocksTo
<1> DEFINE b == [back.task[t] EXCEPT !.real_blocked = {}, !.state = "running"]
<1>5. /\ b \in Task /\ b.state = "running" /\ b.real_blocked = {} /\ b.blocked = back.task[t].blocked
      /\ b.pending = back.task[t].pending /\ b.tif = back.task[t].tif /\ b.jobctl = back.task[t].jobctl
      /\ b.exiting = back.task[t].exiting
  BY <1>4 DEF Task
<1>6. k = SetTask(back, t, b)
  BY <1>4 DEF SetTask, Group, Task
<1> HIDE DEF b, k
<1>7. OneTask(back, k, t, b)
  BY <1>4, <1>5, <1>6, OneTaskIs
<1>8. k \in Group
  BY <1>7 DEF OneTask
<1>9. /\ Took(k, d.group, t, d.sig) /\ d.group.task[t].tif = recalc_sigpending_tsk(d.group, t)
      /\ d.sig = 0 \/ (d.sig \in AllSignals /\ d.sig \notin AllSignals \ run[t].which)
      /\ Listed(k.task[t].pending) => Listed(d.group.task[t].pending)
      /\ Listed(k.shared) => Listed(d.group.shared)
  BY <1>8, DequeueSignalIs
<1> HIDE DEF d
<1>10. PICK v : v = [run[t] EXCEPT !.pc = "out", !.which = {}]
  OBVIOUS
<1>11. v \in Run /\ v.pc = "out" /\ v.saved = run[t].saved /\ v.which = {} /\ run' = [run EXCEPT ![t] = v]
  BY <1>1, <1>2, <1>10, PcsAre DEF Run
<1>12. d.sig = 0 \/ (d.sig \in AllSignals /\ d.sig \in run[t].which)
  BY <1>9
<1>13. Awake(back, k, t)
  BY <1>5, <1>7 DEF Awake
<1>14. \E w \in Run : w.pc = "out" /\ w.saved = run[t].saved /\ w.which = {} /\ run' = [run EXCEPT ![t] = w]
  BY <1>11
<1>15. PICK sig : sig = d.sig
  OBVIOUS
<1>16. /\ BlocksTo(group, back, t, group.task[t].real_blocked) /\ Awake(back, k, t)
       /\ Took(k, group', t, sig) /\ group'.task[t].tif = recalc_sigpending_tsk(group', t)
       /\ sig = 0 \/ (sig \in AllSignals /\ sig \in run[t].which)
       /\ Listed(k.task[t].pending) => Listed(group'.task[t].pending)
       /\ Listed(k.shared) => Listed(group'.shared)
  BY <1>1, <1>3, <1>9, <1>12, <1>13, <1>15
<1> QED
  BY <1>14, <1>16

LEMMA EndSigwaitCore ==
    ASSUME Core, NEW t \in Threads, EndSigwait(t)
    PROVE  Core'
<1> DEFINE a == group.task[t]
<1>1. run[t].pc = "sigwait" /\ siglock' = siglock /\ told' = told /\ job' = job
  BY DEF EndSigwait, Locked
<1>2. Good(group, run, job) /\ KillInv(group) /\ group \in Group /\ run \in [Threads -> Run]
      /\ LinkAt(a, run[t]) /\ MaskAt(a, run[t])
  BY MaskBits DEF Core, Good
<1>3. PICK g1, g2, sig :
         /\ BlocksTo(group, g1, t, a.real_blocked) /\ Awake(g1, g2, t) /\ Took(g2, group', t, sig)
         /\ sig = 0 \/ (sig \in AllSignals /\ sig \in run[t].which)
  BY EndSigwaitIs
<1>4. PICK v \in Run : v.pc = "out" /\ v.saved = run[t].saved /\ v.which = {} /\ run' = [run EXCEPT ![t] = v]
  BY EndSigwaitIs
<1>5. PICK b \in Task :
         /\ OneTask(g1, g2, t, b) /\ b.state = "running" /\ b.real_blocked = {}
         /\ b.blocked = g1.task[t].blocked /\ b.pending = g1.task[t].pending
         /\ b.tif = g1.task[t].tif /\ b.jobctl = g1.task[t].jobctl /\ b.exiting = g1.task[t].exiting
  BY <1>3 DEF Awake
<1>6. /\ BlocksTo(group, g1, t, a.real_blocked) /\ OneTask(g1, g2, t, b) /\ b.state = "running" /\ b.real_blocked = {}
      /\ b.blocked = g1.task[t].blocked /\ b.pending = g1.task[t].pending
      /\ b.tif = g1.task[t].tif /\ b.jobctl = g1.task[t].jobctl /\ b.exiting = g1.task[t].exiting
      /\ Took(g2, group', t, sig)
      /\ sig = 0 \/ (sig \in AllSignals /\ sig \in run[t].which)
      /\ v \in Run /\ v.pc = "out" /\ v.saved = run[t].saved /\ v.which = {} /\ run' = [run EXCEPT ![t] = v]
  BY <1>3, <1>4, <1>5
<1>7. ~a.exiting /\ ~Dying(run[t]) /\ a.state \notin {"stopped", "dead"}
  BY <1>1, <1>2 DEF LinkAt, ExitPcs, Dying
<1>8. Good(g1, run, job) /\ KillInv(g1) /\ g1.flags = group.flags
  <2>1. g1.task[t].exiting = a.exiting /\ g1.task[t].state = a.state /\ g1.task[t].blocked = a.real_blocked
        /\ g1.task[t].real_blocked = a.real_blocked /\ g1.task[t].jobctl = a.jobctl /\ g1.task[t].pending = a.pending
    BY <1>6 DEF BlocksTo
  <2>2. LinkAt(g1.task[t], run[t])
    BY <1>2, <2>1 DEF LinkAt
  <2>3. MaskAt(g1.task[t], run[t]) /\ a.real_blocked \cap SIG_KERNEL_ONLY_MASK = {}
    BY <1>2, <2>1 DEF MaskAt
  <2> QED
    BY <1>2, <1>6, <1>7, <2>2, <2>3, BlocksGood
<1>9. Good(g2, run, job) /\ KillInv(g2) /\ g2.flags = group.flags /\ g2.task[t] = b
  <2>1. LinkAt(g1.task[t], run[t]) /\ MaskAt(g1.task[t], run[t])
    BY <1>8 DEF Good
  <2>2. g1.task[t].exiting = a.exiting /\ g1.task[t].state = a.state
    BY <1>6 DEF BlocksTo
  <2>3. LinkAt(b, run[t])
    BY <1>1, <1>6, <2>1 DEF LinkAt
  <2>4. MaskAt(b, run[t])
    BY <1>6, <2>1 DEF MaskAt
  <2>5. CalmAt(signal_group_exit(g1), g1.task[t], run[t], b, run[t])
    BY <1>6, <1>7, <2>2 DEF CalmAt
  <2>6. Good(g2, run, job) /\ g2.flags = g1.flags /\ (KillInv(g1) => KillInv(g2))
    BY <1>6, <1>8, <2>3, <2>4, <2>5, OneTaskGood
  <2> QED
    BY <1>6, <1>8, <2>6 DEF OneTask
<1>10. sig # SIGKILL
  BY MaskBits, <1>6 DEF SIG_KERNEL_ONLY_MASK, SIGKILL
<1>11. PICK h, q : h = group' /\ q = run'
  OBVIOUS
<1>12. q[t] = v /\ \A u \in Threads : u # t => q[u] = run[u]
  BY <1>2, <1>6, <1>11
<1>13. q[t].pc \notin ExitPcs \cup {"rearm", "deliver", "stopnotify"} /\ q[t].which \cap SIG_KERNEL_ONLY_MASK = {}
  BY <1>6, <1>12 DEF ExitPcs, Dying
<1>14. b.exiting = a.exiting
  BY <1>6 DEF BlocksTo
<1>15. Took(g2, h, t, sig) /\ q[t].saved = run[t].saved /\ g2.task[t].state = "running" /\ ~g2.task[t].exiting
  BY <1>6, <1>7, <1>9, <1>11, <1>12, <1>14
<1>16. Good(h, q, job) /\ KillInv(h) /\ h.flags = g2.flags
  BY <1>7, <1>9, <1>10, <1>12, <1>13, <1>15, TookMove
<1>17. LockStep(t, v)
  BY <1>1, <1>6 DEF LockStep
<1> QED
  BY <1>1, <1>6, <1>9, <1>11, <1>16, <1>17, CoreStep

\* The group exit that t starts: SIGKILL for all the others.
Zapped(g, h, t) ==
    /\ h \in Group /\ h.flags = {"GROUP_EXIT"} /\ h.shared = g.shared /\ h.action = g.action
    /\ h.sigpending = g.sigpending /\ h.timer = g.timer
    /\ \A u \in Threads : h.task[u] = IF u \in Members(g) \ {t} THEN Doomed(g.task[u]) ELSE g.task[u]

LEMMA ZapIs ==
    ASSUME NEW g \in Group, NEW t \in Threads
    PROVE  Zapped(g, zap_other_threads([g EXCEPT !.flags = {"GROUP_EXIT"}], t), t)
<1> DEFINE k == [g EXCEPT !.flags = {"GROUP_EXIT"}]
           T == [u \in Threads |-> IF u \in Members(g) \ {t} THEN Doomed(g.task[u]) ELSE g.task[u]]
           h == zap_other_threads(k, t)
<1>1. Members(k) = Members(g) /\ k.task = g.task
  BY DEF Members, Group
<1>2. \A u \in Threads : g.task[u] \in Task
  BY GroupType
<1>3. \A u \in Threads : Doomed(g.task[u]) \in Task
  BY <1>2, DoomedIs
<1> HIDE DEF k
<1>4. h = [k EXCEPT !.group_stop_count = 0, !.task = T]
  BY <1>1 DEF zap_other_threads
<1>5. T \in [Threads -> Task] /\ \A u \in Threads : T[u] = IF u \in Members(g) \ {t} THEN Doomed(g.task[u]) ELSE g.task[u]
  BY <1>2, <1>3
<1> HIDE DEF T
<1>6. k \in Group /\ k.flags = {"GROUP_EXIT"} /\ k.shared = g.shared /\ k.action = g.action
      /\ k.sigpending = g.sigpending /\ k.timer = g.timer
  BY DEF k, Group, GroupFlags
<1>7. h \in Group /\ h.flags = {"GROUP_EXIT"} /\ h.shared = g.shared /\ h.action = g.action
      /\ h.sigpending = g.sigpending /\ h.timer = g.timer /\ h.task = T
  <2>1. PICK c, z : c \in Nat /\ c = 0 /\ z = h
    OBVIOUS
  <2>2. z = [k EXCEPT !.group_stop_count = c, !.task = T]
    BY <1>4, <2>1
  <2>3. z \in Group
    <3>1. k \in Group /\ T \in [Threads -> Task]
      BY <1>5, <1>6
    <3>2. PICK y : y = [k EXCEPT !.group_stop_count = c]
      OBVIOUS
    <3>3. y \in Group
      BY <2>1, <3>1, <3>2 DEF Group
    <3>4. z = [y EXCEPT !.task = T]
      BY <2>2, <3>2
    <3> QED
      BY <3>1, <3>3, <3>4 DEF Group
  <2>4. z.flags = k.flags /\ z.shared = k.shared /\ z.action = k.action /\ z.sigpending = k.sigpending
        /\ z.timer = k.timer /\ z.task = T
    BY <1>6, <2>2 DEF Group
  <2> QED
    BY <1>6, <2>1, <2>3, <2>4
<1> QED
  BY <1>5, <1>7 DEF Zapped, k

LEMMA ZapGood ==
    ASSUME NEW g, NEW r, NEW j, Good(g, r, j), NEW t \in Threads, NEW h, Zapped(g, h, t), g.task[t].state = "running",
           NEW q, \A u \in Threads : u # t => q[u] = r[u], q[t].pc = "exit", LinkAt(g.task[t], q[t]),
           MaskAt(g.task[t], q[t])
    PROVE  Good(h, q, j) /\ signal_group_exit(h) /\ "STOP_STOPPED" \notin h.flags
<1>1. /\ g \in Group /\ g.action[SIGKILL].handler = "SIG_DFL"
      /\ \A u \in Threads : LinkAt(g.task[u], r[u]) /\ MaskAt(g.task[u], r[u])
  BY DEF Good
<1>2. signal_group_exit(h) /\ h \in Group /\ h.action = g.action /\ h.flags = {"GROUP_EXIT"}
  BY DEF Zapped, signal_group_exit
<1>3. ASSUME NEW u \in Threads
      PROVE  LinkAt(h.task[u], q[u]) /\ MaskAt(h.task[u], q[u]) /\ DeathAt(h.task[u], q[u])
  <2>1. CASE u = t
    <3>1. h.task[u] = g.task[u]
      BY <2>1 DEF Zapped
    <3> QED
      BY <2>1, <3>1 DEF DeathAt, ExitPcs, Dying
  <2>2. CASE u # t /\ u \in Members(g)
    <3>1. PICK b : b = Doomed(g.task[u])
      OBVIOUS
    <3>2. g.task[u] \in Task
      BY <1>1, GroupType
    <3>3. /\ b.exiting = g.task[u].exiting /\ b.jobctl = {} /\ b.blocked = g.task[u].blocked /\ b.tif = TRUE
          /\ b.real_blocked = g.task[u].real_blocked /\ b.pending = SetOnly(g.task[u].pending, SIGKILL)
          /\ b.state = IF g.task[u].state \in {"interruptible", "stopped"} THEN "running" ELSE g.task[u].state
      BY <3>1, <3>2, DoomedIs
    <3>4. SIGKILL \in b.pending.signal
      BY <3>2, <3>3, SetOnlyIs, SignalNumbers DEF Task
    <3>5. h.task[u] = b /\ q[u] = r[u] /\ g.task[u].state # "dead"
      BY <2>2, <3>1 DEF Zapped, Members
    <3>6. LinkAt(b, r[u])
      BY <1>1, <3>3, <3>5 DEF LinkAt
    <3>7. MaskAt(b, r[u])
      BY <1>1, <3>3 DEF MaskAt
    <3>8. DeathAt(b, r[u])
      BY <3>3, <3>4 DEF DeathAt
    <3> QED
      BY <3>5, <3>6, <3>7, <3>8
  <2>3. CASE u # t /\ u \notin Members(g)
    <3>1. h.task[u] = g.task[u] /\ q[u] = r[u] /\ g.task[u].state = "dead"
      BY <2>3 DEF Zapped, Members
    <3> QED
      BY <1>1, <3>1 DEF LinkAt, DeathAt, ExitPcs, Dying
  <2> QED
    BY <2>1, <2>2, <2>3
<1>4. Death(h, q) /\ StopInv(h) /\ ContInv(h, j)
  BY <1>2, <1>3 DEF Death, StopInv, ContInv
<1> QED
  BY <1>1, <1>2, <1>3, <1>4 DEF Good

LEMMA GroupExitCore ==
    ASSUME Core, NEW t \in Threads, do_group_exit(t)
    PROVE  Core'
<1>1. /\ run[t].pc \in {"fatal", "user"} /\ Goto(t, "exit") /\ siglock' = siglock /\ told' = told /\ job' = job
      /\ group' = IF signal_group_exit(group) THEN group
                  ELSE zap_other_threads([group EXCEPT !.flags = {"GROUP_EXIT"}], t)
  BY DEF do_group_exit
<1>2. group.task[t].state = "running" /\ "exit" \in Pcs
  BY <1>1, Running, PcsAre
<1>3. LinkAt(group.task[t], [run[t] EXCEPT !.pc = "exit"])
  BY <1>1, <1>2, LinkMove
<1>4. CASE signal_group_exit(group)
  <2>1. group' = group
    BY <1>1, <1>4
  <2>2. "exit" \in ExitPcs \cup {"fatal"} /\ "exit" \in ExitPcs \ {"exitlock"}
    BY DEF ExitPcs, Dying
  <2> QED
    BY <1>1, <1>2, <1>3, <2>1, <2>2, CoreMove
<1>5. CASE ~signal_group_exit(group)
  <2>1. group' = zap_other_threads([group EXCEPT !.flags = {"GROUP_EXIT"}], t)
    BY <1>1, <1>5
  <2>2. PICK v : v = [run[t] EXCEPT !.pc = "exit"]
    OBVIOUS
  <2>3. v \in Run /\ v.pc = "exit" /\ v.saved = run[t].saved /\ v.which = run[t].which /\ run' = [run EXCEPT ![t] = v]
    BY <1>1, <1>2, <2>2, MaskBits, GotoIs
  <2>4. PICK h, q : h = group' /\ q = run'
    OBVIOUS
  <2>5. q[t] = v /\ \A u \in Threads : u # t => q[u] = run[u]
    BY <2>3, <2>4, MaskBits
  <2>6. Zapped(group, h, t)
    BY <2>1, <2>4, MaskBits, ZapIs
  <2>7. LinkAt(group.task[t], q[t])
    BY <1>3, <2>2, <2>5
  <2>8. MaskAt(group.task[t], q[t])
    BY <2>3, <2>5, MaskBits DEF MaskAt
  <2>9. Good(group, run, job)
    BY DEF Core
  <2>10. Good(h, q, job) /\ signal_group_exit(h) /\ "STOP_STOPPED" \notin h.flags
    BY <1>2, <2>3, <2>5, <2>6, <2>7, <2>8, <2>9, ZapGood
  <2>11. KillInv(h)
    BY <2>10 DEF KillInv
  <2>12. LockStep(t, v)
    BY <1>1, <2>3 DEF LockStep
  <2> QED
    BY <1>1, <2>3, <2>4, <2>10, <2>11, <2>12, CoreStep
<1> QED
  BY <1>4, <1>5

\* t is past its last look at its signals; others may have been woken for those of the process.
Left(g, h, t) ==
    /\ h \in Group /\ h.shared = g.shared /\ h.flags = g.flags /\ h.group_stop_count = g.group_stop_count
    /\ h.action = g.action /\ h.sigpending = g.sigpending /\ h.timer = g.timer
    /\ h.task[t] = [g.task[t] EXCEPT !.exiting = TRUE]
    /\ \A u \in Threads : u # t => h.task[u] = g.task[u] \/ h.task[u] = signal_wake_up(g.task[u], FALSE)

LEMMA GoneIs ==
    ASSUME NEW g \in Group, NEW t \in Threads
    PROVE  LET h == [g EXCEPT !.task[t].exiting = TRUE]
           IN OneTask(g, h, t, [g.task[t] EXCEPT !.exiting = TRUE]) /\ Left(g, h, t)
<1> DEFINE h == [g EXCEPT !.task[t].exiting = TRUE]
           b == [g.task[t] EXCEPT !.exiting = TRUE]
<1>1. g.task[t] \in Task
  BY GroupType
<1>2. b \in Task /\ h = SetTask(g, t, b)
  BY <1>1 DEF SetTask, Group, Task
<1> HIDE DEF h, b
<1>3. OneTask(g, h, t, b)
  BY <1>2, OneTaskIs
<1>4. Left(g, h, t)
  BY <1>3 DEF OneTask, Left, b
<1> QED
  BY <1>3, <1>4 DEF h, b

LEMMA OfferedIs ==
    ASSUME NEW g \in Group, NEW t \in Threads, NEW which
    PROVE  LET gone == [g EXCEPT !.task[t].exiting = TRUE]
           IN Left(g, retarget_shared_pending(gone, t, which), t)
<1>1. PICK k : k = [g EXCEPT !.task[t].exiting = TRUE]
  OBVIOUS
<1>2. OneTask(g, k, t, [g.task[t] EXCEPT !.exiting = TRUE])
  BY <1>1, GoneIs
<1>3. k \in Group
  BY <1>2 DEF OneTask
<1>4. PICK h : h = retarget_shared_pending(k, t, which)
  OBVIOUS
<1>5. Retargeted(k, h, t, which)
  BY <1>3, <1>4, RetargetIs
<1>6. Left(g, h, t)
  BY <1>2, <1>5 DEF OneTask, Retargeted, Left
<1> QED
  BY <1>1, <1>4, <1>6

\* What Left says of each task.
LeftBy(g, h, t) ==
    /\ h.task[t] \in Task /\ h.task[t].exiting = TRUE /\ h.task[t].state = g.task[t].state
    /\ h.task[t].jobctl = g.task[t].jobctl /\ h.task[t].pending = g.task[t].pending
    /\ h.task[t].blocked = g.task[t].blocked /\ h.task[t].real_blocked = g.task[t].real_blocked
    /\ h.task[t].tif = g.task[t].tif
    /\ \A u \in Threads : u # t =>
         /\ SameTask(g.task[u], h.task[u]) /\ h.task[u].pending = g.task[u].pending
         /\ g.task[u].tif => h.task[u].tif
         /\ \/ h.task[u].state = g.task[u].state
            \/ g.task[u].state = "interruptible" /\ h.task[u].state = "running"

LEMMA LeftTasks ==
    ASSUME NEW g \in Group, NEW h, NEW t \in Threads, Left(g, h, t)
    PROVE  LeftBy(g, h, t)
<1>1. \A u \in Threads : g.task[u] \in Task
  BY GroupType
<1>2. h.task[t] = [g.task[t] EXCEPT !.exiting = TRUE]
  BY DEF Left
<1>3. ASSUME NEW u \in Threads, u # t
      PROVE  /\ SameTask(g.task[u], h.task[u]) /\ h.task[u].pending = g.task[u].pending
             /\ g.task[u].tif => h.task[u].tif
             /\ \/ h.task[u].state = g.task[u].state
                \/ g.task[u].state = "interruptible" /\ h.task[u].state = "running"
  <2>1. CASE h.task[u] = g.task[u]
    BY <1>1, <2>1 DEF SameTask
  <2>2. CASE h.task[u] = signal_wake_up(g.task[u], FALSE)
    <3>1. FALSE \in BOOLEAN
      OBVIOUS
    <3> QED
      BY <1>1, <2>2, <3>1, WakeIs
  <2> QED
    BY <1>3, <2>1, <2>2 DEF Left
<1>4. /\ h.task[t] \in Task /\ h.task[t].exiting = TRUE /\ h.task[t].state = g.task[t].state
      /\ h.task[t].jobctl = g.task[t].jobctl /\ h.task[t].pending = g.task[t].pending
      /\ h.task[t].blocked = g.task[t].blocked /\ h.task[t].real_blocked = g.task[t].real_blocked
      /\ h.task[t].tif = g.task[t].tif
  BY <1>1, <1>2 DEF Task
<1> QED
  BY <1>3, <1>4 DEF LeftBy

\* A thread leaves that no group stop waits for.
LEMMA LeftGood ==
    ASSUME NEW g, NEW r, NEW j, Good(g, r, j), KillInv(g), NEW t \in Threads, NEW h, Left(g, h, t),
           g.task[t].state = "running", NEW q, \A u \in Threads : u # t => q[u] = r[u],
           q[t].pc = "exited", q[t].which = r[t].which, q[t].saved = r[t].saved,
           signal_group_exit(g) \/ "STOP_PENDING" \notin g.task[t].jobctl
    PROVE  Good(h, q, j) /\ KillInv(h) /\ h.flags = g.flags
<1>1. /\ g \in Group /\ g.action[SIGKILL].handler = "SIG_DFL"
      /\ \A u \in Threads : LinkAt(g.task[u], r[u]) /\ MaskAt(g.task[u], r[u])
  BY DEF Good
<1>2. /\ h.task[t] \in Task /\ h.task[t].exiting = TRUE /\ h.task[t].state = g.task[t].state
      /\ h.task[t].jobctl = g.task[t].jobctl /\ h.task[t].pending = g.task[t].pending
      /\ h.task[t].blocked = g.task[t].blocked /\ h.task[t].real_blocked = g.task[t].real_blocked
      /\ h.task[t].tif = g.task[t].tif
      /\ \A u \in Threads : u # t =>
           /\ SameTask(g.task[u], h.task[u]) /\ h.task[u].pending = g.task[u].pending
           /\ g.task[u].tif => h.task[u].tif
           /\ \/ h.task[u].state = g.task[u].state
              \/ g.task[u].state = "interruptible" /\ h.task[u].state = "running"
  <2>1. LeftBy(g, h, t)
    BY <1>1, LeftTasks
  <2> QED
    BY <2>1 DEF LeftBy
<1>3. h \in Group /\ h.flags = g.flags /\ h.action = g.action /\ h.shared = g.shared
      /\ h.group_stop_count = g.group_stop_count
      /\ signal_group_exit(h) = signal_group_exit(g)
  BY DEF Left, signal_group_exit
<1>4. ASSUME NEW u \in Threads
      PROVE  LinkAt(h.task[u], q[u]) /\ MaskAt(h.task[u], q[u])
  <2>1. CASE u = t
    BY <1>1, <1>2, <2>1 DEF LinkAt, MaskAt
  <2>2. CASE u # t
    BY <1>1, <1>2, <2>2 DEF LinkAt, MaskAt, SameTask
  <2> QED
    BY <2>1, <2>2
<1>5. Death(h, q)
  <2>1. SUFFICES ASSUME signal_group_exit(g) PROVE h.flags = {"GROUP_EXIT"} /\ \A u \in Threads : DeathAt(h.task[u], q[u])
    BY <1>3 DEF Death
  <2>2. g.flags = {"GROUP_EXIT"} /\ \A u \in Threads : DeathAt(g.task[u], r[u])
    BY <2>1 DEF Good, Death
  <2>3. DeathAt(h.task[t], q[t])
    BY <1>2 DEF DeathAt, ExitPcs, Dying
  <2>4. \A u \in Threads : u # t => DeathAt(h.task[u], q[u])
    BY <1>2, <2>2 DEF DeathAt, SameTask
  <2> QED
    BY <1>3, <2>2, <2>3, <2>4
<1>6. StopInv(h)
  <2>1. SUFFICES ASSUME ~signal_group_exit(g)
                 PROVE  /\ h.group_stop_count = Cardinality(Joining(h))
                        /\ \A u \in Threads : StopAt(h.task[u])
                        /\ Joining(h) # {} => Stopped(h) # {}
                        /\ "STOP_STOPPED" \in h.flags => Stopped(h) # {} /\ Joining(h) = {}
                        /\ Stopped(h) # {} => /\ \A u \in Threads : h.task[u].exiting \/ u \in Stopped(h) \cup Joining(h)
                                              /\ Joining(h) # {} \/ "STOP_STOPPED" \in h.flags
    BY <1>3 DEF StopInv
  <2>2. /\ g.group_stop_count = Cardinality(Joining(g))
        /\ \A u \in Threads : StopAt(g.task[u])
        /\ Joining(g) # {} => Stopped(g) # {}
        /\ "STOP_STOPPED" \in g.flags => Stopped(g) # {} /\ Joining(g) = {}
        /\ Stopped(g) # {} => /\ \A u \in Threads : g.task[u].exiting \/ u \in Stopped(g) \cup Joining(g)
                              /\ Joining(g) # {} \/ "STOP_STOPPED" \in g.flags
    BY <2>1 DEF Good, StopInv
  <2>3. Joining(h) = Joining(g) /\ Stopped(h) = Stopped(g)
    BY <1>2 DEF Joining, Stopped, SameTask
  <2>4. \A u \in Threads : StopAt(h.task[u])
    BY <1>2, <2>1, <2>2 DEF StopAt, SameTask
  <2>5. \A u \in Threads : g.task[u].exiting => h.task[u].exiting
    BY <1>2 DEF SameTask
  <2> QED
    BY <1>3, <2>2, <2>3, <2>4, <2>5
<1>7. ContInv(h, j)
  BY <1>2, <1>3 DEF Good, ContInv, SameTask
<1>8. KillInv(h)
  BY <1>2, <1>3 DEF KillInv, SameTask
<1> QED
  BY <1>1, <1>3, <1>4, <1>5, <1>6, <1>7, <1>8 DEF Good

\* A thread leaves that a group stop waits for.
LEMMA LeftStopping ==
    ASSUME NEW g, NEW r, NEW j, Good(g, r, j), NEW t \in Threads, ~signal_group_exit(g),
           "STOP_PENDING" \in g.task[t].jobctl, NEW k, Left(g, k, t)
    PROVE  Stopping(k, Joining(g), t) /\ Stopped(k) = Stopped(g) /\ Stopped(g) # {} /\ j # "cont"
<1>1. Stopping(g, Joining(g), t) /\ Stopped(g) # {} /\ j # "cont"
  BY JoinStopping
<1>2. g \in Group
  BY DEF Good
<1>3. LeftBy(g, k, t)
  BY <1>2, LeftTasks
<1>4. /\ k.task[t].exiting = TRUE /\ k.task[t].state = g.task[t].state /\ k.task[t].jobctl = g.task[t].jobctl
      /\ \A u \in Threads : u # t => /\ k.task[u].exiting = g.task[u].exiting /\ k.task[u].jobctl = g.task[u].jobctl
                                     /\ g.task[u].tif => k.task[u].tif
                                     /\ k.task[u].state = "stopped" <=> g.task[u].state = "stopped"
  BY <1>3 DEF LeftBy, SameTask
<1>5. Joining(k) = Joining(g) /\ Stopped(k) = Stopped(g)
  BY <1>4 DEF Joining, Stopped
<1>6. k \in Group /\ ~signal_group_exit(k) /\ k.flags = g.flags /\ k.group_stop_count = g.group_stop_count
  BY DEF Left, signal_group_exit
<1>7. Stopping(k, Joining(g), t)
  <2>1. /\ "STOP_STOPPED" \notin g.flags /\ t \in Joining(g) /\ g.group_stop_count = Cardinality(Joining(g))
        /\ \A u \in Threads : "STOP_PENDING" \in g.task[u].jobctl <=> "STOP_CONSUME" \in g.task[u].jobctl
        /\ \A u \in Joining(g) : g.task[u].state # "stopped" /\ (u # t => g.task[u].tif /\ ~g.task[u].exiting)
        /\ \A u \in Threads : g.task[u].exiting \/ u \in Stopped(g) \cup Joining(g)
    BY <1>1 DEF Stopping
  <2>2. \A u \in Threads : "STOP_PENDING" \in k.task[u].jobctl <=> "STOP_CONSUME" \in k.task[u].jobctl
    BY <1>4, <2>1
  <2>3. \A u \in Joining(g) : k.task[u].state # "stopped" /\ (u # t => k.task[u].tif /\ ~k.task[u].exiting)
    BY <1>4, <2>1 DEF Joining
  <2>4. \A u \in Threads : k.task[u].exiting \/ u \in Stopped(k) \cup Joining(g)
    BY <1>4, <1>5, <2>1
  <2> QED
    BY <1>5, <1>6, <2>1, <2>2, <2>3, <2>4 DEF Stopping
<1> QED
  BY <1>1, <1>5, <1>7

LEMMA LeftPartGood ==
    ASSUME NEW g, NEW r, NEW j, Good(g, r, j), KillInv(g), NEW t \in Threads, ~signal_group_exit(g),
           "STOP_PENDING" \in g.task[t].jobctl, g.task[t].state = "running", NEW k, Left(g, k, t), NEW h, NEW last,
           TookPart(k, h, Joining(g), t, last), NEW q, \A u \in Threads : u # t => q[u] = r[u],
           q[t].pc = IF last THEN "exitnotify" ELSE "exited", last => q[t].why = "stopped",
           q[t].which = r[t].which, q[t].saved = r[t].saved
    PROVE  Good(h, q, j) /\ KillInv(h) /\ ("STOP_STOPPED" \in h.flags => q[t].pc = "exitnotify")
<1> DEFINE P == Joining(g)
<1>1. /\ g \in Group /\ g.action[SIGKILL].handler = "SIG_DFL"
      /\ \A u \in Threads : LinkAt(g.task[u], r[u]) /\ MaskAt(g.task[u], r[u])
  BY DEF Good
<1>2. Stopping(k, P, t) /\ Stopped(k) = Stopped(g) /\ Stopped(g) # {} /\ j # "cont"
  BY LeftStopping
<1>3. /\ "STOP_STOPPED" \notin k.flags /\ P = Joining(k) /\ t \in P
      /\ \A u \in Threads : "STOP_PENDING" \in k.task[u].jobctl <=> "STOP_CONSUME" \in k.task[u].jobctl
      /\ \A u \in P : k.task[u].state # "stopped" /\ (u # t => k.task[u].tif /\ ~k.task[u].exiting)
      /\ \A u \in Threads : k.task[u].exiting \/ u \in Stopped(k) \cup P
      /\ ~signal_group_exit(k)
  BY <1>2 DEF Stopping
<1>4. /\ h \in Group /\ h.shared = k.shared /\ h.action = k.action
      /\ h.group_stop_count = Cardinality(P \ {t}) /\ last \in BOOLEAN /\ (last <=> P \ {t} = {})
      /\ h.flags = IF last THEN {"STOP_STOPPED"} ELSE k.flags
      /\ h.task[t] = [k.task[t] EXCEPT !.jobctl = {}]
      /\ \A u \in Threads : u # t => h.task[u] = k.task[u]
  BY DEF TookPart
<1>5. LeftBy(g, k, t)
  BY <1>1, LeftTasks
<1>6. /\ k.task[t] \in Task /\ k.task[t].exiting = TRUE /\ k.task[t].state = g.task[t].state
      /\ k.task[t].pending = g.task[t].pending
      /\ k.task[t].blocked = g.task[t].blocked /\ k.task[t].real_blocked = g.task[t].real_blocked
  BY <1>5 DEF LeftBy
<1>7. \A u \in Threads : u # t =>
           /\ SameTask(g.task[u], k.task[u]) /\ k.task[u].pending = g.task[u].pending
           /\ \/ k.task[u].state = g.task[u].state
              \/ g.task[u].state = "interruptible" /\ k.task[u].state = "running"
  BY <1>5 DEF LeftBy
<1>8. /\ h.task[t].exiting = TRUE /\ h.task[t].state = "running" /\ h.task[t].jobctl = {}
      /\ h.task[t].pending = g.task[t].pending
      /\ h.task[t].blocked = g.task[t].blocked /\ h.task[t].real_blocked = g.task[t].real_blocked
  BY <1>4, <1>6 DEF Task
<1> HIDE DEF P
<1>9. ~signal_group_exit(h)
  BY <1>3, <1>4 DEF signal_group_exit
<1>10. \A u \in Threads : LinkAt(h.task[u], q[u]) /\ MaskAt(h.task[u], q[u])
  <2>1. LinkAt(h.task[t], q[t])
    BY <1>4, <1>8 DEF LinkAt
  <2>2. MaskAt(h.task[t], q[t])
    BY <1>1, <1>8 DEF MaskAt
  <2>3. ASSUME NEW u \in Threads, u # t
        PROVE  LinkAt(h.task[u], q[u]) /\ MaskAt(h.task[u], q[u])
    BY <1>1, <1>4, <1>7, <2>3 DEF LinkAt, MaskAt, SameTask
  <2> QED
    BY <2>1, <2>2, <2>3
<1>11. Death(h, q) /\ ContInv(h, j)
  BY <1>2, <1>9 DEF Death, ContInv
<1>12. StopInv(h)
  <2>1. Joining(h) = P \ {t}
    BY <1>3, <1>4, <1>8 DEF Joining
  <2>2. Stopped(h) = Stopped(g)
    <3>1. Stopped(h) = Stopped(k)
      <4>1. k.task[t].state # "stopped" /\ h.task[t].state # "stopped"
        BY <1>3, <1>8
      <4>2. \A u \in Threads : h.task[u].state = "stopped" <=> k.task[u].state = "stopped"
        BY <1>4, <4>1
      <4> QED
        BY <4>2 DEF Stopped
    <3> QED
      BY <1>2, <3>1
  <2>3. \A u \in Threads : StopAt(h.task[u])
    <3>1. StopAt(h.task[t])
      BY <1>8 DEF StopAt
    <3>2. ASSUME NEW u \in Threads, u # t
          PROVE  StopAt(h.task[u])
      <4>1. h.task[u] = k.task[u] /\ (u \in P <=> "STOP_PENDING" \in k.task[u].jobctl)
        BY <1>3, <1>4, <3>2 DEF Joining
      <4> QED
        BY <1>3, <3>2, <4>1 DEF StopAt
    <3> QED
      BY <3>1, <3>2
  <2>4. \A u \in Threads : h.task[u].exiting \/ u \in Stopped(h) \cup Joining(h)
    BY <1>2, <1>3, <1>4, <1>8, <2>1, <2>2
  <2>5. "STOP_STOPPED" \in h.flags <=> last
    BY <1>3, <1>4
  <2> QED
    BY <1>2, <1>4, <2>1, <2>2, <2>3, <2>4, <2>5 DEF StopInv
<1>13. KillInv(h)
  <2>1. \A u \in Threads : SIGKILL \in g.task[u].pending.signal => g.task[u].exiting
    BY DEF KillInv
  <2>2. \A u \in Threads : u # t => h.task[u].pending = g.task[u].pending /\ h.task[u].exiting = g.task[u].exiting
    BY <1>4, <1>7 DEF SameTask
  <2> QED
    BY <1>8, <2>1, <2>2 DEF KillInv
<1>14. h.action[SIGKILL].handler = "SIG_DFL"
  BY <1>1, <1>4 DEF Left
<1> QED
  BY <1>3, <1>4, <1>10, <1>11, <1>12, <1>13, <1>14 DEF Good

\* The last thread and the threads of a dying group: no stop waits for them.
LEMMA ExitAloneCore ==
    ASSUME Core, NEW t \in Threads, ExitAlone(t)
    PROVE  Core'
<1>1. /\ run[t].pc = "exit" /\ (thread_group_empty(group) \/ signal_group_exit(group)) /\ Goto(t, "exited")
      /\ group' = [group EXCEPT !.task[t].exiting = TRUE] /\ siglock' = siglock /\ told' = told /\ job' = job
  BY DEF ExitAlone
<1>2. Good(group, run, job) /\ KillInv(group) /\ group \in Group /\ run \in [Threads -> Run] /\ StopInv(group)
      /\ group.task[t].state = "running" /\ "exited" \in Pcs
  BY <1>1, MaskBits, Running, PcsAre DEF Core, Good
<1>3. PICK h, q, v : h = group' /\ q = run' /\ v = [run[t] EXCEPT !.pc = "exited"]
  OBVIOUS
<1>4. Left(group, h, t)
  BY <1>1, <1>2, <1>3, GoneIs
<1>5. v \in Run /\ v.pc = "exited" /\ v.saved = run[t].saved /\ v.which = run[t].which /\ run' = [run EXCEPT ![t] = v]
  BY <1>1, <1>2, <1>3, GotoIs
<1>6. q[t] = v /\ \A u \in Threads : u # t => q[u] = run[u]
  BY <1>2, <1>3, <1>5
<1>7. signal_group_exit(group) \/ "STOP_PENDING" \notin group.task[t].jobctl
  <2>1. SUFFICES ASSUME ~signal_group_exit(group) PROVE "STOP_PENDING" \notin group.task[t].jobctl
    OBVIOUS
  <2>2. t \in Members(group) /\ thread_group_empty(group)
    BY <1>1, <1>2, <2>1 DEF Members
  <2>3. Members(group) = {t}
    BY <2>2, AloneIs
  <2>4. Stopped(group) = {}
    BY <1>2, <2>3 DEF Stopped, Members
  <2> QED
    BY <1>2, <2>1, <2>4 DEF StopInv, Joining
<1>8. Good(h, q, job) /\ KillInv(h) /\ h.flags = group.flags
  BY <1>2, <1>4, <1>5, <1>6, <1>7, LeftGood
<1>9. LockStep(t, v)
  BY <1>1, <1>5 DEF LockStep
<1> QED
  BY <1>1, <1>3, <1>5, <1>8, <1>9, CoreStep

LEMMA ExitSignalsCore ==
    ASSUME Core, NEW t \in Threads, exit_signals(t)
    PROVE  Core'
<1> DEFINE a == group.task[t]
           gone == [group EXCEPT !.task[t].exiting = TRUE]
           offered == retarget_shared_pending(gone, t, AllSignals \ a.blocked)
           x == task_participate_group_stop(offered, t)
           stops == a.tif /\ "STOP_PENDING" \in a.jobctl
           at == IF stops /\ x.notify THEN "exitnotify" ELSE "exited"
           why == IF stops /\ x.notify THEN "stopped" ELSE run[t].why
           v == [run[t] EXCEPT !.pc = at, !.why = why]
<1>1. /\ run[t].pc = "exitlock" /\ siglock = NULL /\ siglock' = siglock /\ told' = told /\ job' = job
      /\ group' = IF stops THEN x.group ELSE IF a.tif THEN offered ELSE gone
  BY DEF exit_signals, Locked
<1>2. Good(group, run, job) /\ KillInv(group) /\ group \in Group /\ run \in [Threads -> Run] /\ StopInv(group)
      /\ a.state = "running" /\ run[t] \in Run /\ Death(group, run)
  BY <1>1, MaskBits, Running DEF Core, Good
<1>3. run' = [run EXCEPT ![t] = v]
  BY <1>2 DEF exit_signals, Run
<1>4. v \in Run /\ v.pc = at /\ v.why = why /\ v.saved = run[t].saved /\ v.which = run[t].which
      /\ v.pc \in {"exited", "exitnotify"}
  BY <1>2, PcsAre DEF Run
<1> HIDE DEF v
<1>5. Left(group, gone, t) /\ Left(group, offered, t)
  BY <1>2, GoneIs, OfferedIs
<1> HIDE DEF gone, offered
<1>6. PICK h, q : h = group' /\ q = run'
  OBVIOUS
<1>7. q[t] = v /\ \A u \in Threads : u # t => q[u] = run[u]
  BY <1>2, <1>3, <1>4, <1>6
<1>8. LockStep(t, v)
  BY <1>1, <1>4 DEF LockStep
<1>9. CASE stops
  <2>1. ~signal_group_exit(group)
    BY <1>1, <1>2, <1>9 DEF Death, DeathAt, ExitPcs, Dying
  <2>2. Stopping(offered, Joining(group), t)
    BY <1>2, <1>5, <1>9, <2>1, LeftStopping
  <2>3. PICK last : last = x.notify
    OBVIOUS
  <2>4. TookPart(offered, h, Joining(group), t, last)
    BY <1>1, <1>6, <1>9, <2>2, <2>3, ParticipateIs
  <2>5. last \in BOOLEAN /\ at = (IF last THEN "exitnotify" ELSE "exited") /\ (last => why = "stopped")
    BY <1>9, <2>3, <2>4 DEF TookPart
  <2> HIDE DEF x, at, why
  <2>6. Good(h, q, job) /\ KillInv(h) /\ ("STOP_STOPPED" \in h.flags => q[t].pc = "exitnotify")
    BY <1>2, <1>4, <1>5, <1>7, <1>9, <2>1, <2>4, <2>5, LeftPartGood
  <2> QED
    BY <1>1, <1>3, <1>4, <1>6, <1>7, <1>8, <2>6, CoreStep
<1>10. CASE ~stops
  <2>1. Left(group, h, t)
    BY <1>1, <1>5, <1>6, <1>10
  <2>2. at = "exited"
    BY <1>10
  <2>3. signal_group_exit(group) \/ "STOP_PENDING" \notin a.jobctl
    BY <1>2, <1>10 DEF StopInv, StopAt
  <2> HIDE DEF at
  <2>4. Good(h, q, job) /\ KillInv(h) /\ h.flags = group.flags
    BY <1>2, <1>4, <1>7, <2>1, <2>2, <2>3, LeftGood
  <2> QED
    BY <1>1, <1>3, <1>4, <1>6, <1>8, <2>4, CoreStep
<1> QED
  BY <1>9, <1>10

-----------------------------------------------------------------------------
(* The timer, and the end of a task *)

LEMMA DisownEmpty == Disown(EmptyPending) = EmptyPending
<1>1. EmptyPending \in Pending /\ EmptyPending.list = <<>> /\ Len(<<>>) = 0
  BY NewTypes DEF EmptyPending
<1>2. Disown(EmptyPending) \in Pending /\ Disown(EmptyPending).signal = {} /\ Len(Disown(EmptyPending).list) = 0
  BY <1>1, DisownIs DEF EmptyPending
<1>3. Disown(EmptyPending).list = <<>>
  BY <1>2 DEF Pending
<1> QED
  BY <1>2, <1>3 DEF Pending, EmptyPending

\* The entry of the timer, if it is queued, is left to whoever dequeues it.
Disowned(g, h) ==
    /\ h \in Group /\ h.flags = g.flags /\ h.group_stop_count = g.group_stop_count
    /\ h.curr_target = g.curr_target /\ h.action = g.action /\ h.timer = FALSE /\ h.shared = Disown(g.shared)
    /\ h.sigpending = IF TimerQueued(g) THEN g.sigpending ELSE g.sigpending - 1
    /\ \A u \in Threads : /\ SameTask(g.task[u], h.task[u]) /\ h.task[u].pending = Disown(g.task[u].pending)
                          /\ h.task[u].state = g.task[u].state /\ h.task[u].tif = g.task[u].tif

LEMMA SigqueueFreeIs ==
    ASSUME NEW g \in Group
    PROVE  Disowned(g, sigqueue_free(g))
<1> DEFINE T == [u \in Threads |-> [g.task[u] EXCEPT !.pending = Disown(@)]]
           h == sigqueue_free(g)
           m == IF TimerQueued(g) THEN g.sigpending ELSE g.sigpending - 1
<1>1. /\ g.task \in [Threads -> Task] /\ g.shared \in Pending /\ g.sigpending \in Int
      /\ \A u \in Threads : g.task[u] \in Task /\ g.task[u].pending \in Pending
  BY GroupType, TaskType
<1>2. Disown(g.shared) \in Pending /\ \A u \in Threads : Disown(g.task[u].pending) \in Pending
  BY <1>1, DisownIs
<1>3. h = [g EXCEPT !.timer = FALSE, !.sigpending = m, !.shared = Disown(g.shared), !.task = T]
  BY DEF sigqueue_free
<1>4. m \in Int
  BY <1>1
<1>5. \A u \in Threads : T[u] = [g.task[u] EXCEPT !.pending = Disown(g.task[u].pending)]
  OBVIOUS
<1> HIDE DEF m
<1>6. ASSUME NEW u \in Threads
      PROVE  /\ T[u] \in Task /\ SameTask(g.task[u], T[u]) /\ T[u].pending = Disown(g.task[u].pending)
             /\ T[u].state = g.task[u].state /\ T[u].tif = g.task[u].tif
  <2>1. PICK p \in Pending : p = Disown(g.task[u].pending)
    BY <1>2
  <2>2. T[u] = [g.task[u] EXCEPT !.pending = p]
    BY <1>5, <2>1
  <2> QED
    BY <1>1, <2>1, <2>2 DEF Task, SameTask
<1>7. T \in [Threads -> Task]
  BY <1>6
<1> HIDE DEF T
<1>8. PICK s \in Pending : s = Disown(g.shared)
  BY <1>2
<1>9. h = [g EXCEPT !.timer = FALSE, !.sigpending = m, !.shared = s, !.task = T]
  BY <1>3, <1>8
<1> HIDE DEF h
<1>10. /\ h \in Group /\ h.flags = g.flags /\ h.group_stop_count = g.group_stop_count
       /\ h.curr_target = g.curr_target /\ h.action = g.action /\ h.timer = FALSE /\ h.shared = s
       /\ h.sigpending = m /\ h.task = T
  BY <1>4, <1>7, <1>9 DEF Group
<1> QED
  BY <1>6, <1>8, <1>10 DEF Disowned, h, m

LEMMA DisownedGood ==
    ASSUME NEW g, NEW r, NEW j, Good(g, r, j), NEW h, Disowned(g, h)
    PROVE  Good(h, r, j) /\ (KillInv(g) => KillInv(h)) /\ TouchedAll(g, h)
<1>1. g \in Group /\ g.action[SIGKILL].handler = "SIG_DFL" /\ \A u \in Threads : LinkAt(g.task[u], r[u])
  BY DEF Good
<1>2. \A u \in Threads : g.task[u].pending \in Pending
  BY <1>1, GroupType, TaskType
<1>3. g.shared \in Pending
  BY <1>1, GroupType
<1>4. h.shared.signal = g.shared.signal /\ \A u \in Threads : h.task[u].pending.signal = g.task[u].pending.signal
  BY <1>2, <1>3, DisownIs DEF Disowned
<1>5. \A u \in Threads : Touched(g.task[u], h.task[u])
  <2>1. \A u \in Threads : g.task[u].state = "dead" => h.task[u].pending = g.task[u].pending
    BY <1>1, DisownEmpty DEF LinkAt, Disowned
  <2> QED
    BY <1>4, <2>1 DEF Touched, Disowned
<1>6. TouchedAll(g, h)
  BY <1>1, <1>5 DEF TouchedAll, Disowned
<1>7. ~signal_group_exit(g) /\ j = "cont" =>
          /\ h.shared.signal \cap SIG_KERNEL_STOP_MASK = {}
          /\ \A t \in Threads : h.task[t].pending.signal \cap SIG_KERNEL_STOP_MASK = {}
  BY <1>4 DEF Good, ContInv
<1>8. Good(h, r, j)
  BY <1>6, <1>7, TouchedGood
<1>9. KillInv(g) => KillInv(h)
  BY <1>4 DEF KillInv, Disowned, SameTask, signal_group_exit
<1> QED
  BY <1>6, <1>8, <1>9

LEMMA TimerCore ==
    ASSUME Core, NEW t \in Threads, sigqueue_alloc(t) \/ timer_delete(t)
    PROVE  Core'
<1>1. Good(group, run, job) /\ KillInv(group) /\ group \in Group
  BY DEF Core, Good
<1>2. CASE sigqueue_alloc(t)
  <2>1. group' = [group EXCEPT !.timer = TRUE, !.sigpending = @ + 1] /\ UNCHANGED <<siglock, run, told, job>>
    BY <1>2 DEF sigqueue_alloc
  <2>2. PICK h : h = group'
    OBVIOUS
  <2>3. PICK m \in Int : m = group.sigpending + 1
    BY <1>1, GroupType
  <2>4. h = [group EXCEPT !.timer = TRUE, !.sigpending = m]
    BY <2>1, <2>2, <2>3
  <2>5. h \in Group /\ h.task = group.task /\ h.shared = group.shared /\ h.flags = group.flags
        /\ h.group_stop_count = group.group_stop_count /\ h.action = group.action
    BY <1>1, <2>4 DEF Group
  <2>6. Good(h, run, job) /\ KillInv(h)
    BY <1>1, <2>5 DEF Good, KillInv, Death, StopInv, ContInv, Joining, Stopped, signal_group_exit
  <2> QED
    BY <2>1, <2>2, <2>5, <2>6, CoreStill
<1>3. CASE timer_delete(t)
  <2>1. group' = sigqueue_free(group) /\ UNCHANGED <<siglock, run, told, job>>
    BY <1>3 DEF timer_delete
  <2>2. Disowned(group, group')
    BY <1>1, <2>1, SigqueueFreeIs
  <2>3. Good(group', run, job) /\ KillInv(group') /\ group'.flags = group.flags
    BY <1>1, <2>2, DisownedGood DEF Disowned
  <2> QED
    BY <2>1, <2>3, CoreStill
<1> QED
  BY <1>2, <1>3

DeadTask == [NewTask EXCEPT !.state = "dead", !.exiting = TRUE]

LEMMA DeadTaskIs ==
    /\ DeadTask \in Task /\ DeadTask.state = "dead" /\ DeadTask.exiting = TRUE /\ DeadTask.blocked = {}
    /\ DeadTask.real_blocked = {} /\ DeadTask.jobctl = {} /\ DeadTask.pending = EmptyPending /\ DeadTask.tif = FALSE
BY NewTypes DEF DeadTask, NewTask, Task

\* t is gone; when it is the leader, so is the queue of the process.
Gone(g, h, t) ==
    /\ h \in Group /\ h.flags = g.flags /\ h.group_stop_count = g.group_stop_count /\ h.action = g.action
    /\ h.timer = g.timer /\ h.task[t] = DeadTask /\ \A u \in Threads : u # t => h.task[u] = g.task[u]
    /\ h.shared = IF t = leader THEN EmptyPending ELSE g.shared
    /\ h.sigpending = g.sigpending - FreeAll(g.task[t].pending.list) - (IF t = leader THEN FreeAll(g.shared.list) ELSE 0)

LEMMA ReleaseIs ==
    ASSUME Core, NEW t \in Threads, release_task(t)
    PROVE  \E k : /\ k = group \/ (t = leader /\ group.timer /\ Disowned(group, k))
                  /\ t = leader => ~k.timer
                  /\ Gone(k, group', t)
<1> DEFINE k == IF t = leader /\ group.timer THEN sigqueue_free(group) ELSE group
           own == flush_sigqueue(k.task[t].pending)
           shared == IF t = leader THEN flush_sigqueue(k.shared) ELSE [pending |-> k.shared, freed |-> 0]
           cur == IF k.curr_target = t /\ t # leader THEN FirstFrom(t, Members(k) \ {t}) ELSE k.curr_target
           m == k.sigpending - own.freed - shared.freed
<1>1. /\ run[t].pc = "exited"
      /\ group' = [k EXCEPT !.task[t] = [NewTask EXCEPT !.state = "dead", !.exiting = TRUE],
                            !.shared = shared.pending, !.sigpending = m, !.curr_target = cur]
  BY DEF release_task, Locked
<1>2. group \in Group /\ Good(group, run, job) /\ GoneInv(group, told)
  BY DEF Core, Good
<1>3. (t = leader /\ group.timer) => Disowned(group, sigqueue_free(group))
  BY <1>2, SigqueueFreeIs
<1>4. k = group \/ (t = leader /\ group.timer /\ Disowned(group, k))
  BY <1>3
<1>5. t = leader => k.timer = FALSE
  <2>1. group.timer \in BOOLEAN
    BY <1>2, GroupType
  <2> QED
    BY <1>3, <2>1 DEF Disowned
<1> HIDE DEF k
<1>6. k \in Group /\ Members(k) = Members(group)
  <2>1. CASE k = group
    BY <1>2, <2>1
  <2>2. CASE Disowned(group, k)
    BY <2>2 DEF Disowned, Members
  <2> QED
    BY <1>4, <2>1, <2>2
<1>7. k.task[t] \in Task /\ k.task[t].pending \in Pending /\ k.shared \in Pending /\ k.sigpending \in Int
      /\ k.curr_target \in Threads /\ k.task \in [Threads -> Task]
  BY <1>6, GroupType, TaskType
<1>8. /\ own.freed = FreeAll(k.task[t].pending.list) /\ own.freed \in Nat
      /\ shared.pending = IF t = leader THEN EmptyPending ELSE k.shared
      /\ shared.freed = IF t = leader THEN FreeAll(k.shared.list) ELSE 0
      /\ shared.freed \in Nat /\ shared.pending \in Pending
  BY <1>7, FreeAllType, NewTypes DEF flush_sigqueue
<1> HIDE DEF own, shared
<1>9. m \in Int /\ m = k.sigpending - FreeAll(k.task[t].pending.list) - (IF t = leader THEN FreeAll(k.shared.list) ELSE 0)
  BY <1>7, <1>8
<1>10. cur \in Threads
  <2>1. CASE t # leader
    <3>1. leader \in Threads /\ t \in Members(group)
      BY <1>1, <1>2, ThreadsFinite DEF Good, LinkAt, Members
    <3>2. leader \in Members(group)
      BY <1>2, <3>1 DEF GoneInv, Members
    <3>3. Members(k) \ {t} # {} /\ Members(k) \ {t} \in SUBSET Threads
      BY <1>6, <2>1, <3>2 DEF Members
    <3>4. FirstFrom(t, Members(k) \ {t}) \in Threads
      BY <3>3, FirstIsMember
    <3> QED
      BY <1>7, <3>4
  <2>2. CASE t = leader
    BY <1>7, <2>2
  <2> QED
    BY <2>1, <2>2
<1> HIDE DEF cur, m
<1>11. PICK h : h = group'
  OBVIOUS
<1>12. h = [k EXCEPT !.task = [k.task EXCEPT ![t] = DeadTask], !.shared = shared.pending, !.sigpending = m, !.curr_target = cur]
  BY <1>1, <1>6, <1>11 DEF DeadTask, Group
<1>13. PICK T : T = [k.task EXCEPT ![t] = DeadTask]
  OBVIOUS
<1>14. T \in [Threads -> Task] /\ T[t] = DeadTask /\ \A u \in Threads : u # t => T[u] = k.task[u]
  BY <1>7, <1>13, DeadTaskIs
<1>15. PICK s \in Pending : s = shared.pending
  BY <1>8
<1>16. h = [k EXCEPT !.task = T, !.shared = s, !.sigpending = m, !.curr_target = cur]
  BY <1>12, <1>13, <1>15
<1>17. /\ h \in Group /\ h.task = T /\ h.shared = s /\ h.sigpending = m
       /\ h.flags = k.flags /\ h.group_stop_count = k.group_stop_count /\ h.action = k.action /\ h.timer = k.timer
  BY <1>6, <1>9, <1>10, <1>14, <1>16 DEF Group
<1>18. Gone(k, h, t)
  BY <1>8, <1>9, <1>14, <1>15, <1>17 DEF Gone
<1> QED
  BY <1>4, <1>5, <1>11, <1>18

\* A task that has left takes nothing with it that a group stop or exit waits for.
LEMMA GoneGood ==
    ASSUME NEW g, NEW r, NEW j, Good(g, r, j), KillInv(g), NEW t \in Threads, NEW h, Gone(g, h, t),
           r[t].pc = "exited", NEW q, \A u \in Threads : u # t => q[u] = r[u], q[t] = Idle("dead")
    PROVE  Good(h, q, j) /\ KillInv(h)
<1>1. /\ g \in Group /\ g.action[SIGKILL].handler = "SIG_DFL"
      /\ \A u \in Threads : LinkAt(g.task[u], r[u]) /\ MaskAt(g.task[u], r[u])
  BY DEF Good
<1>2. /\ h \in Group /\ h.flags = g.flags /\ h.group_stop_count = g.group_stop_count /\ h.action = g.action
      /\ h.task[t] = DeadTask /\ \A u \in Threads : u # t => h.task[u] = g.task[u]
      /\ h.shared.signal \subseteq g.shared.signal /\ signal_group_exit(h) = signal_group_exit(g)
  BY DEF Gone, EmptyPending, signal_group_exit
<1>3. q[t].pc = "dead" /\ q[t].which = {} /\ q[t].saved = NULL
  BY PcsAre, IdleType
<1>4. g.task[t].exiting /\ g.task[t].state # "stopped"
  BY <1>1 DEF LinkAt
<1>5. \A u \in Threads : LinkAt(h.task[u], q[u]) /\ MaskAt(h.task[u], q[u])
  <2>1. LinkAt(h.task[t], q[t]) /\ MaskAt(h.task[t], q[t])
    BY <1>2, <1>3, DeadTaskIs DEF LinkAt, MaskAt
  <2> QED
    BY <1>1, <1>2, <2>1
<1>6. Death(h, q)
  <2>1. DeathAt(h.task[t], q[t])
    BY <1>2, <1>3, DeadTaskIs DEF DeathAt, ExitPcs, Dying
  <2> QED
    BY <1>2, <2>1 DEF Good, Death
<1>7. StopInv(h)
  <2>1. SUFFICES ASSUME ~signal_group_exit(g)
                 PROVE  /\ h.group_stop_count = Cardinality(Joining(h))
                        /\ \A u \in Threads : StopAt(h.task[u])
                        /\ Joining(h) # {} => Stopped(h) # {}
                        /\ "STOP_STOPPED" \in h.flags => Stopped(h) # {} /\ Joining(h) = {}
                        /\ Stopped(h) # {} => /\ \A u \in Threads : h.task[u].exiting \/ u \in Stopped(h) \cup Joining(h)
                                              /\ Joining(h) # {} \/ "STOP_STOPPED" \in h.flags
    BY <1>2 DEF StopInv
  <2>2. /\ g.group_stop_count = Cardinality(Joining(g))
        /\ \A u \in Threads : StopAt(g.task[u])
        /\ Joining(g) # {} => Stopped(g) # {}
        /\ "STOP_STOPPED" \in g.flags => Stopped(g) # {} /\ Joining(g) = {}
        /\ Stopped(g) # {} => /\ \A u \in Threads : g.task[u].exiting \/ u \in Stopped(g) \cup Joining(g)
                              /\ Joining(g) # {} \/ "STOP_STOPPED" \in g.flags
    BY <2>1 DEF Good, StopInv
  <2>3. "STOP_PENDING" \notin g.task[t].jobctl /\ "STOP_PENDING" \notin h.task[t].jobctl
        /\ h.task[t].state # "stopped" /\ h.task[t].exiting /\ StopAt(h.task[t])
    BY <1>2, <1>4, <2>2, DeadTaskIs DEF StopAt
  <2>4. Joining(h) = Joining(g) /\ Stopped(h) = Stopped(g)
    BY <1>2, <1>4, <2>3 DEF Joining, Stopped
  <2>5. \A u \in Threads : StopAt(h.task[u]) /\ (g.task[u].exiting => h.task[u].exiting)
    BY <1>2, <2>2, <2>3
  <2> QED
    BY <1>2, <2>2, <2>4, <2>5
<1>8. DeadTask.pending.signal = {}
  BY DeadTaskIs DEF EmptyPending
<1>9. ContInv(h, j)
  BY <1>2, <1>8, DeadTaskIs DEF Good, ContInv
<1>10. KillInv(h)
  BY <1>2, <1>8 DEF KillInv
<1> QED
  BY <1>1, <1>2, <1>5, <1>6, <1>7, <1>9, <1>10 DEF Good

LEMMA ReleaseCore ==
    ASSUME Core, NEW t \in Threads, release_task(t)
    PROVE  Core'
<1>1. /\ run[t].pc = "exited" /\ (t = leader => told = "exited") /\ run' = [run EXCEPT ![t] = Idle("dead")]
      /\ siglock = NULL /\ siglock' = siglock /\ job' = job /\ told' = told
  BY DEF release_task, Locked
<1>2. group \in Group /\ Good(group, run, job) /\ KillInv(group) /\ run \in [Threads -> Run] /\ GoneInv(group, told)
      /\ LockInv /\ ToldInv(group, run, told)
  BY DEF Core, Good
<1>3. PICK k : /\ k = group \/ (t = leader /\ group.timer /\ Disowned(group, k))
               /\ Gone(k, group', t)
  BY ReleaseIs
<1>4. Good(k, run, job) /\ KillInv(k) /\ k.flags = group.flags /\ Members(k) = Members(group)
  <2>1. CASE k = group
    BY <1>2, <2>1
  <2>2. CASE Disowned(group, k)
    BY <1>2, <2>2, DisownedGood DEF Disowned, Members
  <2> QED
    BY <1>3, <2>1, <2>2
<1>5. run'[t] = Idle("dead") /\ (\A u \in Threads : u # t => run'[u] = run[u]) /\ run' \in [Threads -> Run]
      /\ Idle("dead").pc = "dead"
  BY <1>1, <1>2, PcsAre, IdleType
<1>6. Good(group', run', job) /\ KillInv(group')
  <2>1. PICK h, q : h = group' /\ q = run'
    OBVIOUS
  <2>2. Gone(k, h, t) /\ q[t] = Idle("dead") /\ \A u \in Threads : u # t => q[u] = run[u]
    BY <1>3, <1>5, <2>1
  <2>3. Good(h, q, job) /\ KillInv(h)
    BY <1>1, <1>4, <2>2, GoneGood
  <2> QED
    BY <2>1, <2>3
<1>7. Members(group') = Members(group) \ {t}
  <2>1. Members(group') = Members(k) \ {t}
    BY <1>3, DeadTaskIs DEF Gone, Members
  <2> QED
    BY <1>4, <2>1
<1>8. GoneInv(group', told')
  <2>1. leader \in Threads /\ (told = "exited" => Members(group) \subseteq {leader})
        /\ (group.task[leader].state = "dead" => Members(group) = {})
    BY <1>2, ThreadsFinite DEF GoneInv
  <2>2. told' = "exited" => Members(group') \subseteq {leader}
    BY <1>1, <1>7, <2>1
  <2>3. CASE t = leader
    BY <1>1, <1>7, <2>1, <2>2, <2>3 DEF GoneInv
  <2>4. CASE t # leader
    <3>1. group'.task[leader].state = "dead" => group.task[leader].state = "dead"
      BY <1>7, <2>1, <2>4 DEF Members
    <3> QED
      BY <1>7, <2>1, <2>2, <3>1 DEF GoneInv
  <2> QED
    BY <2>3, <2>4
<1>9. ToldInv(group', run', told')
  <2>1. group'.flags = group.flags
    BY <1>3, <1>4 DEF Gone
  <2> QED
    BY <1>1, <1>2, <1>5, <2>1 DEF ToldInv
<1>10. LockInv'
  <2>1. \A u \in Threads : u # NULL
    BY SignalsConstants
  <2> QED
    BY <1>1, <1>2, <1>5, <2>1 DEF LockInv
<1>11. siglock' \in Threads \cup {NULL}
  BY <1>1
<1>12. Good(group', run', job')
  BY <1>1, <1>6
<1> QED
  BY <1>5, <1>6, <1>8, <1>9, <1>10, <1>11, <1>12 DEF Core

-----------------------------------------------------------------------------
(* The turns of get_signal *)

\* From a group g that is as good as the one the step found, t goes on to v.
LEMMA RunOn ==
    ASSUME Core, NEW g, Good(g, run, job), KillInv(g), g.flags = group.flags, NEW t \in Threads,
           g.task[t].state = "running", ~g.task[t].exiting, NEW v \in Run, run' = [run EXCEPT ![t] = v],
           LockStep(t, v), v.pc \notin ExitPcs \cup {"stopnotify"}, v.pc \in {"rearm", "deliver"} => v.sig # 0,
           v.which = run[t].which, v.saved \in {run[t].saved, NULL},
           signal_group_exit(g) => (Dying(run[t]) => Dying(v)), run[t].pc \notin ExitPcs \cup {"stopnotify"},
           group' = g, told' = told, job' = job
    PROVE  Core'
<1>1. run \in [Threads -> Run]
  BY DEF Core
<1>2. run'[t] = v /\ \A u \in Threads : u # t => run'[u] = run[u]
  BY <1>1
<1>3. LinkAt(g.task[t], run[t]) /\ MaskAt(g.task[t], run[t])
  BY DEF Good
<1>4. LinkAt(g.task[t], v) /\ MaskAt(g.task[t], v)
  BY <1>3 DEF LinkAt, MaskAt, ExitPcs
<1>5. PICK q : q = run'
  OBVIOUS
<1>6. Good(g, q, job)
  BY <1>2, <1>4, <1>5, MoveGood
<1>7. (v.pc = "dead" <=> run[t].pc = "dead") /\ run[t].pc \notin {"stopnotify", "exitnotify"}
  BY DEF ExitPcs
<1> QED
  BY <1>5, <1>6, <1>7, CoreStep

LEMMA StopCore ==
    ASSUME Core, NEW g, Good(g, run, job), KillInv(g), g.flags = group.flags, NEW t \in Threads,
           g.task[t].state = "running", ~g.task[t].exiting, run[t].pc \in {"loop", "relock", "rearm", "stop"},
           siglock \in {NULL, t}, ~Dying(run[t]), do_signal_stop(g, t), told' = told, job' = job
    PROVE  Core'
<1> DEFINE new == IF "STOP_PENDING" \in g.task[t].jobctl THEN g ELSE InitiateStop(g, t)
           x == task_participate_group_stop(new, t)
           h == [x.group EXCEPT !.task[t].state = "stopped"]
<1>1. run \in [Threads -> Run] /\ run[t] \in Run /\ run[t].pc \notin ExitPcs \cup {"stopnotify"}
  BY DEF Core, ExitPcs
<1>2. CASE "STOP_PENDING" \notin g.task[t].jobctl /\ StopCancelledMeanwhile(g, t)
  <2>1. group' = g /\ siglock' = t /\ Goto(t, "loop")
    BY <1>2 DEF do_signal_stop, NextTurn
  <2>2. PICK v : v = [run[t] EXCEPT !.pc = "loop"]
    OBVIOUS
  <2>3. v \in Run /\ v.pc = "loop" /\ v.which = run[t].which /\ v.saved = run[t].saved /\ run' = [run EXCEPT ![t] = v]
    BY <1>1, <2>1, <2>2, PcsAre, GotoIs
  <2>4. LockStep(t, v) /\ v.pc \notin ExitPcs \cup {"stopnotify"}
    BY <2>1, <2>3 DEF LockStep, ExitPcs
  <2> QED
    BY <1>1, <2>1, <2>3, <2>4, RunOn
<1>3. CASE ~("STOP_PENDING" \notin g.task[t].jobctl /\ StopCancelledMeanwhile(g, t))
  <2>1. /\ group' = h /\ siglock' = NULL
        /\ run' = [run EXCEPT ![t].pc = IF x.notify THEN "stopnotify" ELSE "stopped",
                              ![t].why = IF x.notify THEN "stopped" ELSE @]
    BY <1>3 DEF do_signal_stop
  <2>2. ~signal_group_exit(g)
    <3>1. signal_group_exit(g) => "STOP_PENDING" \notin g.task[t].jobctl
      BY <1>1 DEF Good, Death, DeathAt
    <3> QED
      BY <1>3, <3>1 DEF StopCancelledMeanwhile
  <2>3. "STOP_PENDING" \in g.task[t].jobctl \/ "STOP_DEQUEUED" \in g.task[t].jobctl
    BY <1>3 DEF StopCancelledMeanwhile
  <2>4. g.task[t].exiting = FALSE
    BY GroupType, TaskType DEF Good
  <2>5. Halted(g, h, t, x.notify) /\ job # "cont"
    BY <2>2, <2>3, <2>4, StopIs
  <2>6. PICK k, last : k = h /\ last = x.notify
    OBVIOUS
  <2> HIDE DEF h, x
  <2>7. Halted(g, k, t, last) /\ group' = k /\ last \in BOOLEAN
        /\ run' = [run EXCEPT ![t].pc = IF last THEN "stopnotify" ELSE "stopped",
                              ![t].why = IF last THEN "stopped" ELSE @]
    BY <2>1, <2>5, <2>6 DEF Halted
  <2>8. PICK v : v = [run[t] EXCEPT !.pc = IF last THEN "stopnotify" ELSE "stopped",
                                    !.why = IF last THEN "stopped" ELSE @]
    OBVIOUS
  <2>9. /\ v \in Run /\ v.pc = (IF last THEN "stopnotify" ELSE "stopped") /\ (last => v.why = "stopped")
        /\ v.which = run[t].which /\ v.saved = run[t].saved
    BY <1>1, <2>8, PcsAre DEF Run
  <2>10. run' = [run EXCEPT ![t] = v]
    BY <1>1, <2>7, <2>8
  <2>11. PICK q : q = run'
    OBVIOUS
  <2>12. q[t] = v /\ \A u \in Threads : u # t => q[u] = run[u]
    BY <1>1, <2>10, <2>11
  <2>13. Good(k, q, job) /\ KillInv(k) /\ ("STOP_STOPPED" \in k.flags => q[t].pc = "stopnotify")
    <3>1. Rests(run, q, t, last)
      BY <2>9, <2>12 DEF Rests
    <3>2. Halted(g, k, t, last) /\ job # "cont" /\ ~signal_group_exit(g)
      BY <2>2, <2>5, <2>7
    <3> QED
      BY <3>1, <3>2, HaltGood
  <2>14. LockStep(t, v) /\ v.pc # "dead" /\ run[t].pc \notin {"dead", "stopnotify", "exitnotify"}
    BY <2>1, <2>9 DEF LockStep
  <2> QED
    BY <2>7, <2>9, <2>10, <2>11, <2>12, <2>13, <2>14, CoreStep
<1> QED
  BY <1>2, <1>3

\* The branches of Dispatch; SIGKILL takes the last.
LEMMA DispatchIs ==
    ASSUME NEW g, NEW t, NEW sig, g.action[SIGKILL].handler = "SIG_DFL", Dispatch(g, t, sig)
    PROVE  \/ sig # SIGKILL /\ group' = g /\ Unlock(t, "restore")
           \/ sig # SIGKILL /\ group' = g /\ NextTurn(t)
           \/ /\ sig \notin {0, SIGKILL} /\ siglock' = NULL
              /\ group' = IF "SA_ONESHOT" \in g.action[sig].flags
                          THEN [g EXCEPT !.action[sig].handler = "SIG_DFL"] ELSE g
              /\ run' = [run EXCEPT ![t].pc = "deliver", ![t].sig = sig, ![t].ka = g.action[sig]]
           \/ sig # SIGKILL /\ do_signal_stop(g, t)
           \/ sig # SIGKILL /\ group' = g /\ Unlock(t, "orphan")
           \/ sig # 0 /\ group' = g /\ Unlock(t, "fatal")
<1>1. SIGKILL # 0 /\ SIGKILL # SIGSTOP /\ SIGKILL \notin SIG_KERNEL_IGNORE_MASK \cup SIG_KERNEL_STOP_MASK
  BY DEF SIGKILL, SIGSTOP, SIGCONT, SIGTSTP, SIG_KERNEL_IGNORE_MASK, SIG_KERNEL_STOP_MASK
<1>2. sig = SIGKILL => ~sig_handler_ignored(g.action[sig], sig) /\ g.action[sig].handler # "handler"
  BY <1>1 DEF sig_handler_ignored
<1>3. CASE sig = 0
  BY <1>1, <1>3 DEF Dispatch
<1>4. CASE sig # 0 /\ sig_handler_ignored(g.action[sig], sig)
  BY <1>2, <1>4 DEF Dispatch, sig_handler_ignored
<1>5. CASE sig # 0 /\ g.action[sig].handler = "handler"
  BY <1>2, <1>5 DEF Dispatch, sig_handler_ignored
<1>6. CASE sig # 0 /\ ~sig_handler_ignored(g.action[sig], sig) /\ g.action[sig].handler # "handler"
  <2>1. CASE sig = SIGSTOP
    BY <1>1, <1>6, <2>1 DEF Dispatch
  <2>2. CASE sig \in SIG_KERNEL_STOP_MASK \ {SIGSTOP} /\ g.action[sig].handler = "SIG_DFL"
    BY <1>1, <1>6, <2>2 DEF Dispatch
  <2>3. CASE sig # SIGSTOP /\ ~(sig \in SIG_KERNEL_STOP_MASK \ {SIGSTOP} /\ g.action[sig].handler = "SIG_DFL")
    BY <1>1, <1>6, <2>3 DEF Dispatch
  <2> QED
    BY <2>1, <2>2, <2>3
<1> QED
  BY <1>3, <1>4, <1>5, <1>6

LEMMA DispatchCore ==
    ASSUME Core, NEW g \in Group, KillInv(g), g.flags = group.flags, g.action[SIGKILL].handler = "SIG_DFL",
           NEW t \in Threads, g.task[t].state = "running", ~g.task[t].exiting,
           run[t].pc \in {"loop", "relock", "rearm"}, siglock \in {NULL, t}, NEW sig \in AllSignals \cup {0},
           sig # SIGKILL => Good(g, run, job) /\ ~Dying(run[t]), Good(g, [run EXCEPT ![t].pc = "fatal"], job),
           Dispatch(g, t, sig), told' = told, job' = job
    PROVE  Core'
<1>1. run \in [Threads -> Run] /\ run[t] \in Run /\ run[t].pc \notin ExitPcs \cup {"stopnotify"}
  BY DEF Core, ExitPcs
<1>2. ASSUME NEW at \in {"restore", "loop", "orphan"}, sig # SIGKILL, group' = g, Goto(t, at),
             siglock' = IF at = "loop" THEN t ELSE NULL
      PROVE  Core'
  <2>1. PICK v : v = [run[t] EXCEPT !.pc = at]
    OBVIOUS
  <2>2. at \in Pcs
    BY <1>2, PcsAre
  <2>3. v \in Run /\ v.pc = at /\ v.which = run[t].which /\ v.saved = run[t].saved /\ run' = [run EXCEPT ![t] = v]
    BY <1>1, <1>2, <2>1, <2>2, GotoIs
  <2>4. LockStep(t, v) /\ v.pc \notin ExitPcs \cup {"stopnotify", "rearm", "deliver"}
    BY <1>2, <2>3 DEF LockStep, ExitPcs
  <2> QED
    BY <1>1, <1>2, <2>3, <2>4, RunOn
<1>3. CASE sig # SIGKILL /\ group' = g /\ Unlock(t, "restore")
  BY <1>2, <1>3 DEF Unlock
<1>4. CASE sig # SIGKILL /\ group' = g /\ NextTurn(t)
  BY <1>2, <1>4 DEF NextTurn
<1>5. CASE /\ sig \notin {0, SIGKILL} /\ siglock' = NULL
           /\ group' = IF "SA_ONESHOT" \in g.action[sig].flags
                       THEN [g EXCEPT !.action[sig].handler = "SIG_DFL"] ELSE g
           /\ run' = [run EXCEPT ![t].pc = "deliver", ![t].sig = sig, ![t].ka = g.action[sig]]
  <2>1. sig \in AllSignals /\ g.action[sig] \in Action /\ Good(g, run, job)
    BY <1>5, GroupType
  <2>2. PICK h : h = group'
    OBVIOUS
  <2>3. h = g \/ ActOnly(g, h)
    BY <1>5, <2>1, <2>2, DefaultIs
  <2>4. Good(h, run, job) /\ KillInv(h) /\ h.flags = g.flags /\ h.task = g.task
    BY <2>1, <2>3, ActGood DEF ActOnly
  <2>5. PICK v : v = [run[t] EXCEPT !.pc = "deliver", !.sig = sig, !.ka = g.action[sig]]
    OBVIOUS
  <2>6. v \in Run /\ v.pc = "deliver" /\ v.sig = sig /\ v.which = run[t].which /\ v.saved = run[t].saved
    BY <1>1, <2>1, <2>5, PcsAre DEF Run
  <2>7. run' = [run EXCEPT ![t] = v]
    BY <1>1, <1>5, <2>5
  <2>8. LockStep(t, v) /\ v.pc \notin ExitPcs \cup {"stopnotify"} /\ v.sig # 0
    BY <1>5, <2>6 DEF LockStep, ExitPcs
  <2>9. h.flags = group.flags /\ h.task[t].state = "running" /\ ~h.task[t].exiting /\ ~Dying(run[t])
    BY <1>5, <2>4
  <2> QED
    BY <1>1, <2>2, <2>4, <2>6, <2>7, <2>8, <2>9, RunOn
<1>6. CASE sig # SIGKILL /\ do_signal_stop(g, t)
  BY <1>6, StopCore
<1>7. CASE sig # SIGKILL /\ group' = g /\ Unlock(t, "orphan")
  BY <1>2, <1>7 DEF Unlock
<1>8. CASE sig # 0 /\ group' = g /\ Unlock(t, "fatal")
  <2>1. PICK v : v = [run[t] EXCEPT !.pc = "fatal"]
    OBVIOUS
  <2>2. v \in Run /\ v.pc = "fatal" /\ run' = [run EXCEPT ![t] = v]
    BY <1>1, <1>8, <2>1, PcsAre, GotoIs DEF Unlock
  <2>3. run' = [run EXCEPT ![t].pc = "fatal"]
    BY <1>8 DEF Unlock, Goto
  <2>4. LockStep(t, v) /\ v.pc \notin {"dead"} /\ run[t].pc \notin {"dead", "stopnotify", "exitnotify"}
    BY <1>8, <2>2 DEF LockStep, Unlock
  <2>5. Good(group', run', job')
    BY <1>8, <2>3
  <2> QED
    BY <1>8, <2>2, <2>4, <2>5, CoreStep
<1>9. \/ sig # SIGKILL /\ group' = g /\ Unlock(t, "restore")
      \/ sig # SIGKILL /\ group' = g /\ NextTurn(t)
      \/ /\ sig \notin {0, SIGKILL} /\ siglock' = NULL
         /\ group' = IF "SA_ONESHOT" \in g.action[sig].flags
                     THEN [g EXCEPT !.action[sig].handler = "SIG_DFL"] ELSE g
         /\ run' = [run EXCEPT ![t].pc = "deliver", ![t].sig = sig, ![t].ka = g.action[sig]]
      \/ sig # SIGKILL /\ do_signal_stop(g, t)
      \/ sig # SIGKILL /\ group' = g /\ Unlock(t, "orphan")
      \/ sig # 0 /\ group' = g /\ Unlock(t, "fatal")
  BY DispatchIs
<1> QED
  BY <1>3, <1>4, <1>5, <1>6, <1>7, <1>8, <1>9

\* In the loop t runs, holds the lock or finds it free, and has no signal in hand.
LEMMA InLoopIs ==
    ASSUME Core, NEW t \in Threads, InLoop(t) \/ Locked(t, "rearm") \/ Locked(t, "stop")
    PROVE  /\ run[t].pc \in {"loop", "relock", "rearm", "stop"} /\ siglock \in {NULL, t}
           /\ InLoop(t) => run[t].pc \in {"loop", "relock"}
           /\ group.task[t].state = "running" /\ ~group.task[t].exiting
           /\ run[t].pc # "rearm" => ~Dying(run[t])
           /\ run \in [Threads -> Run] /\ group \in Group /\ Good(group, run, job) /\ KillInv(group)
           /\ group.action[SIGKILL].handler = "SIG_DFL" /\ run[t] \in Run
<1>1. run[t].pc \in {"loop", "relock", "rearm", "stop"} /\ siglock \in {NULL, t} /\ (InLoop(t) => run[t].pc \in {"loop", "relock"})
  BY DEF InLoop, Locked
<1>2. group.task[t].state = "running"
  BY <1>1, Running
<1>3. LinkAt(group.task[t], run[t])
  BY DEF Core, Good
<1>4. ~group.task[t].exiting
  BY <1>1, <1>3 DEF LinkAt
<1>5. run[t].pc # "rearm" => ~Dying(run[t])
  BY <1>1 DEF Dying, ExitPcs
<1> QED
  BY <1>1, <1>2, <1>4, <1>5 DEF Core, Good

LEMMA JoinCore ==
    ASSUME Core, NEW t \in Threads, JoinGroupStop(t) \/ Stop(t)
    PROVE  Core'
<1>1. (InLoop(t) \/ Locked(t, "stop")) /\ do_signal_stop(group, t) /\ told' = told /\ job' = job
  BY DEF JoinGroupStop, Stop
<1>2. run[t].pc # "rearm"
  BY <1>1, InLoopIs DEF Locked
<1> QED
  BY <1>1, <1>2, InLoopIs, StopCore

LEMMA GetSignalCore ==
    ASSUME Core, NEW t \in Threads, GetSignal(t)
    PROVE  Core'
<1> DEFINE d == Dequeue(group, t)
<1>1. InLoop(t) /\ told' = told /\ job' = job
  BY DEF GetSignal
<1>2. /\ run[t].pc \in {"loop", "relock"} /\ siglock \in {NULL, t} /\ group.task[t].state = "running"
      /\ ~group.task[t].exiting /\ ~Dying(run[t]) /\ run \in [Threads -> Run] /\ run[t] \in Run /\ group \in Group
      /\ Good(group, run, job) /\ KillInv(group) /\ group.action[SIGKILL].handler = "SIG_DFL"
  BY <1>1, InLoopIs
<1>3. \/ d.timer /\ group' = d.group /\ siglock' = NULL /\ run' = [run EXCEPT ![t].pc = "rearm", ![t].sig = d.sig]
      \/ Dispatch(d.group, t, d.sig)
  BY DEF GetSignal
<1>4. Took(group, d.group, t, d.sig) /\ d.sig \in AllSignals \cup {0} /\ (d.timer => d.sig # 0)
  BY <1>2, DequeueIs
<1>5. PICK h, sig : h = d.group /\ sig = d.sig
  OBVIOUS
<1> HIDE DEF d
<1>6. Took(group, h, t, sig) /\ sig \in AllSignals \cup {0}
  BY <1>4, <1>5
<1>7. /\ h \in Group /\ h.flags = group.flags /\ h.action = group.action
      /\ h.task[t].state = group.task[t].state /\ h.task[t].exiting = group.task[t].exiting
      /\ h.task[t].blocked = group.task[t].blocked /\ h.task[t].real_blocked = group.task[t].real_blocked
  BY <1>6, TookKeeps
<1>8. CASE d.timer /\ group' = d.group /\ siglock' = NULL /\ run' = [run EXCEPT ![t].pc = "rearm", ![t].sig = d.sig]
  <2>1. PICK v : v = [run[t] EXCEPT !.pc = "rearm", !.sig = sig]
    OBVIOUS
  <2>2. v \in Run /\ v.pc = "rearm" /\ v.sig = sig /\ v.which = run[t].which /\ v.saved = run[t].saved /\ sig # 0
    BY <1>2, <1>4, <1>5, <1>6, <1>8, <2>1, PcsAre DEF Run
  <2>3. run' = [run EXCEPT ![t] = v]
    BY <1>2, <1>5, <1>8, <2>1
  <2>4. PICK q : q = run'
    OBVIOUS
  <2>5. q[t] = v /\ \A u \in Threads : u # t => q[u] = run[u]
    BY <1>2, <2>3, <2>4
  <2>6. LinkAt(group.task[t], run[t]) /\ MaskAt(group.task[t], run[t])
    BY <1>2 DEF Good
  <2>7. LinkAt(h.task[t], q[t]) /\ MaskAt(h.task[t], q[t]) /\ (sig = SIGKILL => Dying(q[t]))
    BY <1>2, <1>7, <2>2, <2>5, <2>6 DEF LinkAt, MaskAt, Dying
  <2>8. Good(h, q, job) /\ KillInv(h)
    BY <1>2, <1>6, <2>5, <2>7, TookGood
  <2>9. LockStep(t, v) /\ run[t].pc \notin {"dead", "stopnotify", "exitnotify"}
    BY <1>2, <1>8, <2>2 DEF LockStep
  <2> QED
    BY <1>1, <1>5, <1>7, <1>8, <2>2, <2>3, <2>4, <2>8, <2>9, CoreStep
<1>9. CASE Dispatch(d.group, t, d.sig)
  <2>1. PICK q : q = [run EXCEPT ![t].pc = "fatal"]
    OBVIOUS
  <2>2. q[t].pc = "fatal" /\ q[t].which = run[t].which /\ q[t].saved = run[t].saved
        /\ \A u \in Threads : u # t => q[u] = run[u]
    BY <1>2, <2>1 DEF Run
  <2>3. q[t].pc \notin ExitPcs \cup {"rearm", "deliver", "stopnotify"} /\ q[t].which \cap SIG_KERNEL_ONLY_MASK = {}
    BY <1>2, <2>2 DEF ExitPcs, Good, MaskAt
  <2>4. Good(h, q, job) /\ KillInv(h)
    BY <1>2, <1>6, <2>2, <2>3, TookMove
  <2>5. sig # SIGKILL => Good(h, run, job)
    <3>1. run[t].pc \notin ExitPcs \cup {"rearm", "deliver", "stopnotify"} /\ run[t].which \cap SIG_KERNEL_ONLY_MASK = {}
      BY <1>2 DEF ExitPcs, Good, MaskAt
    <3> QED
      BY <1>2, <1>6, <3>1, TookMove
  <2>6. ~h.task[t].exiting /\ h.task[t].state = "running" /\ h.action[SIGKILL].handler = "SIG_DFL" /\ Dispatch(h, t, sig)
    BY <1>2, <1>5, <1>7, <1>9
  <2> QED
    BY <1>1, <1>2, <1>6, <1>7, <2>1, <2>4, <2>5, <2>6, DispatchCore
<1> QED
  BY <1>3, <1>8, <1>9

LEMMA RearmedCore ==
    ASSUME Core, NEW t \in Threads, Rearmed(t)
    PROVE  Core'
<1>1. Locked(t, "rearm") /\ run[t].pc = "rearm" /\ Dispatch(group, t, run[t].sig) /\ told' = told /\ job' = job
  BY DEF Rearmed, Locked
<1>2. /\ siglock \in {NULL, t} /\ group.task[t].state = "running" /\ ~group.task[t].exiting
      /\ run \in [Threads -> Run] /\ run[t] \in Run /\ group \in Group
      /\ Good(group, run, job) /\ KillInv(group) /\ group.action[SIGKILL].handler = "SIG_DFL"
  BY <1>1, InLoopIs
<1>3. run[t].sig \in AllSignals \cup {0} /\ (run[t].sig # SIGKILL => ~Dying(run[t]))
  BY <1>1, <1>2, RunType DEF Dying, ExitPcs
<1>4. PICK q : q = [run EXCEPT ![t].pc = "fatal"]
  OBVIOUS
<1>5. /\ q[t].pc = "fatal" /\ q[t].which = run[t].which /\ q[t].saved = run[t].saved
      /\ \A u \in Threads : u # t => q[u] = run[u]
  BY <1>2, <1>4 DEF Run
<1>6. LinkAt(group.task[t], run[t]) /\ MaskAt(group.task[t], run[t])
  BY <1>2 DEF Good
<1>7. LinkAt(group.task[t], q[t]) /\ MaskAt(group.task[t], q[t]) /\ Dying(q[t])
  BY <1>2, <1>5, <1>6 DEF LinkAt, MaskAt, Dying
<1>8. Good(group, q, job)
  <2>1. run[t].pc \notin ExitPcs
    BY <1>1 DEF ExitPcs
  <2> QED
    BY <1>2, <1>5, <1>7, <2>1, MoveGood
<1> QED
  BY <1>1, <1>2, <1>3, <1>4, <1>8, DispatchCore

-----------------------------------------------------------------------------
(* Sending, and signals that are forced *)

\* SIGSEGV is forced on t, which goes back to user mode.
Raised(t, info, mem, v) ==
    /\ run[t].pc \in {"user", "segv"} /\ info \in {"fault", "priv"}
    /\ group' = force_sig_info(group, SIGSEGV, info, t, mem) /\ run' = [run EXCEPT ![t] = v]
    /\ v.pc = "out" /\ v.which \subseteq run[t].which /\ v.saved \in {run[t].saved, NULL}
    /\ siglock' = siglock /\ told' = told /\ job' = job

LEMMA RaisedFrom ==
    ASSUME Core, NEW t \in Threads, NEW info, NEW mem, NEW v, Raised(t, info, mem, v)
    PROVE  /\ Good(group, run, job) /\ KillInv(group) /\ group \in Group /\ ~Dying(run[t])
           /\ group.action[SIGKILL].handler = "SIG_DFL" /\ run \in [Threads -> Run]
<1>1. Good(group, run, job) /\ KillInv(group) /\ run \in [Threads -> Run]
  BY DEF Core
<1> QED
  BY <1>1 DEF Good, Raised, Dying, ExitPcs

LEMMA ForcedCore ==
    ASSUME Core, NEW t \in Threads, NEW info, NEW mem, NEW v \in Run, Raised(t, info, mem, v)
    PROVE  Core'
<1> USE DEF Raised
<1>1. /\ run \in [Threads -> Run] /\ group \in Group /\ group.action[SIGKILL].handler = "SIG_DFL" /\ ~Dying(run[t])
      /\ Good(group, run, job) /\ KillInv(group)
  BY RaisedFrom
<1>2. PICK h : h = group'
  OBVIOUS
<1>3. PICK k : Unblocked(group, k, t) /\ h = send_signal(k, SIGSEGV, info, t, FALSE, {t}, mem)
  <2>1. Forced(group, h, t, info, mem)
    BY <1>1, <1>2, ForceIs
  <2> QED
    BY <2>1 DEF Forced
<1>4. Good(k, run, job) /\ KillInv(k) /\ k.flags = group.flags
  <2>1. Good(k, run, job) /\ KillInv(k)
    BY <1>1, <1>3, UnblockedGood
  <2> QED
    BY <1>1, <1>3, <2>1 DEF Unblocked
<1>5. t \in Members(k) /\ SIGSEGV \in AllSignals /\ FALSE \in BOOLEAN
  BY <1>4, MembersBy, SignalNumbers
<1>6. Good(h, run, JobAfter(job, SIGSEGV)) /\ KillInv(h) /\ ("STOP_STOPPED" \in h.flags => "STOP_STOPPED" \in group.flags)
  <2>1. h = send_signal(k, SIGSEGV, info, t, FALSE, {t}, mem)
    BY <1>3, <1>2
  <2>2. LET x == send_signal(k, SIGSEGV, info, t, FALSE, {t}, mem) IN
        /\ Good(x, run, JobAfter(job, SIGSEGV)) /\ KillInv(x)
        /\ "STOP_STOPPED" \in x.flags => "STOP_STOPPED" \in k.flags
    BY <1>4, <1>5, SendGood
  <2> QED
    BY <1>4, <2>1, <2>2
<1>7. JobAfter(job, SIGSEGV) = job
  BY DEF JobAfter, SIGSEGV, SIGCONT, SIGSTOP, SIGTSTP, SIG_KERNEL_STOP_MASK
<1>8. Good(h, run, job) /\ LinkAt(h.task[t], run[t]) /\ MaskAt(h.task[t], run[t])
  BY <1>6, <1>7 DEF Good
<1>9. PICK q : q = run'
  OBVIOUS
<1>10. q[t] = v /\ \A u \in Threads : u # t => q[u] = run[u]
  BY <1>1, <1>9
<1>11. LinkAt(h.task[t], q[t]) /\ MaskAt(h.task[t], q[t])
  BY <1>8, <1>10 DEF LinkAt, MaskAt
<1>12. Good(h, q, job)
  BY <1>1, <1>8, <1>10, <1>11, MoveGood DEF Dying
<1>13. LockStep(t, v)
  BY DEF LockStep
<1> QED
  BY <1>2, <1>6, <1>9, <1>12, <1>13, CoreStep

LEMMA FaultIs ==
    ASSUME Core, NEW t \in Threads, Fault(t)
    PROVE  \E info, mem : \E v \in Run : Raised(t, info, mem, v)
<1>1. run[t].pc = "user" /\ siglock' = siglock /\ told' = told /\ job' = job /\ run' = [run EXCEPT ![t].pc = "out"]
  BY DEF Fault
<1>2. PICK mem \in BOOLEAN : group' = force_sig_info(group, SIGSEGV, "fault", t, mem)
  BY DEF Fault
<1>3. PICK v : v = [run[t] EXCEPT !.pc = "out"]
  OBVIOUS
<1>4. run \in [Threads -> Run]
  BY DEF Core
<1>5. v \in Run /\ v.pc = "out" /\ v.which = run[t].which /\ v.saved = run[t].saved /\ run' = [run EXCEPT ![t] = v]
  BY <1>1, <1>3, <1>4, PcsAre, GotoIs DEF Goto
<1>6. Raised(t, "fault", mem, v)
  BY <1>1, <1>2, <1>5 DEF Raised
<1> QED
  BY <1>5, <1>6

LEMMA ForceSigsegvIs ==
    ASSUME Core, NEW t \in Threads, force_sigsegv(t)
    PROVE  \E info, mem : \E v \in Run : Raised(t, info, mem, v)
<1> DEFINE v == [Idle("out") EXCEPT !.saved = run[t].saved]
<1>1. run[t].pc = "segv" /\ siglock' = siglock /\ told' = told /\ job' = job /\ run' = [run EXCEPT ![t] = v]
  BY DEF force_sigsegv, Locked
<1>2. PICK mem \in BOOLEAN : group' = force_sig_info(group, SIGSEGV, "priv", t, mem)
  BY DEF force_sigsegv
<1>3. run \in [Threads -> Run] /\ run[t] \in Run
  BY DEF Core
<1>4. v \in Run /\ v.pc = "out" /\ v.which = {} /\ v.saved = run[t].saved
  BY <1>3, PcsAre, IdleType, RunType DEF Run, Idle
<1> HIDE DEF v
<1>5. Raised(t, "priv", mem, v)
  BY <1>1, <1>2, <1>4 DEF Raised
<1> QED
  BY <1>4, <1>5

\* What the first section of force_sigsegv changes.
LEMMA ResetIs ==
    ASSUME Core, NEW t \in Threads, ResetSegv(t)
    PROVE  /\ run[t].pc = "deliver" /\ (group' = group \/ ActOnly(group, group')) /\ Goto(t, "segv")
           /\ siglock' = siglock /\ told' = told /\ job' = job
<1>1. group \in Group /\ group.action[SIGKILL].handler = "SIG_DFL"
  BY DEF Core, Good
<1>2. LET h == [group EXCEPT !.action[SIGSEGV].handler = "SIG_DFL"] IN ActOnly(group, h)
  BY <1>1, SignalNumbers, DefaultIs
<1>3. group' = group \/ group' = [group EXCEPT !.action[SIGSEGV].handler = "SIG_DFL"]
  BY DEF ResetSegv
<1> QED
  BY <1>2, <1>3 DEF ResetSegv

LEMMA ResetCore ==
    ASSUME Core, NEW t \in Threads, ResetSegv(t)
    PROVE  Core'
<1>1. /\ run[t].pc = "deliver" /\ (group' = group \/ ActOnly(group, group')) /\ Goto(t, "segv")
      /\ siglock' = siglock /\ told' = told /\ job' = job
  BY ResetIs
<1>2. Good(group, run, job) /\ KillInv(group) /\ run \in [Threads -> Run] /\ LinkAt(group.task[t], run[t])
  BY DEF Core, Good
<1>3. group.task[t].state = "running" /\ ~group.task[t].exiting /\ ~Dying(run[t])
  BY <1>1, <1>2, Running DEF LinkAt, ExitPcs, Dying
<1>4. PICK h : h = group'
  OBVIOUS
<1>5. Good(h, run, job) /\ KillInv(h) /\ h.flags = group.flags /\ h.task = group.task
  BY <1>1, <1>2, <1>4, ActGood DEF ActOnly
<1>6. PICK v : v = [run[t] EXCEPT !.pc = "segv"]
  OBVIOUS
<1>7. v \in Run /\ v.pc = "segv" /\ v.which = run[t].which /\ v.saved = run[t].saved /\ run' = [run EXCEPT ![t] = v]
  BY <1>1, <1>2, <1>6, PcsAre, GotoIs
<1>8. LockStep(t, v) /\ v.pc \notin ExitPcs \cup {"stopnotify"} /\ run[t].pc \notin ExitPcs \cup {"stopnotify"}
  BY <1>1, <1>7 DEF LockStep, ExitPcs
<1> QED
  BY <1>1, <1>3, <1>4, <1>5, <1>7, <1>8, RunOn

LEMMA JobOfIs == \A sig : JobOf(sig) = JobAfter(job, sig)
BY DEF JobOf, JobAfter

LEMMA SendCore ==
    ASSUME Core, NEW sig \in AllSignals, NEW info, NEW p \in Threads, NEW shared \in BOOLEAN,
           Send(sig, info, p, shared)
    PROVE  Core'
<1>1. p \in Members(group) /\ job' = JobAfter(job, sig) /\ siglock' = siglock /\ run' = run /\ told' = told
  BY JobOfIs DEF Send
<1>2. PICK mem, cpu : group' = send_signal(group, sig, info, p, shared, cpu, mem)
  BY DEF Send
<1>3. Good(group, run, job) /\ KillInv(group)
  BY DEF Core
<1>4. PICK h : h = group'
  OBVIOUS
<1>5. Good(h, run, JobAfter(job, sig)) /\ KillInv(h) /\ ("STOP_STOPPED" \in h.flags => "STOP_STOPPED" \in group.flags)
  BY <1>1, <1>2, <1>3, <1>4, SendGood
<1> QED
  BY <1>1, <1>4, <1>5, CoreStill

\* The entry of the timer.
TimerEntry == Sigqueue(TimerSignal, FALSE, TRUE)

LEMMA TimerEntryIs ==
    /\ TimerEntry \in Entry /\ TimerEntry.sig = TimerSignal /\ ~TimerEntry.positive /\ TimerEntry.prealloc
    /\ sigqueue_free1(TimerEntry) = 0 /\ TimerSignal \in AllSignals
<1>1. TimerSignal \in AllSignals
  BY SignalNumbers DEF AllSignals
<1> QED
  BY <1>1 DEF TimerEntry, Sigqueue, Entry, sigqueue_free1

\* The timer expires: its signal is ignored, counts as an overrun, or is queued.
LEMMA SendTimerIs ==
    ASSUME NEW n \in Group, NEW p \in Threads, NEW shared \in BOOLEAN
    PROVE  LET k == PutPending(n, p, shared, Enqueue(PendingOf(n, p, shared), TimerEntry))
           IN Added(n, k, p, shared, TimerEntry)
<1> DEFINE pending == PendingOf(n, p, shared)
           k == PutPending(n, p, shared, Enqueue(pending, TimerEntry))
<1>1. pending \in Pending /\ Enqueue(pending, TimerEntry) \in Pending
  BY PendingOfType, TimerEntryIs, EnqueueIs
<1>2. Put(n, k, p, shared, Enqueue(pending, TimerEntry)) /\ k.sigpending = n.sigpending /\ n.sigpending \in Int
  BY <1>1, PutPlain, GroupType
<1>3. k.sigpending = n.sigpending + sigqueue_free1(TimerEntry)
  BY <1>2, TimerEntryIs
<1> QED
  BY <1>2, <1>3 DEF Added

LEMMA SendSigqueueCore ==
    ASSUME Core, NEW p \in Threads, NEW shared \in BOOLEAN, send_sigqueue(p, shared)
    PROVE  Core'
<1> DEFINE n == prepare_signal(group, TimerSignal)
           k == PutPending(n, p, shared, Enqueue(PendingOf(n, p, shared), TimerEntry))
           i == JobAfter(job, TimerSignal)
<1>1. p \in Members(group) /\ job' = i /\ siglock' = siglock /\ run' = run /\ told' = told
  BY JobOfIs DEF send_sigqueue
<1>2. PICK cpu : group' = n \/ group' = complete_signal(k, TimerSignal, p, shared, cpu)
  BY DEF send_sigqueue, TimerEntry
<1>3. Good(group, run, job) /\ KillInv(group) /\ group \in Group
  BY DEF Core, Good
<1>4. Good(n, run, i) /\ \E mask : Prepared(group, n, mask)
  BY <1>3, PrepareGood
<1>5. n \in Group /\ KillInv(n) /\ Members(n) = Members(group) /\ ("STOP_STOPPED" \in n.flags => "STOP_STOPPED" \in group.flags)
  BY <1>3, <1>4, PreparedKill DEF Prepared
<1>6. TimerSignal \in SIG_KERNEL_STOP_MASK => i # "cont"
  BY DEF JobAfter
<1> HIDE DEF n, i
<1>7. Added(n, k, p, shared, TimerEntry) /\ TimerEntry \in Entry /\ TimerEntry.sig = TimerSignal
  BY <1>5, SendTimerIs, TimerEntryIs
<1> HIDE DEF k
<1>8. CASE group' = n
  BY <1>1, <1>4, <1>5, <1>8, CoreStill
<1>9. CASE group' = complete_signal(k, TimerSignal, p, shared, cpu)
  <2>1. PICK h : h = group'
    OBVIOUS
  <2>2. h = complete_signal(k, TimerEntry.sig, p, shared, cpu) /\ p \in Members(n)
        /\ (TimerEntry.sig \in SIG_KERNEL_STOP_MASK => i # "cont")
    BY <1>1, <1>5, <1>6, <1>7, <1>9, <2>1
  <2>3. Good(h, run, i) /\ KillInv(h) /\ ("STOP_STOPPED" \in h.flags => "STOP_STOPPED" \in n.flags)
    BY <1>4, <1>5, <1>7, <2>2, AddedGood
  <2> QED
    BY <1>1, <1>5, <2>1, <2>3, CoreStill
<1> QED
  BY <1>2, <1>8, <1>9

-----------------------------------------------------------------------------
(* Stops, continues and deaths, in every reachable state *)

LEMMA InitGroup ==
    ASSUME Init
    PROVE  /\ group \in Group /\ group.shared = EmptyPending /\ group.flags = {} /\ group.group_stop_count = 0
           /\ group.sigpending = 0 /\ group.timer = FALSE /\ \A t \in Threads : group.task[t] = NewTask
           /\ group.action[SIGKILL] = SIG_DFL
           /\ run = [t \in Threads |-> Idle("user")] /\ siglock = NULL /\ told = "none" /\ job = "none"
<1>1. PICK act \in Installed :
         group = [task |-> [t \in Threads |-> NewTask], shared |-> EmptyPending, flags |-> {},
                  group_stop_count |-> 0, curr_target |-> leader,
                  action |-> [s \in AllSignals |-> IF s \in Settable THEN act[s] ELSE SIG_DFL],
                  sigpending |-> 0, timer |-> FALSE]
  BY DEF Init
<1>2. PICK A : A = [s \in AllSignals |-> IF s \in Settable THEN act[s] ELSE SIG_DFL]
  OBVIOUS
<1>3. A \in [AllSignals -> Action]
  <2>1. act \in [Settable -> Actions \cup {SIG_DFL}]
    BY <1>1, SignalsConstants
  <2> QED
    BY <1>2, <2>1, ActionTypes
<1>4. A[SIGKILL] = SIG_DFL
  BY <1>2, SignalNumbers, SignalsConstants DEF SIG_KERNEL_ONLY_MASK
<1>5. [t \in Threads |-> NewTask] \in [Threads -> Task] /\ leader \in Threads /\ EmptyPending \in Pending
  BY NewTypes, ThreadsFinite
<1>6. group \in Group /\ group.action = A /\ group.task = [t \in Threads |-> NewTask]
  BY <1>1, <1>2, <1>3, <1>5 DEF Group, GroupFlags
<1>7. run = [t \in Threads |-> Idle("user")] /\ siglock = NULL /\ told = "none" /\ job = "none"
  BY DEF Init
<1> QED
  BY <1>1, <1>4, <1>6, <1>7

LEMMA InitCore ==
    ASSUME Init
    PROVE  Core
<1>1. /\ group \in Group /\ group.shared = EmptyPending /\ group.flags = {} /\ group.group_stop_count = 0
      /\ \A t \in Threads : group.task[t] = NewTask
      /\ group.action[SIGKILL] = SIG_DFL
      /\ run = [t \in Threads |-> Idle("user")] /\ siglock = NULL /\ told = "none" /\ job = "none"
  BY InitGroup
<1>2. /\ Idle("user") \in Run /\ Idle("user").pc = "user" /\ Idle("user").saved = NULL /\ Idle("user").which = {}
  BY PcsAre, IdleType DEF Idle
<1>3. run \in [Threads -> Run] /\ \A t \in Threads : run[t] = Idle("user")
  BY <1>1, <1>2
<1>4. siglock \in Threads \cup {NULL} /\ LockInv
  BY <1>1, <1>2, <1>3, SignalsConstants DEF LockInv
<1>5. ~signal_group_exit(group) /\ "STOP_STOPPED" \notin group.flags
  BY <1>1 DEF signal_group_exit
<1>6. /\ NewTask.state = "running" /\ NewTask.jobctl = {} /\ NewTask.exiting = FALSE
      /\ NewTask.blocked = {} /\ NewTask.real_blocked = {} /\ NewTask.pending.signal = {}
  BY NewTypes DEF NewTask
<1>7. \A t \in Threads : LinkAt(group.task[t], run[t]) /\ MaskAt(group.task[t], run[t])
  BY <1>1, <1>2, <1>3, <1>6 DEF LinkAt, MaskAt
<1>8. Death(group, run) /\ ContInv(group, job) /\ KillInv(group)
  BY <1>1, <1>5, <1>6 DEF Death, ContInv, KillInv
<1>9. Joining(group) = {} /\ Stopped(group) = {}
  BY <1>1, <1>6 DEF Joining, Stopped
<1>10. StopInv(group)
  <2>1. Cardinality({}) = 0
    BY FS_EmptySet
  <2>2. \A t \in Threads : StopAt(group.task[t])
    BY <1>1, <1>6 DEF StopAt
  <2> QED
    BY <1>1, <1>5, <1>9, <2>1, <2>2 DEF StopInv
<1>11. ToldInv(group, run, told) /\ GoneInv(group, told)
  BY <1>1, <1>5, <1>6, ThreadsFinite DEF ToldInv, GoneInv
<1>12. group.action[SIGKILL].handler = "SIG_DFL"
  BY <1>1 DEF SIG_DFL
<1> QED
  BY <1>1, <1>3, <1>4, <1>7, <1>8, <1>10, <1>11, <1>12 DEF Core, Good

LEMMA CoreNext ==
    ASSUME Core, [Next]_vars
    PROVE  Core'
<1>1. ASSUME NEW t \in Threads, KernelStep(t)
      PROVE  Core'
  <2>1. CASE Sleep(t) \/ SigwaitWoken(t) \/ exit_to_usermode_loop(t) \/ NoticeContinue(t) \/ NotifyParent(t)
             \/ MarkedForDeath(t)
    BY <2>1, SleepCore, EndSigwaitCore, ExitToUserCore, NoticeCore, NotifyCore, MarkedCore DEF SigwaitWoken
  <2>2. CASE JoinGroupStop(t) \/ GetSignal(t) \/ Rearmed(t) \/ CheckOrphaned(t) \/ Stop(t) \/ Resume(t)
    BY <2>2, JoinCore, GetSignalCore, RearmedCore, OrphanedCore, ResumeCore
  <2>3. CASE RestoreMask(t) \/ signal_delivered(t) \/ ResetSegv(t) \/ force_sigsegv(t)
             \/ (run[t].pc = "fatal" /\ do_group_exit(t))
    BY <2>3, RestoreIs, DeliveredIs, MaskCore, ResetCore, ForceSigsegvIs, ForcedCore, GroupExitCore
  <2>4. CASE ExitAlone(t) \/ ExitAmongOthers(t) \/ exit_signals(t) \/ do_notify_parent(t) \/ release_task(t)
    BY <2>4, ExitAloneCore, ExitCore, ExitSignalsCore, NotifyExitCore, ReleaseCore
  <2> QED
    BY <1>1, <2>1, <2>2, <2>3, <2>4 DEF KernelStep
<1>2. ASSUME NEW t \in Threads, UserStep(t)
      PROVE  Core'
  <2>1. CASE \E how \in {"SIG_BLOCK", "SIG_UNBLOCK", "SIG_SETMASK"}, set \in Masks : rt_sigprocmask(t, how, set)
    BY <2>1, SigprocmaskIs, MaskCore
  <2>2. CASE \E sig \in Settable, act \in Actions : do_sigaction(t, sig, act)
    BY <2>2, SigactionCore
  <2>3. CASE \E set \in Masks : sigsuspend(t, set) \/ \E timeout \in {0, 1} : do_sigtimedwait(t, set, timeout)
    BY <2>3, SuspendIs, MaskCore, SigwaitCore
  <2>4. CASE pause(t) \/ SigwaitTimeout(t) \/ Fault(t) \/ sigqueue_alloc(t) \/ timer_delete(t)
    BY <2>4, PauseCore, EndSigwaitCore, FaultIs, ForcedCore, TimerCore DEF SigwaitTimeout
  <2>5. CASE (run[t].pc = "user" /\ do_group_exit(t)) \/ do_exit(t)
    BY <2>5, GroupExitCore, ExitCore
  <2> QED
    BY <1>2, <2>1, <2>2, <2>3, <2>4, <2>5 DEF UserStep
<1>3. ASSUME Sender
      PROVE  Core'
  <2>1. Sendable \subseteq AllSignals /\ SIGKILL \in AllSignals /\ leader \in Threads /\ TRUE \in BOOLEAN /\ FALSE \in BOOLEAN
    BY SignalNumbers, ThreadsFinite
  <2>2. CASE \E sig \in Sendable : kill(sig) \/ kill_pgrp(sig) \/ rt_sigqueueinfo(sig)
    BY <2>1, <2>2, SendCore DEF kill, kill_pgrp, rt_sigqueueinfo
  <2>3. CASE \E sig \in Sendable, t \in Threads : do_tkill(t, sig)
    BY <2>1, <2>3, SendCore DEF do_tkill
  <2>4. CASE oom_kill
    BY <2>1, <2>4, SendCore DEF oom_kill
  <2>5. CASE \E shared \in BOOLEAN, t \in Threads : send_sigqueue(t, shared)
    BY <2>5, SendSigqueueCore
  <2> QED
    BY <1>3, <2>2, <2>3, <2>4, <2>5 DEF Sender
<1>4. CASE UNCHANGED vars
  BY <1>4 DEF vars, Core, LockInv
<1> QED
  BY <1>1, <1>2, <1>3, <1>4 DEF Next

\* In every reachable state each thread is where its task says it is, no mask holds SIGKILL or SIGSTOP, a
\* group stop counts the threads that have yet to join, SIGCONT has cleared what it overrides, a group
\* exit has reached every thread, and the leader is the last to go.
THEOREM CoreInvariant == Spec => []Core
<1>1. Init => Core
  BY InitCore
<1>2. Core /\ [Next]_vars => Core'
  BY CoreNext
<1> QED
  BY <1>1, <1>2, PTL DEF Spec

\* group_stop_count is exact, and the process counts as stopped when and only when every thread that is not
\* leaving has stopped: do_signal_stop, exit_signals, SIGCONT and a fatal signal may come in any order.
THEOREM StopsExactly == Spec => []GroupStopExact
<1>1. ASSUME Core
      PROVE  GroupStopExact
  <2> SUFFICES ASSUME ~signal_group_exit(group)
               PROVE  GroupStopExact
    BY DEF GroupStopExact
  <2> DEFINE J == {t \in Threads : {"STOP_PENDING", "STOP_CONSUME"} \subseteq group.task[t].jobctl}
  <2>1. StopInv(group)
    BY <1>1 DEF Core, Good
  <2>2. \A t \in Threads : StopAt(group.task[t])
    BY <2>1 DEF StopInv
  <2>3. J = Joining(group)
    BY <2>2 DEF StopAt, Joining
  <2>4. IsFiniteSet(J) /\ Cardinality(J) \in Nat /\ (J # {} => Cardinality(J) > 0)
    <3>1. IsFiniteSet(J)
      BY ThreadsFinite, FS_Subset
    <3> QED
      BY <3>1, FS_CardinalityType, FS_EmptySet
  <2> HIDE DEF J
  <2>5. group.group_stop_count = Cardinality(J)
    BY <2>1, <2>3 DEF StopInv
  <2>6. Stopped(group) # {} => group.group_stop_count > 0 \/ "STOP_STOPPED" \in group.flags
    BY <2>1, <2>3, <2>4, <2>5 DEF StopInv
  <2>7. "STOP_STOPPED" \in group.flags => \A t \in Threads : group.task[t].exiting \/ t \in Stopped(group)
    BY <2>1 DEF StopInv
  <2> QED
    BY <2>5, <2>6, <2>7 DEF GroupStopExact, Stopped, J
<1> QED
  BY <1>1, CoreInvariant, PTL

\* After SIGCONT, until the next stop signal, no thread is stopped or has to stop, not even one that had
\* dequeued its stop signal and released siglock: prepare_signal clears JOBCTL_STOP_DEQUEUED.
THEOREM ContinueOverrides == Spec => []ContinueWins
<1>1. ASSUME Core
      PROVE  ContinueWins
  BY <1>1 DEF Core, Good, ContInv, ContinueWins
<1> QED
  BY <1>1, CoreInvariant, PTL

\* Once the process has stopped and no thread has news to pass on, stopped is the last thing the parent was
\* told: the thread that stops last, or leaves last, tells it after the lock is released.
THEOREM StopsAreReported == Spec => []StopIsReported
<1>1. ASSUME Core
      PROVE  StopIsReported
  BY <1>1 DEF Core, ToldInv, StopIsReported
<1> QED
  BY <1>1, CoreInvariant, PTL

\* Once a group exit has begun no thread is stopped, and each is on its way out or looks at its flags before
\* it sleeps or runs its program again; and no call lets a thread block SIGKILL or SIGSTOP.
THEOREM DeathIsCertain == Spec => []DeathReachesAll
<1>1. ASSUME Core
      PROVE  DeathReachesAll
  <2>1. Good(group, run, job)
    BY <1>1 DEF Core
  <2>2. \A t \in Threads : group.task[t].blocked \cap SIG_KERNEL_ONLY_MASK = {}
    BY <2>1 DEF Good, MaskAt
  <2>3. ASSUME signal_group_exit(group), NEW t \in Threads
        PROVE  /\ group.task[t].state # "stopped"
               /\ run[t].pc \in {"exit", "exitlock", "exitnotify", "exited", "dead"} \/ WillLook(t)
    <3>1. DeathAt(group.task[t], run[t])
      BY <2>1, <2>3 DEF Good, Death
    <3> QED
      BY <3>1 DEF DeathAt, Dying, ExitPcs, WillLook
  <2> QED
    BY <2>2, <2>3 DEF DeathReachesAll
<1> QED
  BY <1>1, CoreInvariant, PTL
=============================================================================
