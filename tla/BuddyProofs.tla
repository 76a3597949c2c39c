---------------------------- MODULE BuddyProofs -----------------------------
(***************************************************************************)
(* The heap of the buddy allocator, for any number of orders and of top    *)
(* blocks and any requests: it stays tiled, the free lists are its free    *)
(* blocks, what the program holds is its own, a small allocation fails     *)
(* only when there is no room for it, and the statistics stay true.        *)
(***************************************************************************)
EXTENDS BuddyAllocator, FiniteSums, SequenceTheorems, TLAPS

HeapEnd == NumBlocks * BlockSize
Full(b) == size[b] + 1
Multiple(x, s) == \E k \in Nat : x = k * s
Listed(list) == {list[i] : i \in 1 .. Len(list)}
Ascending(list) == \A i, k \in 1 .. Len(list) : i < k => list[i] < list[k]

Places == {"idle", "alloc", "place", "split", "free", "merge"}
Calls == [pc : Places, n : Nat, old : Pointers \cup {NULL},
          cur : Pointers \cup Orders \cup {NULL}, target : Orders, guess : BOOLEAN]

HeapTypes ==
    /\ size \in [Pointers -> Nat] /\ is_free \in [Pointers -> BOOLEAN]
    /\ blocks \in SUBSET Addrs /\ mapped \in SUBSET Mappings
    /\ freeBlocksList \in [Orders -> Seq(Addrs)] /\ initialized \in BOOLEAN
    /\ live \in SUBSET [p : Pointers, n : Nat, guess : BOOLEAN] /\ call \in Calls

\* Every block has the size of an order and is aligned to it.
BlocksAligned == \A b \in blocks : \E o \in Orders : Full(b) = BlockSizeByOrder(o) /\ Multiple(b, BlockSizeByOrder(o))
BlocksDisjoint == \A a, b \in blocks : Covers(a, b) => a = b
BlocksCover ==
    /\ initialized => \A u \in 0 .. HeapEnd - 1 : \E b \in blocks : Covers(b, u)
    /\ ~initialized => blocks = {}
HeapOK == BlocksAligned /\ BlocksDisjoint /\ BlocksCover

FreeOf(o) == {b \in blocks : is_free[b] /\ Full(b) = BlockSizeByOrder(o)}
ListsOK == \A o \in Orders : Ascending(freeBlocksList[o]) /\ Listed(freeBlocksList[o]) = FreeOf(o)

\* Block a and its buddy are free and of one size, and so could be merged.
FreePair(a) ==
    /\ is_free[a] /\ Full(a) < BlockSize
    /\ is_free[findBuddy(a)] /\ size[findBuddy(a)] = size[a]

\* The block the loop of the call in progress has reached.
InWork(a) ==
    \/ call.pc = "merge" /\ a = call.cur
    \/ call.pc = "split" /\ a = Head(freeBlocksList[call.cur])

\* Buddies are free together only while the call in progress works on one of them.
PairsOK == \A a \in blocks : FreePair(a) => InWork(a) \/ InWork(findBuddy(a))

Used == mapped \cup {b \in blocks : ~is_free[b]}

Growing == call.pc = "merge" /\ call.old # NULL

\* What the program holds is what is in use, but for the block a call is at.
HeldOK ==
    /\ call.pc = "free" => call.cur \notin Held /\ Held \cup {call.cur} = Used
    /\ Growing => call.old \in Held /\ Held \ {call.old} = Used
    /\ call.pc # "free" /\ ~Growing => Held = Used
    /\ \A r, s \in live : r.p = s.p => r = s
    /\ \A r \in live : (Growing /\ r.p = call.old) \/ r.guess \/ size[r.p] >= r.n
    /\ \A m \in mapped : ~is_free[m] /\ size[m] + 1 > BlockSize

\* srealloc has its block to merge with the buddy, or has merged it.  Without a guess one
\* merge is what it counts on.
GrowOK ==
    /\ call.old \in Nat /\ Covers(call.cur, call.old)
    /\ Full(call.cur) <= BlockSizeByOrder(call.target)
    /\ ~call.guess =>
         \/ /\ call.cur = call.old /\ FreePair(call.cur) /\ MergedSize(call.cur) >= call.n
            /\ BlockSizeByOrder(call.target) = 2 * Full(call.cur)
         \/ size[call.cur] >= call.n /\ BlockSizeByOrder(call.target) = Full(call.cur)

SplitOK ==
    /\ ~OutOfRange(call.n) /\ ~Large(call.n)
    /\ call.cur \in Orders /\ freeBlocksList[call.cur] # <<>>
    /\ getRequiredOrder(call.n) <= call.cur
    /\ \A o \in Orders : getRequiredOrder(call.n) <= o /\ o < call.cur => freeBlocksList[o] = <<>>

CallOK ==
    /\ call.pc \in {"idle", "free"} => call.old = NULL
    /\ call.pc \in {"alloc", "place", "split"} => call.old \in Held \cup {NULL}
    /\ call.pc = "split" => SplitOK
    /\ call.pc = "merge" => /\ call.cur \in blocks /\ is_free[call.cur]
                            /\ call.old = NULL => call.target = MaxOrder
                            /\ call.old # NULL => GrowOK

HeapInv == HeapTypes /\ HeapOK /\ ListsOK /\ PairsOK /\ HeldOK /\ CallOK

-----------------------------------------------------------------------------
(* Powers of two and multiples *)

Doubling(f, o) == IF o = 0 THEN 1 ELSE 2 * f[o - 1]

\* The recursion of PowerOfTwo defines a function.
LEMMA PowersExist ==
    ASSUME NEW n \in Nat
    PROVE  \E f : f = [o \in 0 .. n |-> Doubling(f, o)]
<1> DEFINE Runs(m) == \E f : f = [o \in 0 .. m |-> Doubling(f, o)]
           S == {m \in Nat : ~Runs(m)}
<1> SUFFICES ASSUME n \in S PROVE FALSE
  OBVIOUS
<1>1. PICK m \in S : \A k \in S : m <= k
  <2>1. S \in SUBSET Nat /\ S # {}
    OBVIOUS
  <2> HIDE DEF S
  <2> QED
    BY <2>1, LeastNatural
<1>2. CASE m = 0
  <2> DEFINE f == [o \in 0 .. 0 |-> 1]
  <2>1. f = [o \in 0 .. 0 |-> Doubling(f, o)]
    BY DEF Doubling
  <2> HIDE DEF f
  <2> QED
    BY <1>1, <1>2, <2>1
<1>3. CASE m # 0
  <2>1. m - 1 \in Nat /\ m - 1 \notin S /\ m \in Nat
    BY <1>1, <1>3
  <2>2. PICK g : g = [o \in 0 .. m - 1 |-> Doubling(g, o)]
    BY <2>1
  <2> DEFINE f == [o \in 0 .. m |-> IF o = m THEN Doubling(g, o) ELSE g[o]]
  <2>3. ASSUME NEW o \in 0 .. m
        PROVE  f[o] = Doubling(f, o)
    <3>1. o # 0 => f[o - 1] = g[o - 1]
      BY <2>1
    <3>2. Doubling(f, o) = Doubling(g, o)
      <4> HIDE DEF f
      <4> QED
        BY <3>1 DEF Doubling
    <3>3. CASE o = m
      BY <3>2, <3>3
    <3>4. CASE o # m
      <4>1. o \in 0 .. m - 1
        BY <2>1, <3>4
      <4>2. f[o] = g[o] /\ g[o] = Doubling(g, o)
        BY <2>2, <3>4, <4>1
      <4> QED
        BY <3>2, <4>2
    <3> QED
      BY <3>3, <3>4
  <2>4. f = [o \in 0 .. m |-> f[o]]
    OBVIOUS
  <2> HIDE DEF f
  <2>5. f = [o \in 0 .. m |-> Doubling(f, o)]
    BY <2>3, <2>4
  <2> QED
    BY <1>1, <2>5
<1> QED
  BY <1>2, <1>3

LEMMA PowersAre == \A o \in Orders : PowerOfTwo[o] = IF o = 0 THEN 1 ELSE 2 * PowerOfTwo[o - 1]
<1> DEFINE F == CHOOSE f : f = [o \in 0 .. MaxOrder |-> Doubling(f, o)]
<1>1. F = [o \in 0 .. MaxOrder |-> Doubling(F, o)]
  BY PowersExist, AllocatorConstants
<1>2. PowerOfTwo = F
  BY DEF PowerOfTwo, Doubling, Orders
<1> HIDE DEF F
<1>3. \A o \in 0 .. MaxOrder : F[o] = Doubling(F, o)
  BY <1>1
<1> QED
  BY <1>2, <1>3 DEF Doubling, Orders

\* The sizes of the orders: powers of two, so that of an order and the next larger
\* one the blocks of one are half of those of the other.
LEMMA OrderSizes ==
    /\ BlockSizeByOrder(0) = 4
    /\ \A o \in Orders : BlockSizeByOrder(o) \in Nat /\ BlockSizeByOrder(o) >= 4
    /\ \A o \in Orders : o # 0 => BlockSizeByOrder(o) = 2 * BlockSizeByOrder(o - 1)
<1>1. \A o \in Orders : PowerOfTwo[o] \in Nat \ {0}
  <2> DEFINE S == {o \in Orders : PowerOfTwo[o] \notin Nat \ {0}}
  <2> SUFFICES ASSUME S # {} PROVE FALSE
    OBVIOUS
  <2>1. Orders \subseteq Nat
    BY AllocatorConstants DEF Orders
  <2>2. PICK m \in S : \A k \in S : m <= k
    <3>1. S \in SUBSET Nat
      BY <2>1
    <3> HIDE DEF S
    <3> QED
      BY <3>1, LeastNatural
  <2>3. CASE m = 0
    BY <2>3, PowersAre
  <2>4. CASE m # 0
    <3>1. m - 1 \in Orders /\ m - 1 \notin S
      BY <2>2, <2>4, AllocatorConstants DEF Orders
    <3>2. PowerOfTwo[m - 1] \in Nat \ {0}
      BY <3>1
    <3>3. PowerOfTwo[m] = 2 * PowerOfTwo[m - 1]
      BY <2>4, PowersAre
    <3> QED
      BY <3>2, <3>3
  <2> QED
    BY <2>3, <2>4
<1>2. 0 \in Orders /\ \A o \in Orders : o # 0 => o - 1 \in Orders
  BY AllocatorConstants DEF Orders
<1>3. PowerOfTwo[0] = 1
  BY <1>2, PowersAre
<1>4. \A o \in Orders : o # 0 => PowerOfTwo[o] = 2 * PowerOfTwo[o - 1]
  BY PowersAre
<1>5. \A o \in Orders : BlockSizeByOrder(o) \in Nat /\ BlockSizeByOrder(o) >= 4
  BY <1>1 DEF BlockSizeByOrder
<1>6. ASSUME NEW o \in Orders, o # 0
      PROVE  BlockSizeByOrder(o) = 2 * BlockSizeByOrder(o - 1)
  BY <1>1, <1>2, <1>4, <1>6 DEF BlockSizeByOrder
<1> QED
  BY <1>3, <1>5, <1>6 DEF BlockSizeByOrder
\* Of two multiples of s the larger one is at least s further.
LEMMA NextMultiple ==
    ASSUME NEW s \in Nat \ {0}, NEW x, NEW y, Multiple(x, s), Multiple(y, s), x < y
    PROVE  x + s <= y
<1>1. PICK k \in Nat : x = k * s
  BY DEF Multiple
<1>2. PICK l \in Nat : y = l * s
  BY DEF Multiple
<1>3. k * s < l * s => k < l
  OBVIOUS
<1>4. k < l => k * s + s <= l * s
  OBVIOUS
<1> QED
  BY <1>1, <1>2, <1>3, <1>4

\* Multiples of a multiple.
LEMMA MultipleOf ==
    ASSUME NEW s \in Nat, NEW t \in Nat, NEW x, Multiple(x, t), Multiple(t, s)
    PROVE  Multiple(x, s)
<1>1. PICK k \in Nat : x = k * t
  BY DEF Multiple
<1>2. PICK l \in Nat : t = l * s
  BY DEF Multiple
<1>3. k * (l * s) = (k * l) * s /\ k * l \in Nat
  OBVIOUS
<1> QED
  BY <1>1, <1>2, <1>3 DEF Multiple

LEMMA MultipleSum ==
    ASSUME NEW s \in Nat, NEW x, NEW y, Multiple(x, s), Multiple(y, s)
    PROVE  Multiple(x + y, s) /\ (x >= y => Multiple(x - y, s)) /\ x \in Nat /\ y \in Nat
<1>1. PICK k \in Nat : x = k * s
  BY DEF Multiple
<1>2. PICK l \in Nat : y = l * s
  BY DEF Multiple
<1>3. k * s + l * s = (k + l) * s /\ k + l \in Nat /\ k * s \in Nat /\ l * s \in Nat
  OBVIOUS
<1>6. Multiple(x + y, s) /\ x \in Nat /\ y \in Nat
  BY <1>1, <1>2, <1>3 DEF Multiple
<1>4. CASE k >= l
  <2>1. k * s - l * s = (k - l) * s /\ k - l \in Nat
    BY <1>4
  <2> QED
    BY <1>1, <1>2, <1>6, <2>1 DEF Multiple
<1>5. CASE k < l
  <2>1. k * s <= l * s
    BY <1>5
  <2>2. x >= y => x = y
    BY <1>1, <1>2, <2>1
  <2>3. x >= y => x - y = 0
    BY <1>1, <1>2, <2>2
  <2>4. 0 = 0 * s
    OBVIOUS
  <2>5. x >= y => Multiple(x - y, s)
    BY <2>3, <2>4 DEF Multiple
  <2> QED
    BY <1>6, <2>5
<1> QED
  BY <1>4, <1>5

\* Every number is in one aligned stretch of s.
LEMMA InStretch ==
    ASSUME NEW s \in Nat \ {0}, NEW u \in Nat
    PROVE  \E k \in Nat : k * s <= u /\ u < k * s + s
<1>1. u = (u \div s) * s + (u % s) /\ u % s \in 0 .. s - 1 /\ u \div s \in Nat
  OBVIOUS
<1> DEFINE k == u \div s
<1>2. k \in Nat /\ k * s \in Nat
  BY <1>1
<1>3. k * s <= u /\ u < k * s + s
  BY <1>1, <1>2
<1> HIDE DEF k
<1> QED
  BY <1>2, <1>3

LEMMA MultipleRemainder ==
    ASSUME NEW s \in Nat \ {0}, NEW x, Multiple(x, s)
    PROVE  x % s = 0
<1>1. PICK k \in Nat : x = k * s
  BY DEF Multiple
<1>2. (k * s) % s = 0
  OBVIOUS
<1> QED
  BY <1>1, <1>2

\* The XOR of findBuddy on an aligned address: the other half of the block of twice
\* the size.
LEMMA FlipIs ==
    ASSUME NEW t \in Nat \ {0}, NEW x, Multiple(x, t)
    PROVE  /\ x \in Nat
           /\ \/ Multiple(x, 2 * t) /\ Flip(x, t) = x + t
              \/ x >= t /\ Multiple(x - t, 2 * t) /\ Flip(x, t) = x - t
<1>1. PICK k \in Nat : x = k * t
  BY DEF Multiple
<1>2. (k * t) \div t = k /\ k * t \in Nat
  OBVIOUS
<1>3. CASE k % 2 = 0
  <2>1. PICK l \in Nat : k = 2 * l
    <3>1. k = 2 * (k \div 2) /\ k \div 2 \in Nat
      BY <1>3
    <3> QED
      BY <3>1
  <2>2. (2 * l) * t = l * (2 * t)
    OBVIOUS
  <2> QED
    BY <1>1, <1>2, <1>3, <2>1, <2>2 DEF Multiple, Flip
<1>4. CASE k % 2 # 0
  <2>1. PICK l \in Nat : k = 2 * l + 1
    <3>1. k = 2 * (k \div 2) + 1 /\ k \div 2 \in Nat
      BY <1>4
    <3> QED
      BY <3>1
  <2>2. (2 * l + 1) * t = l * (2 * t) + t /\ l * (2 * t) \in Nat
    OBVIOUS
  <2>3. x - t = l * (2 * t) /\ x >= t
    BY <1>1, <2>1, <2>2
  <2>4. Flip(x, t) = x - t
    BY <1>1, <1>2, <1>4 DEF Flip
  <2> QED
    BY <1>1, <1>2, <2>3, <2>4 DEF Multiple
<1> QED
  BY <1>3, <1>4
LEMMA OrdersAre ==
    /\ Orders \subseteq Nat /\ MaxOrder \in Orders /\ 0 \in Orders
    /\ \A o \in Orders : o <= MaxOrder /\ (o # 0 => o - 1 \in Orders) /\ (o # MaxOrder => o + 1 \in Orders)
  BY AllocatorConstants DEF Orders

\* The size of an order divides that of every larger one.
LEMMA SizesDivide ==
    ASSUME NEW o \in Orders, NEW p \in Orders, o <= p
    PROVE  Multiple(BlockSizeByOrder(p), BlockSizeByOrder(o)) /\ BlockSizeByOrder(o) <= BlockSizeByOrder(p)
<1> DEFINE B(q) == BlockSizeByOrder(q)
           Divides(q) == Multiple(B(q), B(o)) /\ B(o) <= B(q)
           S == {q \in Orders : o <= q /\ ~Divides(q)}
<1> SUFFICES ASSUME S # {} PROVE FALSE
  OBVIOUS
<1>0. \A q \in Orders : q \in Nat
  BY OrdersAre
<1>1. PICK m \in S : \A k \in S : m <= k
  <2>1. S \in SUBSET Nat
    BY <1>0
  <2> HIDE DEF S
  <2> QED
    BY <2>1, LeastNatural
<1>2. CASE m = o
  <2>1. B(o) \in Nat /\ 1 * B(o) = B(o)
    BY OrderSizes
  <2> QED
    BY <1>1, <1>2, <2>1 DEF Multiple
<1>3. CASE m # o
  <2>1. m \in Nat /\ o \in Nat /\ m # 0 /\ o <= m - 1 /\ m - 1 \in Orders /\ m \in Orders
    BY <1>0, <1>1, <1>3, OrdersAre
  <2>2. m - 1 \notin S
    BY <1>1, <2>1
  <2>3. Divides(m - 1)
    BY <2>1, <2>2
  <2>4. B(m) = 2 * B(m - 1) /\ B(m - 1) \in Nat /\ B(o) \in Nat
    BY <2>1, OrderSizes
  <2>5. PICK k \in Nat : B(m - 1) = k * B(o)
    BY <2>3 DEF Multiple
  <2> HIDE DEF B
  <2>6. 2 * (k * B(o)) = (2 * k) * B(o) /\ 2 * k \in Nat
    BY <2>4
  <2>7. Divides(m)
    BY <2>3, <2>4, <2>5, <2>6 DEF Multiple
  <2> QED
    BY <1>1, <2>7
<1> QED
  BY <1>2, <1>3

\* The next order up doubles, and larger orders are larger.
LEMMA SizesOrdered ==
    ASSUME NEW o \in Orders, NEW p \in Orders
    PROVE  /\ BlockSizeByOrder(o) = BlockSizeByOrder(p) => o = p
           /\ BlockSizeByOrder(o) < BlockSizeByOrder(p) <=> o < p
           /\ BlockSizeByOrder(o) <= BlockSizeByOrder(p) <=> o <= p
           /\ o < p => /\ Multiple(BlockSizeByOrder(p), 2 * BlockSizeByOrder(o))
                       /\ 2 * BlockSizeByOrder(o) <= BlockSizeByOrder(p)
                       /\ o + 1 \in Orders
                       /\ BlockSizeByOrder(o + 1) = 2 * BlockSizeByOrder(o)
<1> DEFINE B(q) == BlockSizeByOrder(q)
<1>1. ASSUME NEW x \in Orders, NEW y \in Orders, x < y
      PROVE  /\ Multiple(B(y), 2 * B(x)) /\ 2 * B(x) <= B(y) /\ x + 1 \in Orders
             /\ B(x + 1) = 2 * B(x) /\ B(x) < B(y)
  <2>1. x \in Nat /\ y \in Nat /\ x + 1 \in Orders /\ x + 1 <= y /\ x + 1 # 0 /\ (x + 1) - 1 = x
    BY <1>1, OrdersAre
  <2>2. B(x + 1) = 2 * B(x)
    BY <2>1, OrderSizes
  <2>3. Multiple(B(y), B(x + 1)) /\ B(x + 1) <= B(y)
    BY <2>1, SizesDivide
  <2>4. B(x) \in Nat /\ B(y) \in Nat /\ B(x) >= 4
    BY OrderSizes
  <2> HIDE DEF B
  <2> QED
    BY <2>1, <2>2, <2>3, <2>4
<1>2. B(o) \in Nat /\ B(p) \in Nat /\ o \in Nat /\ p \in Nat
  BY OrderSizes, OrdersAre
<1>3. o < p => /\ Multiple(B(p), 2 * B(o)) /\ 2 * B(o) <= B(p) /\ o + 1 \in Orders
               /\ B(o + 1) = 2 * B(o) /\ B(o) < B(p)
  BY <1>1
<1>4. p < o => B(p) < B(o)
  BY <1>1
<1> HIDE DEF B
<1>5. (B(o) = B(p) => o = p) /\ (B(o) < B(p) <=> o < p) /\ (B(o) <= B(p) <=> o <= p)
  BY <1>2, <1>3, <1>4
<1> QED
  BY <1>3, <1>5 DEF B

LEMMA BlockSizeIs ==
    /\ BlockSize = BlockSizeByOrder(MaxOrder) /\ BlockSize \in Nat /\ BlockSize >= 4
    /\ HeapEnd \in Nat /\ BlockSize <= HeapEnd /\ Multiple(HeapEnd, BlockSize)
    /\ \A o \in Orders : /\ Multiple(HeapEnd, BlockSizeByOrder(o)) /\ BlockSizeByOrder(o) <= BlockSize
                         /\ BlockSizeByOrder(o) < BlockSize <=> o < MaxOrder
<1>1. BlockSize \in Nat /\ BlockSize = BlockSizeByOrder(MaxOrder) /\ BlockSize >= 4
  BY OrderSizes, OrdersAre DEF BlockSize
<1>2. NumBlocks \in Nat \ {0}
  BY AllocatorConstants
<1>3. HeapEnd \in Nat /\ BlockSize <= HeapEnd /\ Multiple(HeapEnd, BlockSize)
  BY <1>1, <1>2 DEF HeapEnd, Multiple
<1>4. ASSUME NEW o \in Orders
      PROVE  /\ Multiple(HeapEnd, BlockSizeByOrder(o)) /\ BlockSizeByOrder(o) <= BlockSize
             /\ BlockSizeByOrder(o) < BlockSize <=> o < MaxOrder
  <2>1. Multiple(BlockSize, BlockSizeByOrder(o)) /\ BlockSizeByOrder(o) <= BlockSize
    BY <1>1, SizesDivide, OrdersAre
  <2>2. BlockSizeByOrder(o) \in Nat
    BY OrderSizes
  <2>3. Multiple(HeapEnd, BlockSizeByOrder(o))
    BY <1>1, <1>3, <2>1, <2>2, MultipleOf
  <2>4. BlockSizeByOrder(o) < BlockSize <=> o < MaxOrder
    BY <1>1, SizesOrdered, OrdersAre
  <2> QED
    BY <2>1, <2>3, <2>4
<1> QED
  BY <1>1, <1>3, <1>4

LEMMA AddrsAre ==
    /\ \A x \in Addrs : x \in Nat /\ x < HeapEnd /\ x \in Pointers
    /\ \A x : Multiple(x, 4) /\ x < HeapEnd => x \in Addrs
<1>1. HeapEnd \in Nat /\ Multiple(HeapEnd, 4)
  BY BlockSizeIs, OrderSizes, OrdersAre
<1>2. PICK e \in Nat : HeapEnd = e * 4
  BY <1>1 DEF Multiple
<1>3. HeapEnd \div 4 = e
  BY <1>2
<1>4. Addrs = {4 * i : i \in 0 .. e - 1}
  BY <1>3 DEF Addrs, HeapEnd
<1>5. \A x \in Addrs : x \in Nat /\ x < HeapEnd
  BY <1>2, <1>4
<1>6. ASSUME NEW x, Multiple(x, 4), x < HeapEnd
      PROVE  x \in Addrs
  <2>1. PICK k \in Nat : x = k * 4
    BY <1>6 DEF Multiple
  <2>2. k \in 0 .. e - 1 /\ x = 4 * k
    BY <1>2, <1>6, <2>1
  <2> QED
    BY <1>4, <2>2
<1> QED
  BY <1>5, <1>6 DEF Pointers

\* getRequiredOrder finds the smallest order that is large enough.
LEMMA RequiredOrder ==
    ASSUME NEW n \in Nat, n + 1 <= BlockSize
    PROVE  /\ getRequiredOrder(n) \in Orders /\ BlockSizeByOrder(getRequiredOrder(n)) >= n + 1
           /\ \A o \in Orders : BlockSizeByOrder(o) >= n + 1 => getRequiredOrder(n) <= o
<1> DEFINE S == {o \in Orders : BlockSizeByOrder(o) >= n + 1}
<1>1. S \in SUBSET Nat /\ S # {}
  BY BlockSizeIs, OrdersAre
<1>2. getRequiredOrder(n) = Min(S)
  BY DEF getRequiredOrder
<1>3. \E m \in S : \A k \in S : m <= k
  <2> HIDE DEF S
  <2> QED
    BY <1>1, LeastNatural
<1>4. Min(S) \in S /\ \A k \in S : Min(S) <= k
  <2> HIDE DEF S
  <2> QED
    BY <1>3 DEF Min
<1> QED
  BY <1>2, <1>4

\* getBlockOrder is the inverse of BLOCK_SIZE_BY_ORDER.
LEMMA OrderOfSize ==
    ASSUME NEW o \in Orders, NEW n \in Nat, n + 1 = BlockSizeByOrder(o)
    PROVE  getRequiredOrder(n) = o
<1>1. n + 1 <= BlockSize
  BY BlockSizeIs
<1> DEFINE q == getRequiredOrder(n)
<1>2. q \in Orders /\ BlockSizeByOrder(q) >= n + 1 /\ q <= o
  <2>1. BlockSizeByOrder(o) >= n + 1
    BY OrderSizes
  <2> QED
    BY <1>1, <2>1, RequiredOrder
<1> HIDE DEF q
<1>3. BlockSizeByOrder(q) <= BlockSizeByOrder(o)
  BY <1>2, SizesOrdered
<1>4. BlockSizeByOrder(q) = BlockSizeByOrder(o)
  BY <1>2, <1>3, OrderSizes
<1>5. q = o
  BY <1>2, <1>4, SizesOrdered
<1> QED
  BY <1>5 DEF q
-----------------------------------------------------------------------------
(* The lists of free blocks *)

LEMMA AddrOrder ==
    ASSUME NEW list \in Seq(Addrs)
    PROVE  /\ Len(list) \in Nat /\ list \in [1 .. Len(list) -> Addrs]
           /\ \A i \in 1 .. Len(list) : list[i] \in Addrs /\ list[i] \in Nat
           /\ Listed(list) \subseteq Addrs
  BY LenProperties, AddrsAre DEF Listed

\* Ascending lists hold every block once.
LEMMA AscendingOnce ==
    ASSUME NEW list \in Seq(Addrs), Ascending(list), NEW i \in 1 .. Len(list), NEW k \in 1 .. Len(list)
    PROVE  /\ list[i] = list[k] => i = k
           /\ list[i] < list[k] => i < k
<1>1. list[i] \in Nat /\ list[k] \in Nat /\ i \in Nat /\ k \in Nat
  BY AddrOrder
<1>2. (i < k => list[i] < list[k]) /\ (k < i => list[k] < list[i])
  BY DEF Ascending
<1> QED
  BY <1>1, <1>2

\* insertBlock puts the block in its place.
LEMMA Inserted ==
    ASSUME NEW list \in Seq(Addrs), Ascending(list), NEW b \in Addrs, b \notin Listed(list)
    PROVE  LET w == insertBlock(list, b) IN
           w \in Seq(Addrs) /\ Ascending(w) /\ Listed(w) = Listed(list) \cup {b}
<1> DEFINE w == insertBlock(list, b)
           n == Len(list)
           D == {i \in 1 .. n : ~(b > list[i])} \cup {n + 1}
           j == Min(D)
           from(i) == IF i < j THEN i ELSE i - 1
<1>1. n \in Nat /\ list \in [1 .. n -> Addrs] /\ b \in Nat /\ \A i \in 1 .. n : list[i] \in Nat
  BY AddrOrder, AddrsAre
<1>2. j \in D /\ \A k \in D : j <= k
  <2>1. D \in SUBSET Nat /\ D # {}
    BY <1>1
  <2> HIDE DEF D
  <2>2. \E m \in D : \A k \in D : m <= k
    BY <2>1, LeastNatural
  <2> QED
    BY <2>2 DEF Min
<1>3. j \in Nat /\ j >= 1 /\ j <= n + 1
  <2> HIDE DEF j
  <2> QED
    BY <1>1, <1>2
<1>4. \A i \in 1 .. n : i < j => list[i] < b
  <2> HIDE DEF j
  <2>1. ASSUME NEW i \in 1 .. n, i < j
        PROVE  list[i] < b
    <3>1. i \notin D
      BY <1>1, <1>2, <1>3, <2>1
    <3> QED
      BY <1>1, <3>1
  <2> QED
    BY <2>1
<1>5. w = SubSeq(list, 1, j - 1) \o <<b>> \o SubSeq(list, j, n)
  BY DEF insertBlock, InsertAt
<1> HIDE DEF j
<1>6. \A i \in 1 .. n : i >= j => b < list[i]
  <2>1. ASSUME NEW i \in 1 .. n, i >= j
        PROVE  b < list[i]
    <3>1. j \in 1 .. n /\ ~(b > list[j])
      BY <1>1, <1>2, <1>3, <2>1
    <3>2. list[i] # b
      BY DEF Listed
    <3>3. list[j] <= list[i]
      <4>1. CASE i = j
        BY <1>1, <3>1, <4>1
      <4>2. CASE i # j
        BY <1>1, <1>3, <2>1, <3>1, <4>2 DEF Ascending
      <4> QED
        BY <4>1, <4>2
    <3> QED
      BY <1>1, <3>1, <3>2, <3>3
  <2> QED
    BY <2>1
<1>7. /\ w \in Seq(Addrs) /\ Len(w) = n + 1 /\ w[j] = b
      /\ \A i \in 1 .. n + 1 : i # j => w[i] = list[from(i)]
  <2> DEFINE u == SubSeq(list, 1, j - 1)
             x == u \o <<b>>
             v == SubSeq(list, j, n)
  <2>1. u \in Seq(Addrs) /\ Len(u) = j - 1 /\ \A i \in 1 .. j - 1 : u[i] = list[i]
    BY <1>1, <1>3, SubSeqProperties
  <2>2. v \in Seq(Addrs) /\ Len(v) = n - j + 1 /\ \A i \in 1 .. n - j + 1 : v[i] = list[j + i - 1]
    <3>1. \A i \in j .. n : list[i] \in Addrs
      BY <1>1, <1>3
    <3>2. v \in Seq(Addrs) /\ Len(v) = IF j <= n THEN n - j + 1 ELSE 0
      BY <1>1, <1>3, <3>1, SubSeqProperties
    <3>3. \A i \in 1 .. n - j + 1 : v[i] = list[j + i - 1]
      BY <1>1, <1>3, <3>1, SubSeqProperties
    <3> HIDE DEF v, n
    <3>4. (IF j <= n THEN n - j + 1 ELSE 0) = n - j + 1
      BY <1>1, <1>3
    <3> QED
      BY <3>2, <3>3, <3>4
  <2>3. <<b>> \in Seq(Addrs) /\ Len(<<b>>) = 1 /\ <<b>>[1] = b
    OBVIOUS
  <2>4. w = x \o v
    BY <1>5
  <2>5. x \in Seq(Addrs) /\ Len(x) = j /\ x[j] = b /\ \A i \in 1 .. j - 1 : x[i] = list[i]
    <3> DEFINE s == <<b>>
    <3>1. s \in Seq(Addrs) /\ Len(s) = 1 /\ s[1] = b /\ x = u \o s
      BY <2>3
    <3> HIDE DEF s, u, x
    <3>7. /\ x \in Seq(Addrs) /\ Len(x) = Len(u) + Len(s)
          /\ \A i \in 1 .. Len(u) + Len(s) : x[i] = IF i <= Len(u) THEN u[i] ELSE s[i - Len(u)]
      BY <2>1, <3>1, ConcatProperties
    <3>2. x \in Seq(Addrs) /\ Len(x) = (j - 1) + 1
      BY <2>1, <3>1, <3>7
    <3>3. \A i \in 1 .. (j - 1) + 1 : x[i] = IF i <= j - 1 THEN u[i] ELSE s[i - (j - 1)]
      BY <2>1, <3>1, <3>7
    <3>4. (j - 1) + 1 = j /\ j - (j - 1) = 1 /\ ~(j <= j - 1) /\ j \in 1 .. j
      BY <1>3
    <3>5. x[j] = b
      BY <3>1, <3>3, <3>4
    <3>6. \A i \in 1 .. j - 1 : x[i] = list[i]
      BY <1>3, <2>1, <3>3, <3>4
    <3> QED
      BY <3>2, <3>4, <3>5, <3>6
  <2> HIDE DEF u, v, w, x, n
  <2>11. /\ w \in Seq(Addrs) /\ Len(w) = Len(x) + Len(v)
         /\ \A i \in 1 .. Len(x) + Len(v) : w[i] = IF i <= Len(x) THEN x[i] ELSE v[i - Len(x)]
    BY <2>2, <2>4, <2>5, ConcatProperties
  <2>6. w \in Seq(Addrs) /\ Len(w) = j + (n - j + 1)
    BY <2>2, <2>5, <2>11
  <2>7. \A i \in 1 .. j + (n - j + 1) : w[i] = IF i <= j THEN x[i] ELSE v[i - j]
    BY <2>2, <2>5, <2>11
  <2>8. j + (n - j + 1) = n + 1
    BY <1>1, <1>3
  <2>9. w[j] = b
    BY <1>1, <1>3, <2>5, <2>7, <2>8
  <2>10. ASSUME NEW i \in 1 .. n + 1, i # j
         PROVE  w[i] = list[from(i)]
    <3>1. CASE i < j
      <4>1. i \in 1 .. j - 1 /\ i <= j
        BY <1>3, <3>1
      <4> QED
        BY <2>5, <2>7, <2>8, <3>1, <4>1
    <3>2. CASE ~(i < j)
      <4>1. ~(i <= j) /\ i - j \in 1 .. n - j + 1 /\ j + (i - j) - 1 = i - 1
        BY <1>1, <1>3, <2>10, <3>2
      <4>2. w[i] = v[i - j]
        BY <2>7, <2>8, <4>1
      <4> QED
        BY <2>2, <3>2, <4>1, <4>2
    <3> QED
      BY <3>1, <3>2
  <2> QED
    BY <2>6, <2>8, <2>9, <2>10
<1> HIDE DEF w
<1>8. \A i \in 1 .. n + 1 : i # j => from(i) \in 1 .. n
  BY <1>1, <1>3
<1>9. \A k \in 1 .. n : \E i \in 1 .. n + 1 : i # j /\ from(i) = k
  <2>1. ASSUME NEW k \in 1 .. n
        PROVE  \E i \in 1 .. n + 1 : i # j /\ from(i) = k
    <3>1. CASE k < j
      <4>1. k \in 1 .. n + 1 /\ k # j /\ from(k) = k
        BY <1>1, <1>3, <3>1
      <4> QED
        BY <4>1
    <3>2. CASE k >= j
      <4>1. k + 1 \in 1 .. n + 1 /\ k + 1 # j /\ from(k + 1) = k
        BY <1>1, <1>3, <3>2
      <4> QED
        BY <4>1
    <3> QED
      BY <1>1, <1>3, <3>1, <3>2
  <2> QED
    BY <2>1
<1>10. \A i, k \in 1 .. n + 1 : i < k /\ i # j /\ k # j => from(i) < from(k)
  BY <1>1, <1>3
<1>11. \A i \in 1 .. n + 1 : (i < j => from(i) < j) /\ (i > j => from(i) >= j)
  BY <1>1, <1>3
<1>12. j \in 1 .. n + 1
  BY <1>1, <1>3
<1> HIDE DEF from, n
<1>13. ASSUME NEW i \in 1 .. n + 1, NEW k \in 1 .. n + 1, i < k
       PROVE  w[i] < w[k]
  <2>1. CASE i # j /\ k # j
    <3>1. from(i) < from(k) /\ from(i) \in 1 .. n /\ from(k) \in 1 .. n
      BY <1>8, <1>10, <1>13, <2>1
    <3> QED
      BY <1>7, <2>1, <3>1 DEF Ascending, n
  <2>2. CASE i = j
    <3>1. k > j /\ k # j
      BY <1>3, <1>13, <2>2
    <3> QED
      BY <1>6, <1>7, <1>8, <1>11, <2>2, <3>1
  <2>3. CASE k = j
    <3>1. i # j
      BY <1>3, <1>13, <2>3
    <3> QED
      BY <1>4, <1>7, <1>8, <1>11, <1>13, <2>3, <3>1
  <2> QED
    BY <2>1, <2>2, <2>3
<1>14. Ascending(w)
  BY <1>7, <1>13 DEF Ascending
<1>15. Listed(w) \subseteq Listed(list) \cup {b}
  <2>1. ASSUME NEW i \in 1 .. n + 1
        PROVE  w[i] \in Listed(list) \cup {b}
    <3>1. CASE i = j
      BY <1>7, <3>1
    <3>2. CASE i # j
      BY <1>7, <1>8, <3>2 DEF Listed, n
    <3> QED
      BY <3>1, <3>2
  <2> QED
    BY <1>7, <2>1 DEF Listed
<1>16. Listed(list) \cup {b} \subseteq Listed(w)
  <2>1. b \in Listed(w)
    BY <1>7, <1>12 DEF Listed
  <2>2. ASSUME NEW k \in 1 .. n
        PROVE  list[k] \in Listed(w)
    <3>1. PICK i \in 1 .. n + 1 : i # j /\ from(i) = k
      BY <1>9
    <3> QED
      BY <1>7, <3>1 DEF Listed
  <2> QED
    BY <2>1, <2>2 DEF Listed, n
<1> QED
  BY <1>7, <1>14, <1>15, <1>16 DEF w
\* Without its element at j an ascending list is ascending, and holds the others.
LEMMA ListedWithout ==
    ASSUME NEW list \in Seq(Addrs), Ascending(list), NEW j \in 1 .. Len(list), NEW w \in Seq(Addrs),
           Len(w) = Len(list) - 1,
           \A i \in 1 .. Len(list) - 1 : w[i] = list[IF i < j THEN i ELSE i + 1]
    PROVE  Ascending(w) /\ Listed(w) = Listed(list) \ {list[j]}
<1> DEFINE n == Len(list)
           from(i) == IF i < j THEN i ELSE i + 1
<1>1. n \in Nat /\ j \in Nat /\ j >= 1 /\ j <= n
  BY LenProperties
<1>2. Len(w) = n - 1 /\ \A i \in 1 .. n - 1 : w[i] = list[from(i)]
  OBVIOUS
<1>3. \A i \in 1 .. n - 1 : from(i) \in 1 .. n /\ from(i) # j
  BY <1>1
<1>4. \A i, k \in 1 .. n - 1 : i < k => from(i) < from(k)
  BY <1>1
<1>5. \A k \in 1 .. n : k # j => \E i \in 1 .. n - 1 : from(i) = k
  <2>1. ASSUME NEW k \in 1 .. n, k # j
        PROVE  \E i \in 1 .. n - 1 : from(i) = k
    <3>1. CASE k < j
      <4>1. k \in 1 .. n - 1 /\ from(k) = k
        BY <1>1, <3>1
      <4> QED
        BY <4>1
    <3>2. CASE k > j
      <4>1. k - 1 \in 1 .. n - 1 /\ from(k - 1) = k
        BY <1>1, <3>2
      <4> QED
        BY <4>1
    <3> QED
      BY <1>1, <2>1, <3>1, <3>2
  <2> QED
    BY <2>1
<1>6. \A k \in 1 .. n : list[k] = list[j] => k = j
  BY AscendingOnce
<1> HIDE DEF from, n
<1>7. Ascending(w)
  BY <1>2, <1>3, <1>4 DEF Ascending, n
<1>8. Listed(w) \subseteq Listed(list) \ {list[j]}
  <2>1. ASSUME NEW i \in 1 .. n - 1
        PROVE  w[i] \in Listed(list) \ {list[j]}
    BY <1>2, <1>3, <1>6 DEF Listed, n
  <2> QED
    BY <1>2, <2>1 DEF Listed
<1>9. Listed(list) \ {list[j]} \subseteq Listed(w)
  <2>1. ASSUME NEW k \in 1 .. n, list[k] # list[j]
        PROVE  list[k] \in Listed(w)
    <3>1. PICK i \in 1 .. n - 1 : from(i) = k
      BY <1>5, <2>1
    <3> QED
      BY <1>2, <3>1 DEF Listed
  <2> QED
    BY <2>1 DEF Listed, n
<1> QED
  BY <1>7, <1>8, <1>9

LEMMA RemovedAt ==
    ASSUME NEW list \in Seq(Addrs), NEW j \in 1 .. Len(list)
    PROVE  LET w == RemoveAt(list, j) IN
           /\ w \in Seq(Addrs) /\ Len(w) = Len(list) - 1
           /\ \A i \in 1 .. Len(list) - 1 : w[i] = list[IF i < j THEN i ELSE i + 1]
<1> DEFINE w == RemoveAt(list, j)
           n == Len(list)
           u == SubSeq(list, 1, j - 1)
           v == SubSeq(list, j + 1, n)
<1>1. n \in Nat /\ j \in Nat /\ j >= 1 /\ j <= n /\ list \in [1 .. n -> Addrs]
  BY LenProperties
<1>2. u \in Seq(Addrs) /\ Len(u) = j - 1 /\ \A i \in 1 .. j - 1 : u[i] = list[i]
  BY <1>1, SubSeqProperties
<1>3. v \in Seq(Addrs) /\ Len(v) = n - j /\ \A i \in 1 .. n - j : v[i] = list[i + j]
  <2>1. \A i \in j + 1 .. n : list[i] \in Addrs
    BY <1>1
  <2>2. /\ v \in Seq(Addrs) /\ Len(v) = IF j + 1 <= n THEN n - (j + 1) + 1 ELSE 0
        /\ \A i \in 1 .. n - (j + 1) + 1 : v[i] = list[(j + 1) + i - 1]
    BY <1>1, <2>1, SubSeqProperties
  <2> HIDE DEF v, n
  <2>3. n - (j + 1) + 1 = n - j /\ \A i \in 1 .. n - j : (j + 1) + i - 1 = i + j
    BY <1>1
  <2>4. (IF j + 1 <= n THEN n - (j + 1) + 1 ELSE 0) = n - j
    BY <1>1
  <2> QED
    BY <2>2, <2>3, <2>4
<1>4. w = u \o v
  BY DEF RemoveAt
<1> HIDE DEF u, v, w, n
<1>5. /\ w \in Seq(Addrs) /\ Len(w) = Len(u) + Len(v)
      /\ \A i \in 1 .. Len(u) + Len(v) : w[i] = IF i <= Len(u) THEN u[i] ELSE v[i - Len(u)]
  BY <1>2, <1>3, <1>4, ConcatProperties
<1>6. (j - 1) + (n - j) = n - 1
  BY <1>1
<1>7. w \in Seq(Addrs) /\ Len(w) = n - 1
  BY <1>2, <1>3, <1>5, <1>6
<1>8. ASSUME NEW i \in 1 .. n - 1
      PROVE  w[i] = list[IF i < j THEN i ELSE i + 1]
  <2>1. w[i] = IF i <= j - 1 THEN u[i] ELSE v[i - (j - 1)]
    BY <1>2, <1>3, <1>5, <1>6
  <2>2. CASE i < j
    <3>1. i \in 1 .. j - 1 /\ i <= j - 1
      BY <1>1, <2>2
    <3> QED
      BY <1>2, <2>1, <2>2, <3>1
  <2>3. CASE ~(i < j)
    <3>1. i - (j - 1) \in 1 .. n - j /\ i - (j - 1) + j = i + 1 /\ ~(i <= j - 1)
      BY <1>1, <2>3
    <3> QED
      BY <1>3, <2>1, <2>3, <3>1
  <2> QED
    BY <2>2, <2>3
<1> QED
  BY <1>7, <1>8 DEF w, n

\* removeBlock takes the block out.
LEMMA Removed ==
    ASSUME NEW list \in Seq(Addrs), Ascending(list), NEW b
    PROVE  LET w == removeBlock(list, b) IN
           w \in Seq(Addrs) /\ Ascending(w) /\ Listed(w) = Listed(list) \ {b}
<1> DEFINE w == removeBlock(list, b)
           I == {i \in 1 .. Len(list) : list[i] = b}
<1>1. CASE \E i \in 1 .. Len(list) : list[i] = b
  <2>1. I # {} /\ I \in SUBSET Nat
    BY <1>1
  <2>2. w = RemoveAt(list, Min(I))
    BY <1>1, <2>1 DEF removeBlock, RemoveFirst, SelectInSeq
  <2>3. Min(I) \in I
    <3> HIDE DEF I
    <3>1. \E m \in I : \A k \in I : m <= k
      BY <2>1, LeastNatural
    <3> QED
      BY <3>1 DEF Min
  <2> DEFINE j == Min(I)
  <2>4. j \in 1 .. Len(list) /\ list[j] = b
    BY <2>3
  <2> HIDE DEF j, w
  <2>5. /\ w \in Seq(Addrs) /\ Len(w) = Len(list) - 1
        /\ \A i \in 1 .. Len(list) - 1 : w[i] = list[IF i < j THEN i ELSE i + 1]
    BY <2>2, <2>4, RemovedAt DEF j
  <2>6. Ascending(w) /\ Listed(w) = Listed(list) \ {list[j]}
    BY <2>4, <2>5, ListedWithout
  <2> QED
    BY <2>4, <2>5, <2>6 DEF w
<1>2. CASE ~(\E i \in 1 .. Len(list) : list[i] = b)
  BY <1>2 DEF removeBlock, RemoveFirst, Listed
<1> QED
  BY <1>1, <1>2

\* removeFirst takes the block of the lowest address.
LEMMA RemovedFirst ==
    ASSUME NEW list \in Seq(Addrs), Ascending(list), list # <<>>
    PROVE  /\ Tail(list) \in Seq(Addrs) /\ Ascending(Tail(list))
           /\ Listed(Tail(list)) = Listed(list) \ {Head(list)}
           /\ Head(list) \in Listed(list) /\ Head(list) \in Addrs
           /\ \A b \in Listed(list) : Head(list) <= b
<1>1. Len(list) \in Nat /\ Len(list) >= 1 /\ Head(list) = list[1] /\ 1 \in 1 .. Len(list)
  <2>1. Len(list) \in Nat /\ Len(list) # 0
    BY LenProperties, EmptySeq
  <2> QED
    BY <2>1
<1>2. /\ Tail(list) \in Seq(Addrs) /\ Len(Tail(list)) = Len(list) - 1
      /\ \A i \in 1 .. Len(Tail(list)) : Tail(list)[i] = list[i + 1]
  BY HeadTailProperties
<1>3. \A i \in 1 .. Len(list) - 1 : Tail(list)[i] = list[IF i < 1 THEN i ELSE i + 1]
  BY <1>1, <1>2
<1>4. Ascending(Tail(list)) /\ Listed(Tail(list)) = Listed(list) \ {list[1]}
  <2> DEFINE w == Tail(list)
  <2>1. w \in Seq(Addrs) /\ Len(w) = Len(list) - 1
    BY <1>2
  <2>2. \A i \in 1 .. Len(list) - 1 : w[i] = list[IF i < 1 THEN i ELSE i + 1]
    BY <1>3
  <2> HIDE DEF w
  <2>3. Ascending(w) /\ Listed(w) = Listed(list) \ {list[1]}
    BY <1>1, <2>1, <2>2, ListedWithout
  <2> QED
    BY <2>3 DEF w
<1>5. list[1] \in Addrs
  BY <1>1, AddrOrder
<1>6. ASSUME NEW i \in 1 .. Len(list)
      PROVE  list[1] <= list[i]
  <2>1. list[1] \in Nat /\ list[i] \in Nat
    BY <1>1, AddrOrder
  <2>2. CASE i = 1
    BY <2>1, <2>2
  <2>3. CASE i # 1
    <3>1. 1 < i
      BY <1>1, <2>3
    <3> QED
      BY <1>1, <2>1, <3>1 DEF Ascending
  <2> QED
    BY <2>2, <2>3
<1> QED
  BY <1>1, <1>2, <1>4, <1>5, <1>6 DEF Listed

LEMMA EmptyList ==
    /\ <<>> \in Seq(Addrs) /\ Ascending(<<>>) /\ Listed(<<>>) = {}
    /\ \A list \in Seq(Addrs) : Listed(list) = {} => list = <<>>
<1>1. <<>> \in Seq(Addrs) /\ Len(<<>>) = 0 /\ 1 .. 0 = {}
  OBVIOUS
<1>2. Ascending(<<>>) /\ Listed(<<>>) = {}
  BY <1>1 DEF Ascending, Listed
<1>3. ASSUME NEW list \in Seq(Addrs), Listed(list) = {}
      PROVE  list = <<>>
  <2>1. SUFFICES ASSUME list # <<>> PROVE FALSE
    OBVIOUS
  <2>2. Len(list) \in Nat /\ Len(list) # 0
    BY <2>1, LenProperties, EmptySeq
  <2>3. 1 \in 1 .. Len(list)
    BY <2>2
  <2> QED
    BY <1>3, <2>3 DEF Listed
<1> QED
  BY <1>1, <1>2, <1>3
-----------------------------------------------------------------------------
(* Blocks and their buddies *)

\* An address and its buddy are the two halves of an aligned stretch, and each is
\* the buddy of the other.
LEMMA FlipPair ==
    ASSUME NEW t \in Nat \ {0}, NEW x, Multiple(x, t)
    PROVE  LET y == Flip(x, t) IN
           /\ Multiple(y, t) /\ Flip(y, t) = x
           /\ \E low \in Nat : /\ Multiple(low, 2 * t)
                               /\ (x = low /\ y = low + t) \/ (x = low + t /\ y = low)
<1> DEFINE y == Flip(x, t)
<1>1. x \in Nat /\ t \in Nat /\ 2 * t \in Nat \ {0}
  BY FlipIs
<1>2. Multiple(t, t) /\ Multiple(2 * t, t)
  <2>1. 1 * t = t
    OBVIOUS
  <2> QED
    BY <2>1 DEF Multiple
<1>3. PICK low \in Nat : Multiple(low, 2 * t) /\ ((x = low /\ y = low + t) \/ (x = low + t /\ y = low))
  <2>1. CASE Multiple(x, 2 * t) /\ y = x + t
    BY <1>1, <2>1
  <2>2. CASE x >= t /\ Multiple(x - t, 2 * t) /\ y = x - t
    <3>1. x - t \in Nat /\ (x - t) + t = x
      BY <1>1, <2>2
    <3> QED
      BY <2>2, <3>1
  <2> HIDE DEF y
  <2>3. (Multiple(x, 2 * t) /\ y = x + t) \/ (x >= t /\ Multiple(x - t, 2 * t) /\ y = x - t)
    BY FlipIs DEF y
  <2> QED
    BY <2>1, <2>2, <2>3
<1> HIDE DEF y
<1>4. Multiple(low, t)
  BY <1>1, <1>2, <1>3, MultipleOf
<1>5. Multiple(low + t, t)
  BY <1>2, <1>4, MultipleSum
<1>6. Multiple(y, t)
  BY <1>3, <1>4, <1>5
<1>7. Flip(low, t) = low + t
  <2>1. CASE Flip(low, t) = low + t
    BY <2>1
  <2>2. CASE low >= t /\ Multiple(low - t, 2 * t)
    <3>1. low - t < low /\ ~((low - t) + 2 * t <= low)
      BY <1>1, <1>3, <2>2
    <3> QED
      BY <1>1, <1>3, <2>2, <3>1, NextMultiple
  <2> QED
    BY <1>4, <2>1, <2>2, FlipIs
<1>8. Flip(low + t, t) = low
  <2>1. CASE Multiple(low + t, 2 * t)
    <3>1. low < low + t /\ ~(low + 2 * t <= low + t)
      BY <1>1, <1>3
    <3> QED
      BY <1>1, <1>3, <2>1, <3>1, NextMultiple
  <2>2. CASE Flip(low + t, t) = (low + t) - t
    BY <1>1, <1>3, <2>2
  <2> QED
    BY <1>5, <2>1, <2>2, FlipIs
<1>9. Flip(y, t) = x
  BY <1>3, <1>7, <1>8
<1> QED
  BY <1>3, <1>6, <1>9 DEF y

\* What is known of every block.
LEMMA BlockFacts ==
    ASSUME HeapTypes, HeapOK, NEW b \in blocks
    PROVE  /\ b \in Addrs /\ b \in Nat /\ b \in Pointers /\ size[b] \in Nat /\ b < HeapEnd /\ initialized
           /\ Full(b) \in Nat \ {0} /\ Full(b) <= BlockSize /\ Covers(b, b)
           /\ getBlockOrder(b) \in Orders /\ Full(b) = BlockSizeByOrder(getBlockOrder(b)) /\ Multiple(b, Full(b))
<1>1. b \in Addrs /\ b \in Nat /\ b \in Pointers /\ b < HeapEnd
  BY AddrsAre DEF HeapTypes
<1>2. size[b] \in Nat /\ Full(b) \in Nat \ {0} /\ size[b] + 1 = Full(b)
  BY <1>1 DEF HeapTypes, Full
<1>3. initialized
  BY DEF HeapOK, BlocksCover
<1>4. PICK o \in Orders : Full(b) = BlockSizeByOrder(o) /\ Multiple(b, BlockSizeByOrder(o))
  BY DEF HeapOK, BlocksAligned
<1>5. getBlockOrder(b) = o
  BY <1>2, <1>4, OrderOfSize DEF getBlockOrder
<1>6. Full(b) <= BlockSize
  BY <1>4, BlockSizeIs
<1>7. Covers(b, b)
  BY <1>1, <1>2 DEF Covers
<1> QED
  BY <1>1, <1>2, <1>3, <1>4, <1>5, <1>6, <1>7

\* In a tiled heap there is a block at the address of the buddy, and none larger.
LEMMA BuddyIsBlock ==
    ASSUME HeapTypes, HeapOK, NEW b \in blocks, Full(b) < BlockSize
    PROVE  /\ findBuddy(b) \in blocks /\ Full(findBuddy(b)) <= Full(b) /\ findBuddy(b) # b
           /\ Flip(findBuddy(b), Full(b)) = b
           /\ size[findBuddy(b)] = size[b] => findBuddy(findBuddy(b)) = b
           /\ \E low \in Nat : /\ Multiple(low, 2 * Full(b)) /\ low + 2 * Full(b) <= HeapEnd
                               /\ \/ b = low /\ findBuddy(b) = low + Full(b)
                                  \/ b = low + Full(b) /\ findBuddy(b) = low
<1> DEFINE y == findBuddy(b)
           t == Full(b)
           o == getBlockOrder(b)
<1>1. /\ b \in Nat /\ b < HeapEnd /\ initialized /\ t \in Nat \ {0} /\ o \in Orders
      /\ t = BlockSizeByOrder(o) /\ Multiple(b, t) /\ t < BlockSize
  BY BlockFacts
<1>2. y = Flip(b, t)
  BY DEF findBuddy, Full
<1> HIDE DEF y, t, o
<1>3. Multiple(y, t) /\ Flip(y, t) = b
  BY <1>1, <1>2, FlipPair
<1>4. PICK low \in Nat : /\ Multiple(low, 2 * t)
                         /\ (b = low /\ y = low + t) \/ (b = low + t /\ y = low)
  BY <1>1, <1>2, FlipPair
<1>5. o < MaxOrder /\ MaxOrder \in Orders /\ HeapEnd \in Nat
  BY <1>1, BlockSizeIs, OrdersAre
<1>6. 2 * t \in Nat \ {0} /\ Multiple(HeapEnd, 2 * t)
  <2>1. o + 1 \in Orders /\ BlockSizeByOrder(o + 1) = 2 * t
    BY <1>1, <1>5, SizesOrdered
  <2> QED
    BY <1>1, <2>1, BlockSizeIs
<1>7. low < HeapEnd
  BY <1>1, <1>4, <1>5
<1>8. low + 2 * t <= HeapEnd
  BY <1>4, <1>6, <1>7, NextMultiple
<1>9. y \in 0 .. HeapEnd - 1 /\ y \in Nat
  BY <1>1, <1>4, <1>5, <1>8
<1>10. PICK c \in blocks : Covers(c, y)
  BY <1>1, <1>9 DEF HeapOK, BlocksCover
<1> DEFINE s == Full(c)
           p == getBlockOrder(c)
<1>11. c \in Nat /\ s \in Nat \ {0} /\ p \in Orders /\ s = BlockSizeByOrder(p) /\ Multiple(c, s) /\ size[c] \in Nat
  BY BlockFacts
<1>12. c <= y /\ y < c + s
  BY <1>10, <1>11 DEF Covers, Full
<1> HIDE DEF s, p
<1>13. ~(o < p)
  <2> SUFFICES ASSUME o < p PROVE FALSE
    OBVIOUS
  <2>1. Multiple(s, 2 * t) /\ 2 * t <= s
    BY <1>1, <1>11, SizesOrdered
  <2>2. Multiple(c, 2 * t)
    BY <1>6, <1>11, <2>1, MultipleOf
  <2>3. c <= low
    <3>1. CASE low < c
      <4>1. low + 2 * t <= c
        BY <1>4, <1>6, <2>2, <3>1, NextMultiple
      <4> QED
        BY <1>1, <1>4, <1>11, <1>12, <4>1
    <3> QED
      BY <1>4, <1>11, <3>1
  <2>4. Multiple(c + s, 2 * t) /\ c + s \in Nat
    BY <1>6, <1>11, <2>1, <2>2, MultipleSum
  <2>5. low < c + s
    BY <1>1, <1>4, <1>11, <1>12
  <2>6. low + 2 * t <= c + s
    BY <1>4, <1>6, <2>4, <2>5, NextMultiple
  <2>7. c <= b /\ b < c + s
    BY <1>1, <1>4, <1>11, <2>3, <2>4, <2>6
  <2>8. Covers(c, b)
    BY <1>11, <2>7 DEF Covers, s, Full
  <2>9. c = b
    BY <2>8 DEF HeapOK, BlocksDisjoint
  <2> QED
    BY <1>1, <1>11, <2>1, <2>9 DEF s, t
<1>14. s <= t /\ Multiple(t, s)
  <2>1. p <= o
    BY <1>1, <1>11, <1>13, OrdersAre
  <2> QED
    BY <1>1, <1>11, <2>1, SizesDivide
<1>15. c = y
  <2>1. Multiple(y, s)
    BY <1>1, <1>3, <1>11, <1>14, MultipleOf
  <2>2. CASE c < y
    <3>1. c + s <= y
      BY <1>11, <2>1, <2>2, NextMultiple
    <3> QED
      BY <1>9, <1>11, <1>12, <3>1
  <2> QED
    BY <1>9, <1>11, <1>12, <2>2
<1>16. y \in blocks /\ Full(y) <= t /\ y # b
  BY <1>1, <1>4, <1>14, <1>15 DEF s
<1>17. size[y] = size[b] => findBuddy(y) = b
  BY <1>3 DEF findBuddy, t, Full
<1> QED
  BY <1>3, <1>4, <1>8, <1>16, <1>17 DEF y, t
-----------------------------------------------------------------------------
(* What follows from the invariant *)

LEMMA InvTiled == HeapInv => HeapTiled
<1> SUFFICES ASSUME HeapInv, initialized
             PROVE  /\ \A u \in 0 .. NumBlocks * BlockSize - 1 : \E b \in blocks : Covers(b, u)
                    /\ \A a, b \in blocks : Covers(a, b) => a = b
                    /\ \A b \in blocks : /\ size[b] + 1 = BlockSizeByOrder(getBlockOrder(b))
                                         /\ b % (size[b] + 1) = 0
  BY DEF HeapTiled
<1>1. \A u \in 0 .. NumBlocks * BlockSize - 1 : \E b \in blocks : Covers(b, u)
  BY DEF HeapInv, HeapOK, BlocksCover, HeapEnd
<1>2. \A a, b \in blocks : Covers(a, b) => a = b
  BY DEF HeapInv, HeapOK, BlocksDisjoint
<1>3. ASSUME NEW b \in blocks
      PROVE  size[b] + 1 = BlockSizeByOrder(getBlockOrder(b)) /\ b % (size[b] + 1) = 0
  <2>1. Full(b) \in Nat \ {0} /\ Full(b) = BlockSizeByOrder(getBlockOrder(b)) /\ Multiple(b, Full(b))
    BY BlockFacts DEF HeapInv
  <2>2. b % Full(b) = 0
    BY <2>1, MultipleRemainder
  <2> QED
    BY <2>1, <2>2 DEF Full
<1> QED
  BY <1>1, <1>2, <1>3

\* The free blocks of an order, by their size or by getBlockOrder.
LEMMA FreeOfOrder ==
    ASSUME HeapTypes, HeapOK, NEW o \in Orders
    PROVE  FreeOf(o) = {b \in blocks : is_free[b] /\ getBlockOrder(b) = o}
<1>1. ASSUME NEW b \in blocks
      PROVE  Full(b) = BlockSizeByOrder(o) <=> getBlockOrder(b) = o
  BY BlockFacts, SizesOrdered
<1> QED
  BY <1>1 DEF FreeOf

LEMMA InvListsExact == HeapInv => FreeListsExact
<1> SUFFICES ASSUME HeapInv, NEW o \in Orders
             PROVE  LET list == freeBlocksList[o] IN
                    /\ {list[i] : i \in 1 .. Len(list)} = {b \in blocks : is_free[b] /\ getBlockOrder(b) = o}
                    /\ \A i \in 1 .. Len(list) - 1 : list[i] < list[i + 1]
  BY DEF FreeListsExact
<1> DEFINE list == freeBlocksList[o]
<1>1. list \in Seq(Addrs) /\ Ascending(list) /\ Listed(list) = FreeOf(o)
  BY DEF HeapInv, HeapTypes, ListsOK
<1>2. FreeOf(o) = {b \in blocks : is_free[b] /\ getBlockOrder(b) = o}
  BY FreeOfOrder DEF HeapInv
<1> HIDE DEF list
<1>3. Len(list) \in Nat
  BY <1>1, LenProperties
<1>4. \A i \in 1 .. Len(list) - 1 : list[i] < list[i + 1]
  BY <1>1, <1>3 DEF Ascending
<1> QED
  BY <1>1, <1>2, <1>4 DEF list, Listed

LEMMA InvHeld == HeapInv => HeldBlocksAreOwned
<1> SUFFICES ASSUME HeapInv
             PROVE  HeldBlocksAreOwned
  OBVIOUS
<1>1. \A r, s \in live : r.p = s.p => r = s
  BY DEF HeapInv, HeldOK
<1>2. call.pc = "idle" => Held = mapped \cup {b \in blocks : ~is_free[b]}
  BY DEF HeapInv, HeldOK, Used, Growing
<1>3. ASSUME NEW r \in live
      PROVE  \/ r.p \in blocks \cup mapped /\ (r.guess \/ size[r.p] >= r.n) /\ ~is_free[r.p]
             \/ GrowingInPlace(r.p)
  <2>1. r.p \in Held
    BY DEF Held
  <2>2. CASE Growing /\ r.p = call.old
    <3>1. Covers(call.cur, call.old)
      BY <2>2 DEF HeapInv, CallOK, GrowOK, Growing
    <3> QED
      BY <2>2, <3>1 DEF GrowingInPlace, Growing
  <2>3. CASE ~(Growing /\ r.p = call.old)
    <3>1. (r.guess \/ size[r.p] >= r.n)
      BY <2>3 DEF HeapInv, HeldOK
    <3>2. r.p \in Used
      BY <2>1, <2>3 DEF HeapInv, HeldOK
    <3>3. ~is_free[r.p] /\ r.p \in blocks \cup mapped
      BY <3>2 DEF HeapInv, HeldOK, Used
    <3> QED
      BY <3>1, <3>3
  <2> QED
    BY <2>2, <2>3
<1> QED
  BY <1>1, <1>2, <1>3 DEF HeldBlocksAreOwned

\* If every block that reaches into an aligned stretch of the size of order q were free
\* and smaller than it, the smallest of them would have a free buddy of its size.
LEMMA StretchHasPair ==
    ASSUME HeapTypes, HeapOK, initialized, NEW q \in Orders, NEW x \in Nat,
           Multiple(x, BlockSizeByOrder(q)), x < HeapEnd,
           \A b \in blocks : b < x + BlockSizeByOrder(q) /\ x < b + Full(b)
                               => is_free[b] /\ Full(b) < BlockSizeByOrder(q)
    PROVE  \E b \in blocks : FreePair(b)
<1> DEFINE s == BlockSizeByOrder(q)
           In(b) == b < x + s /\ x < b + Full(b)
           S == {getBlockOrder(b) : b \in {c \in blocks : In(c)}}
<1>1. s \in Nat \ {0} /\ s <= BlockSize /\ HeapEnd \in Nat /\ Multiple(HeapEnd, s)
  BY OrderSizes, BlockSizeIs
<1>2. PICK m \in S : \A k \in S : m <= k
  <2>1. S \subseteq Nat
    BY BlockFacts, OrdersAre
  <2>2. PICK c \in blocks : Covers(c, x)
    <3>1. x \in 0 .. HeapEnd - 1
      BY <1>1
    <3> QED
      BY <3>1 DEF HeapOK, BlocksCover
  <2>3. c \in Nat /\ Full(c) \in Nat /\ c <= x /\ x < c + Full(c)
    <3>1. c \in Nat /\ Full(c) \in Nat /\ size[c] \in Nat
      BY BlockFacts
    <3> QED
      BY <2>2, <3>1 DEF Covers, Full
  <2>4. In(c)
    BY <1>1, <2>3
  <2>5. S # {}
    BY <2>4
  <2> HIDE DEF S
  <2> QED
    BY <2>1, <2>5, LeastNatural
<1>3. PICK b \in blocks : In(b) /\ getBlockOrder(b) = m
  BY <1>2
<1> DEFINE t == Full(b)
<1>4. /\ b \in Nat /\ t \in Nat \ {0} /\ m \in Orders /\ t = BlockSizeByOrder(m) /\ Multiple(b, t)
      /\ is_free[b] /\ t < s
  BY <1>3, BlockFacts
<1>5. t < BlockSize
  BY <1>1, <1>4, BlockSizeIs
<1> DEFINE y == findBuddy(b)
<1>6. y \in blocks /\ Full(y) <= t
  BY <1>5, BuddyIsBlock
<1>7. PICK low \in Nat : /\ Multiple(low, 2 * t)
                         /\ (b = low /\ y = low + t) \/ (b = low + t /\ y = low)
  BY <1>5, BuddyIsBlock
<1>8. m < q /\ Multiple(s, 2 * t) /\ 2 * t \in Nat \ {0}
  <2>1. m < q
    BY <1>4, SizesOrdered
  <2> QED
    BY <1>4, <2>1, SizesOrdered
<1>9. y \in Nat /\ Full(y) \in Nat \ {0} /\ Full(y) = BlockSizeByOrder(getBlockOrder(y)) /\ getBlockOrder(y) \in Orders
  BY <1>6, BlockFacts
<1> HIDE DEF s, t, y, S
<1>10. Multiple(x, 2 * t) /\ Multiple(x + s, 2 * t)
  <2>1. Multiple(x, s)
    BY DEF s
  <2>2. Multiple(x, 2 * t)
    BY <1>1, <1>8, <2>1, MultipleOf
  <2> QED
    BY <1>1, <1>8, <2>2, MultipleSum
<1>11. b < x + s /\ x < b + t
  BY <1>3 DEF t
<1>12. x <= low
  <2>1. CASE low < x
    <3>1. low + 2 * t <= x
      BY <1>7, <1>8, <1>10, <2>1, NextMultiple
    <3> QED
      BY <1>4, <1>7, <1>11, <3>1
  <2> QED
    BY <1>7, <2>1
<1>13. low + 2 * t <= x + s
  <2>1. low < x + s
    BY <1>1, <1>4, <1>7, <1>11
  <2> QED
    BY <1>7, <1>8, <1>10, <2>1, NextMultiple
<1>14. y < x + s /\ x < y + Full(y)
  BY <1>1, <1>4, <1>7, <1>9, <1>12, <1>13
<1>15. is_free[y] /\ m <= getBlockOrder(y)
  <2>1. In(y)
    BY <1>14
  <2>2. getBlockOrder(y) \in S
    BY <1>6, <2>1 DEF S
  <2> QED
    BY <1>2, <1>6, <1>14, <2>2 DEF s
<1>16. Full(y) = t
  <2>1. BlockSizeByOrder(m) <= BlockSizeByOrder(getBlockOrder(y))
    BY <1>4, <1>9, <1>15, SizesOrdered
  <2> QED
    BY <1>4, <1>6, <1>9, <2>1
<1>17. size[y] = size[b]
  <2>1. size[y] \in Nat /\ size[b] \in Nat
    BY <1>6, BlockFacts
  <2> QED
    BY <1>16, <2>1 DEF Full, t
<1> QED
  BY <1>4, <1>5, <1>15, <1>17 DEF FreePair, y, t

LEMMA InvFailsOnlyWhenFull == HeapInv => FailsOnlyWhenFull
<1> DEFINE q == getRequiredOrder(call.n)
           s == BlockSizeByOrder(q)
<1> SUFFICES ASSUME HeapInv, call.pc = "place", initialized, ~OutOfRange(call.n), ~Large(call.n),
                    Available(call.n) = {}, NEW i \in 0 .. (NumBlocks * BlockSize) \div s - 1
             PROVE  \E b \in blocks : ~is_free[b] /\ b < (i + 1) * s /\ i * s < b + size[b] + 1
  BY DEF FailsOnlyWhenFull
<1>1. SUFFICES ASSUME \A b \in blocks : b < (i + 1) * s /\ i * s < b + size[b] + 1 => is_free[b]
               PROVE  FALSE
  OBVIOUS
<1>2. call.n \in Nat /\ call.n + 1 <= BlockSize
  BY BlockSizeIs DEF HeapInv, HeapTypes, Calls, Large
<1>3. q \in Orders
  BY <1>2, RequiredOrder
<1>4. s \in Nat \ {0} /\ HeapEnd \in Nat /\ Multiple(HeapEnd, s)
  BY <1>3, OrderSizes, BlockSizeIs
<1> HIDE DEF s, q
<1>5. PICK e \in Nat : HeapEnd = e * s
  BY <1>4 DEF Multiple
<1>6. HeapEnd \div s = e
  BY <1>4, <1>5
<1>7. i \in Nat /\ i < e
  BY <1>5, <1>6 DEF HeapEnd
<1>8. i * s \in Nat /\ i * s < HeapEnd /\ (i + 1) * s = i * s + s /\ Multiple(i * s, s)
  <2>1. i * s < e * s
    BY <1>4, <1>7
  <2> QED
    BY <1>4, <1>5, <1>7, <2>1 DEF Multiple
<1>9. ASSUME NEW b \in blocks, b < i * s + s, i * s < b + Full(b)
      PROVE  is_free[b] /\ Full(b) < s
  <2>1. b \in Nat /\ size[b] \in Nat /\ Full(b) = size[b] + 1
    BY BlockFacts DEF HeapInv, Full
  <2>2. is_free[b]
    <3>1. i * s < b + size[b] + 1
      BY <1>8, <1>9, <2>1
    <3> QED
      BY <1>1, <1>8, <1>9, <3>1
  <2> DEFINE o == getBlockOrder(b)
  <2>3. o \in Orders /\ Full(b) = BlockSizeByOrder(o)
    BY BlockFacts DEF HeapInv
  <2> HIDE DEF o
  <2>4. b \in Listed(freeBlocksList[o])
    BY <2>2, <2>3 DEF HeapInv, ListsOK, FreeOf
  <2>5. freeBlocksList[o] # <<>>
    BY <2>4, EmptyList
  <2>6. ~(o >= q)
    BY <2>3, <2>5 DEF Available, q
  <2>7. o < q
    BY <1>3, <2>3, <2>6, OrdersAre
  <2> QED
    BY <1>3, <2>2, <2>3, <2>7, SizesOrdered DEF s
<1>10. PICK b \in blocks : FreePair(b)
  BY <1>3, <1>8, <1>9, StretchHasPair DEF HeapInv, s
<1> QED
  BY <1>10 DEF HeapInv, PairsOK, InWork
-----------------------------------------------------------------------------
(* Steps that leave the blocks as they are *)

LEMMA PointersAre ==
    /\ NULL \notin Pointers /\ Mappings \subseteq Pointers /\ Addrs \subseteq Pointers
    /\ Addrs \cap Mappings = {} /\ \A x \in Mappings : x \notin Nat
  BY AllocatorConstants, AddrsAre DEF Pointers

LEMMA NoFreePairs ==
    ASSUME HeapInv, call.pc \notin {"merge", "split"}
    PROVE  \A a \in blocks : ~FreePair(a)
  BY DEF HeapInv, PairsOK, InWork

\* The heap is its blocks and their sizes.
LEMMA HeapSame ==
    ASSUME HeapOK, blocks' = blocks, initialized' = initialized, \A b \in blocks : size'[b] = size[b]
    PROVE  HeapOK'
<1>1. BlocksAligned'
  BY DEF HeapOK, BlocksAligned, Full
<1>2. BlocksDisjoint'
  BY DEF HeapOK, BlocksDisjoint, Covers
<1>3. BlocksCover'
  <2>1. ASSUME initialized, NEW u \in 0 .. HeapEnd - 1
        PROVE  \E b \in blocks' : Covers(b, u)'
    <3>1. PICK b \in blocks : Covers(b, u)
      BY <2>1 DEF HeapOK, BlocksCover
    <3> QED
      BY <3>1 DEF Covers
  <2> QED
    BY <2>1 DEF HeapOK, BlocksCover, HeapEnd
<1> QED
  BY <1>1, <1>2, <1>3 DEF HeapOK

LEMMA ListsSame ==
    ASSUME ListsOK, blocks' = blocks, freeBlocksList' = freeBlocksList,
           \A b \in blocks : size'[b] = size[b] /\ is_free'[b] = is_free[b]
    PROVE  ListsOK'
<1>1. \A o \in Orders : FreeOf(o)' = FreeOf(o)
  BY DEF FreeOf, Full
<1> QED
  BY <1>1 DEF ListsOK, Listed, Ascending

\* A step that frees no block makes no pair of free buddies.
LEMMA PairsSame ==
    ASSUME HeapTypes, HeapOK, blocks' = blocks,
           \A b \in blocks : size'[b] = size[b] /\ (is_free'[b] => is_free[b])
    PROVE  \A a \in blocks : FreePair(a)' => FreePair(a) /\ findBuddy(a)' = findBuddy(a)
<1> SUFFICES ASSUME NEW a \in blocks, FreePair(a)'
             PROVE  FreePair(a) /\ findBuddy(a)' = findBuddy(a)
  OBVIOUS
<1>1. size'[a] = size[a] /\ findBuddy(a)' = findBuddy(a) /\ Full(a)' = Full(a)
  BY DEF findBuddy, Full, Flip
<1>2. Full(a) < BlockSize
  BY <1>1 DEF FreePair
<1>3. findBuddy(a) \in blocks
  BY <1>2, BuddyIsBlock
<1>4. is_free'[a] /\ is_free'[findBuddy(a)] /\ size'[findBuddy(a)] = size'[a]
  BY <1>1 DEF FreePair
<1> QED
  BY <1>1, <1>2, <1>3, <1>4 DEF FreePair

\* A call starts, or goes on to its next step, or returns, and touches nothing.
LEMMA QuietStep ==
    ASSUME HeapInv, UNCHANGED <<heapVars, mapped, initialized, live>>,
           call.pc \in {"idle", "alloc", "place"},
           call' \in Calls, call'.pc \in {"idle", "alloc", "place", "split"},
           call'.old \in Held \cup {NULL}, call'.pc = "idle" => call'.old = NULL,
           call'.pc = "split" => SplitOK'
    PROVE  HeapInv'
<1> USE DEF heapVars
<1>1. HeapTypes'
  BY DEF HeapInv, HeapTypes
<1>2. HeapOK'
  BY HeapSame DEF HeapInv
<1>3. ListsOK'
  BY ListsSame DEF HeapInv
<1>4. PairsOK'
  BY NoFreePairs, PairsSame DEF HeapInv, PairsOK
<1>5. Held' = Held /\ Used' = Used
  BY DEF Held, Used
<1>6. Held = Used /\ ~Growing' /\ ~Growing
  BY DEF HeapInv, HeldOK, Growing
<1>7. HeldOK'
  BY <1>5, <1>6 DEF HeapInv, HeldOK
<1>8. CallOK'
  BY <1>5 DEF CallOK
<1> QED
  BY <1>1, <1>2, <1>3, <1>4, <1>7, <1>8 DEF HeapInv

LEMMA SmallocStep ==
    ASSUME HeapInv, NEW n \in Nat, call.pc = "idle", call' = [Idle EXCEPT !.pc = "alloc", !.n = n],
           UNCHANGED <<heapVars, mapped, initialized, live>>
    PROVE  HeapInv'
<1>1. 0 \in Orders
  BY OrdersAre
<1>2. call' \in Calls /\ call'.pc = "alloc" /\ call'.old = NULL
  BY <1>1 DEF Idle, Calls, Places
<1> QED
  BY <1>2, QuietStep

LEMMA CallTypes ==
    ASSUME HeapInv
    PROVE  /\ call.pc \in Places /\ call.n \in Nat /\ call.old \in Pointers \cup {NULL}
           /\ call.target \in Orders /\ call.cur \in Pointers \cup Orders \cup {NULL}
           /\ call.guess \in BOOLEAN /\ Idle \in Calls
<1>1. 0 \in Orders
  BY OrdersAre
<1> QED
  BY <1>1 DEF HeapInv, HeapTypes, Calls, Idle, Places

LEMMA PlaceStep ==
    ASSUME HeapInv, call.pc = "alloc", call' = [call EXCEPT !.pc = "place"],
           UNCHANGED <<heapVars, mapped, initialized, live>>
    PROVE  HeapInv'
<1>1. call' \in Calls /\ call'.pc = "place" /\ call'.old = call.old
  BY DEF HeapInv, HeapTypes, Calls, Places
<1>2. call.old \in Held \cup {NULL}
  BY DEF HeapInv, CallOK
<1> QED
  BY <1>1, <1>2, QuietStep

LEMMA ReturnStep ==
    ASSUME HeapInv, call.pc \in {"alloc", "place"}, ReturnNULL,
           UNCHANGED <<heapVars, mapped, initialized>>
    PROVE  HeapInv'
<1>1. call' \in Calls /\ call'.pc = "idle" /\ call'.old = NULL
  BY CallTypes DEF ReturnNULL, Idle
<1>2. UNCHANGED live
  BY DEF ReturnNULL
<1> QED
  BY <1>1, <1>2, QuietStep

LEMMA FindOrderStep == HeapInv /\ FindOrder => HeapInv'
<1> SUFFICES ASSUME HeapInv, FindOrder PROVE HeapInv'
  OBVIOUS
<1> USE DEF FindOrder
<1>1. CASE ReturnNULL
  BY <1>1, ReturnStep
<1>2. CASE /\ Available(call.n) # {}
           /\ call' = [call EXCEPT !.pc = "split", !.cur = Min(Available(call.n))]
           /\ UNCHANGED live
  <2> DEFINE A == Available(call.n)
             m == Min(A)
  <2>1. A \in SUBSET Nat /\ A # {}
    BY <1>2, OrdersAre DEF Available
  <2>2. m \in A /\ \A k \in A : m <= k
    <3> HIDE DEF A
    <3>1. \E x \in A : \A k \in A : x <= k
      BY <2>1, LeastNatural
    <3> QED
      BY <3>1 DEF Min
  <2>3. m \in Orders /\ m \in Nat /\ m >= getRequiredOrder(call.n) /\ freeBlocksList[m] # <<>>
    BY <2>1, <2>2 DEF Available
  <2>4. call.n \in Nat /\ call.n + 1 <= BlockSize
    BY CallTypes, BlockSizeIs DEF Large
  <2>5. getRequiredOrder(call.n) \in Orders
    BY <2>4, RequiredOrder
  <2>6. ASSUME NEW o \in Orders, getRequiredOrder(call.n) <= o, o < m
        PROVE  freeBlocksList[o] = <<>>
    <3>1. o \notin A
      BY <2>2, <2>3, <2>6, OrdersAre
    <3> QED
      BY <2>5, <2>6, <3>1, OrdersAre DEF Available
  <2> HIDE DEF m
  <2>7. call' = [call EXCEPT !.pc = "split", !.cur = m]
    BY <1>2 DEF m
  <2>8. /\ call' \in Calls /\ call'.pc = "split" /\ call'.cur = m /\ call'.n = call.n
        /\ call'.old = call.old
    BY <2>3, <2>7 DEF HeapInv, HeapTypes, Calls, Places
  <2>9. freeBlocksList' = freeBlocksList
    BY DEF heapVars
  <2>10. SplitOK'
    BY <2>3, <2>5, <2>6, <2>8, <2>9, OrdersAre DEF SplitOK, getRequiredOrder, OutOfRange, Large
  <2>11. call.old \in Held \cup {NULL}
    BY DEF HeapInv, CallOK
  <2> QED
    BY <1>2, <2>8, <2>10, <2>11, QuietStep
<1> QED
  BY <1>1, <1>2
-----------------------------------------------------------------------------
(* What the program holds *)

LEMMA UsedPointers ==
    ASSUME HeapTypes
    PROVE  Used \subseteq Pointers /\ Held \subseteq Pointers /\ NULL \notin Used /\ NULL \notin Held
<1>1. Used \subseteq Pointers
  BY PointersAre DEF HeapTypes, Used
<1>2. Held \subseteq Pointers
  BY DEF HeapTypes, Held
<1> QED
  BY <1>1, <1>2, PointersAre

\* The pointer in use that srealloc replaces is held once.
LEMMA HeldWithout ==
    ASSUME NEW L, NEW p
    PROVE  {r.p : r \in {s \in L : s.p # p}} = {r.p : r \in L} \ {p}
  OBVIOUS

\* smalloc hands out a pointer that was not in use.
LEMMA Delivered ==
    ASSUME HeapInv, call.pc \in {"place", "split"}, NEW p \in Pointers, p \notin Used, Deliver(p),
           Used' = Used \cup {p}, size'[p] >= call.n, \A q \in Used : size'[q] = size[q],
           \A m \in mapped' : ~is_free'[m] /\ size'[m] + 1 > BlockSize
    PROVE  /\ call' \in Calls /\ live' \in SUBSET [p : Pointers, n : Nat, guess : BOOLEAN] /\ call'.pc \in {"idle", "free"}
           /\ HeldOK' /\ CallOK'
<1> DEFINE new == Pointer(p, call.n)
           kept == {r \in live : r.p # call.old}
<1>1. Held = Used /\ call.old \in Held \cup {NULL} /\ \A r, s \in live : r.p = s.p => r = s
  BY DEF HeapInv, HeldOK, CallOK, Growing
<1>2. live \in SUBSET [p : Pointers, n : Nat, guess : BOOLEAN] /\ new \in [p : Pointers, n : Nat, guess : BOOLEAN] /\ new.p = p /\ new.n = call.n
  BY CallTypes DEF HeapInv, HeapTypes, Pointer
<1>3. NULL \notin Held
  BY UsedPointers DEF HeapInv
<1>4. \A r \in live : r.p \in Used /\ (r.guess \/ size[r.p] >= r.n)
  BY <1>1 DEF HeapInv, HeldOK, Growing, Held
<1>5. \A r \in live : r.p # p /\ (r.guess \/ size'[r.p] >= r.n)
  BY <1>4
<1>6. CASE call.old = NULL
  <2>1. call' = Idle /\ live' = live \cup {new}
    BY <1>6 DEF Deliver
  <2>2. call' \in Calls /\ call'.pc = "idle" /\ call'.old = NULL
    BY <2>1, CallTypes DEF Idle
  <2>3. live' \in SUBSET [p : Pointers, n : Nat, guess : BOOLEAN]
    BY <1>2, <2>1
  <2> HIDE DEF new
  <2>4. Held' = Held \cup {p}
    BY <1>2, <2>1 DEF Held
  <2>5. \A r, s \in live' : r.p = s.p => r = s
    BY <1>1, <1>2, <1>5, <2>1
  <2>6. \A r \in live' : (r.guess \/ size'[r.p] >= r.n)
    BY <1>2, <1>5, <2>1
  <2>7. HeldOK'
    BY <1>1, <2>2, <2>4, <2>5, <2>6 DEF HeldOK, Growing
  <2>8. CallOK'
    BY <2>2 DEF CallOK
  <2> QED
    BY <2>2, <2>3, <2>7, <2>8
<1>7. CASE call.old # NULL
  <2>1. call' = [Idle EXCEPT !.pc = "free", !.cur = call.old] /\ live' = kept \cup {new}
    BY <1>7 DEF Deliver
  <2>2. call' \in Calls /\ call'.pc = "free" /\ call'.old = NULL /\ call'.cur = call.old
    <3>1. 0 \in Orders
      BY OrdersAre
    <3> QED
      BY <2>1, <3>1, CallTypes DEF Idle, Calls, Places
  <2>3. live' \in SUBSET [p : Pointers, n : Nat, guess : BOOLEAN]
    BY <1>2, <2>1
  <2>4. {r.p : r \in kept} = Held \ {call.old} /\ kept \subseteq live
    BY HeldWithout DEF Held
  <2> HIDE DEF new, kept
  <2>5. Held' = (Held \ {call.old}) \cup {p}
    BY <1>2, <2>1, <2>4 DEF Held
  <2>6. \A r, s \in live' : r.p = s.p => r = s
    BY <1>1, <1>2, <1>5, <2>1, <2>4
  <2>7. \A r \in live' : (r.guess \/ size'[r.p] >= r.n)
    BY <1>2, <1>5, <2>1, <2>4
  <2>8. call.old \in Held /\ call.old # p
    BY <1>1, <1>7
  <2>9. HeldOK'
    BY <1>1, <2>2, <2>5, <2>6, <2>7, <2>8 DEF HeldOK, Growing
  <2>10. CallOK'
    BY <2>2 DEF CallOK
  <2> QED
    BY <2>2, <2>3, <2>9, <2>10
<1> QED
  BY <1>6, <1>7

\* The program gives a pointer up.
LEMMA SfreeStep ==
    ASSUME HeapInv, NEW p \in Pointers, sfree(p)
    PROVE  HeapInv'
<1> USE DEF sfree, heapVars
<1>1. PICK r \in live : r.p = p /\ live' = live \ {r}
  OBVIOUS
<1>2. Held = Used /\ \A s, t \in live : s.p = t.p => s = t
  BY DEF HeapInv, HeldOK, Growing
<1>3. call' \in Calls /\ call'.pc = "free" /\ call'.old = NULL /\ call'.cur = p
  <2>1. 0 \in Orders
    BY OrdersAre
  <2> QED
    BY <2>1 DEF Idle, Calls, Places
<1>4. HeapTypes'
  BY <1>1, <1>3 DEF HeapInv, HeapTypes
<1>5. HeapOK' /\ ListsOK'
  BY HeapSame, ListsSame DEF HeapInv
<1>6. PairsOK'
  BY NoFreePairs, PairsSame DEF HeapInv, PairsOK
<1>7. p \in Held /\ Held' = Held \ {p}
  BY <1>1, <1>2 DEF Held
<1>8. Used' = Used
  BY DEF Used
<1>9. \A s \in live : (s.guess \/ size[s.p] >= s.n)
  BY DEF HeapInv, HeldOK, Growing
<1>10. HeldOK'
  BY <1>1, <1>2, <1>3, <1>7, <1>8, <1>9 DEF HeapInv, HeldOK, Growing
<1>11. CallOK'
  BY <1>3 DEF CallOK
<1> QED
  BY <1>4, <1>5, <1>6, <1>10, <1>11 DEF HeapInv

\* Only a mapping is larger than the largest block.
LEMMA FreeMappingStep == HeapInv /\ FreeMapping => HeapInv'
<1> SUFFICES ASSUME HeapInv, FreeMapping PROVE HeapInv'
  OBVIOUS
<1> USE DEF FreeMapping, heapVars
<1> DEFINE p == call.cur
<1>1. p \notin Held /\ Held \cup {p} = Used
  BY DEF HeapInv, HeldOK
<1>2. p \notin blocks
  <2> SUFFICES ASSUME p \in blocks PROVE FALSE
    OBVIOUS
  <2>1. Full(p) \in Nat /\ Full(p) <= BlockSize /\ Full(p) = size[p] + 1
    BY BlockFacts DEF HeapInv, Full
  <2> QED
    BY <2>1, BlockSizeIs
<1>3. call' \in Calls /\ call'.pc = "idle" /\ call'.old = NULL
  BY CallTypes DEF Idle
<1>4. HeapTypes'
  BY <1>3 DEF HeapInv, HeapTypes
<1>5. HeapOK' /\ ListsOK'
  BY HeapSame, ListsSame DEF HeapInv
<1>6. PairsOK'
  BY NoFreePairs, PairsSame DEF HeapInv, PairsOK
<1>7. Used' = Used \ {p} /\ Held' = Held
  BY <1>2 DEF Used, Held
<1>8. HeldOK'
  BY <1>1, <1>3, <1>7 DEF HeapInv, HeldOK, Growing
<1>9. CallOK'
  BY <1>3 DEF CallOK
<1> QED
  BY <1>4, <1>5, <1>6, <1>8, <1>9 DEF HeapInv

LEMMA MapLargeStep == HeapInv /\ MapLarge => HeapInv'
<1> SUFFICES ASSUME HeapInv, MapLarge PROVE HeapInv'
  OBVIOUS
<1> USE DEF MapLarge
<1>1. CASE ReturnNULL /\ UNCHANGED <<size, is_free, mapped, statVars>>
  BY <1>1, ReturnStep DEF heapVars
<1>2. CASE \E m \in Mappings \ (mapped \cup leaked) :
             /\ size' = [size EXCEPT ![m] = call.n]
             /\ is_free' = [is_free EXCEPT ![m] = FALSE]
             /\ mapped' = mapped \cup {m}
             /\ Deliver(m)
  <2>1. PICK m \in Mappings \ (mapped \cup leaked) :
             /\ size' = [size EXCEPT ![m] = call.n]
             /\ is_free' = [is_free EXCEPT ![m] = FALSE]
             /\ mapped' = mapped \cup {m}
             /\ Deliver(m)
    BY <1>2
  <2>2. m \in Pointers /\ m \notin Addrs /\ m \notin blocks /\ call.n \in Nat
    BY PointersAre, CallTypes DEF HeapInv, HeapTypes
  <2>3. /\ size' \in [Pointers -> Nat] /\ is_free' \in [Pointers -> BOOLEAN]
        /\ size'[m] = call.n /\ is_free'[m] = FALSE
        /\ \A p \in Pointers : p # m => size'[p] = size[p] /\ is_free'[p] = is_free[p]
    BY <2>1, <2>2 DEF HeapInv, HeapTypes
  <2>4. blocks \subseteq Pointers /\ mapped \subseteq Pointers
    BY PointersAre DEF HeapInv, HeapTypes
  <2>5. \A b \in blocks : size'[b] = size[b] /\ is_free'[b] = is_free[b]
    BY <2>2, <2>3, <2>4
  <2>6. \A q \in mapped : size'[q] = size[q] /\ is_free'[q] = is_free[q]
    BY <2>3, <2>4
  <2>7. m \notin Used /\ Used' = Used \cup {m}
    BY <2>1, <2>2, <2>5 DEF Used
  <2>8. \A q \in Used : size'[q] = size[q]
    BY <2>5, <2>6 DEF Used
  <2>9. \A q \in mapped' : ~is_free'[q] /\ size'[q] + 1 > BlockSize
    BY <2>1, <2>3, <2>6 DEF HeapInv, HeldOK, Large
  <2>10. size'[m] >= call.n
    BY <2>2, <2>3
  <2>11. /\ call' \in Calls /\ live' \in SUBSET [p : Pointers, n : Nat, guess : BOOLEAN] /\ call'.pc \in {"idle", "free"}
         /\ HeldOK' /\ CallOK'
    BY <2>1, <2>2, <2>7, <2>8, <2>9, <2>10, Delivered
  <2>12. HeapTypes'
    BY <2>1, <2>3, <2>11 DEF HeapInv, HeapTypes
  <2>13. HeapOK' /\ ListsOK'
    BY <2>5, HeapSame, ListsSame DEF HeapInv
  <2>14. PairsOK'
    BY <2>5, NoFreePairs, PairsSame DEF HeapInv, PairsOK
  <2> QED
    BY <2>11, <2>12, <2>13, <2>14 DEF HeapInv
<1> QED
  BY <1>1, <1>2
-----------------------------------------------------------------------------
(* Steps that free a block or take one *)

\* A block is marked as in use and unlinked.
LEMMA ListTaken ==
    ASSUME HeapTypes, HeapOK, ListsOK, NEW b \in blocks, NEW o \in Orders, Full(b) = BlockSizeByOrder(o),
           NEW w \in Seq(Addrs), Ascending(w), Listed(w) = Listed(freeBlocksList[o]) \ {b},
           is_free' = [is_free EXCEPT ![b] = FALSE], UNCHANGED <<size, blocks>>,
           freeBlocksList' = [freeBlocksList EXCEPT ![o] = w]
    PROVE  /\ ListsOK' /\ freeBlocksList' \in [Orders -> Seq(Addrs)] /\ is_free' \in [Pointers -> BOOLEAN]
           /\ ~is_free'[b] /\ \A p \in Pointers : p # b => is_free'[p] = is_free[p]
<1>1. b \in Pointers /\ blocks \subseteq Pointers
  BY BlockFacts
<1>2. /\ is_free' \in [Pointers -> BOOLEAN] /\ ~is_free'[b]
      /\ \A p \in Pointers : p # b => is_free'[p] = is_free[p]
  BY <1>1 DEF HeapTypes
<1>3. /\ freeBlocksList' \in [Orders -> Seq(Addrs)] /\ freeBlocksList'[o] = w
      /\ \A q \in Orders : q # o => freeBlocksList'[q] = freeBlocksList[q]
  BY DEF HeapTypes
<1>4. FreeOf(o)' = FreeOf(o) \ {b}
  BY <1>1, <1>2 DEF FreeOf, Full
<1>5. ASSUME NEW q \in Orders, q # o
      PROVE  FreeOf(q)' = FreeOf(q)
  <2>1. Full(b) # BlockSizeByOrder(q)
    BY <1>5, SizesOrdered
  <2> QED
    BY <1>1, <1>2, <2>1 DEF FreeOf, Full
<1>6. ASSUME NEW q \in Orders
      PROVE  Ascending(freeBlocksList[q])' /\ Listed(freeBlocksList[q])' = FreeOf(q)'
  <2>1. CASE q = o
    <3>1. Listed(w) = FreeOf(o)'
      BY <1>4 DEF ListsOK
    <3> QED
      BY <1>3, <2>1, <3>1 DEF Ascending, Listed
  <2>2. CASE q # o
    BY <1>3, <1>5, <2>2 DEF ListsOK, Ascending, Listed
  <2> QED
    BY <2>1, <2>2
<1> QED
  BY <1>2, <1>3, <1>6 DEF ListsOK

\* A block in use is marked as free and linked.
LEMMA ListFreed ==
    ASSUME HeapTypes, HeapOK, ListsOK, NEW b \in blocks, ~is_free[b],
           is_free' = [is_free EXCEPT ![b] = TRUE], UNCHANGED <<size, blocks>>,
           freeBlocksList' = [freeBlocksList EXCEPT ![getBlockOrder(b)] = insertBlock(@, b)]
    PROVE  /\ ListsOK' /\ freeBlocksList' \in [Orders -> Seq(Addrs)] /\ is_free' \in [Pointers -> BOOLEAN]
           /\ is_free'[b] /\ \A p \in Pointers : p # b => is_free'[p] = is_free[p]
<1>0. PICK o \in Orders : o = getBlockOrder(b)
  BY BlockFacts
<1> DEFINE w == insertBlock(freeBlocksList[o], b)
<1>1. b \in Addrs /\ b \in Pointers /\ blocks \subseteq Pointers /\ o \in Orders /\ Full(b) = BlockSizeByOrder(o)
  BY <1>0, BlockFacts
<1>2. /\ is_free' \in [Pointers -> BOOLEAN] /\ is_free'[b]
      /\ \A p \in Pointers : p # b => is_free'[p] = is_free[p]
  BY <1>1 DEF HeapTypes
<1>3. freeBlocksList[o] \in Seq(Addrs) /\ Ascending(freeBlocksList[o]) /\ Listed(freeBlocksList[o]) = FreeOf(o)
  BY <1>1 DEF HeapTypes, ListsOK
<1>4. w \in Seq(Addrs) /\ Ascending(w) /\ Listed(w) = FreeOf(o) \cup {b}
  <2>1. b \notin FreeOf(o)
    BY DEF FreeOf
  <2> QED
    BY <1>1, <1>3, <2>1, Inserted
<1>5. freeBlocksList' = [freeBlocksList EXCEPT ![o] = w]
  BY <1>0
<1> HIDE DEF w
<1>6. /\ freeBlocksList' \in [Orders -> Seq(Addrs)] /\ freeBlocksList'[o] = w
      /\ \A q \in Orders : q # o => freeBlocksList'[q] = freeBlocksList[q]
  BY <1>1, <1>4, <1>5 DEF HeapTypes
<1>7. FreeOf(o)' = FreeOf(o) \cup {b}
  <2>1. FreeOf(o)' = {c \in blocks : is_free'[c] /\ size[c] + 1 = BlockSizeByOrder(o)}
    BY DEF FreeOf, Full
  <2>2. FreeOf(o) = {c \in blocks : is_free[c] /\ size[c] + 1 = BlockSizeByOrder(o)}
    BY DEF FreeOf, Full
  <2>3. size[b] + 1 = BlockSizeByOrder(o)
    BY <1>1 DEF Full
  <2> QED
    BY <1>1, <1>2, <2>1, <2>2, <2>3
<1>8. ASSUME NEW q \in Orders, q # o
      PROVE  FreeOf(q)' = FreeOf(q)
  <2>1. Full(b) # BlockSizeByOrder(q)
    BY <1>1, <1>8, SizesOrdered
  <2> QED
    BY <1>1, <1>2, <2>1 DEF FreeOf, Full
<1>9. ASSUME NEW q \in Orders
      PROVE  Ascending(freeBlocksList[q])' /\ Listed(freeBlocksList[q])' = FreeOf(q)'
  <2>1. CASE q = o
    BY <1>4, <1>6, <1>7, <2>1 DEF Ascending, Listed
  <2>2. CASE q # o
    BY <1>6, <1>8, <2>2 DEF ListsOK, Ascending, Listed
  <2> QED
    BY <2>1, <2>2
<1> QED
  BY <1>2, <1>6, <1>9 DEF ListsOK

\* splitBlockBuddy ends at the order the request needs.
LEMMA SplitEnds ==
    ASSUME HeapInv, call.pc = "split"
    PROVE  LET o == call.cur
               b == Head(freeBlocksList[o])
           IN  /\ o \in Orders /\ freeBlocksList[o] \in Seq(Addrs) /\ freeBlocksList[o] # <<>>
               /\ b \in blocks /\ is_free[b] /\ Full(b) = BlockSizeByOrder(o)
               /\ call.n \in Nat /\ getRequiredOrder(call.n) \in Orders
               /\ BlockSizeByOrder(getRequiredOrder(call.n)) >= call.n + 1
               /\ HalfSuffices => o > getRequiredOrder(call.n)
               /\ ~HalfSuffices => o = getRequiredOrder(call.n)
<1> DEFINE o == call.cur
           list == freeBlocksList[o]
           b == Head(list)
           q == getRequiredOrder(call.n)
<1>1. o \in Orders /\ list # <<>> /\ q <= o /\ ~Large(call.n) /\ call.n \in Nat
  BY CallTypes DEF HeapInv, CallOK, SplitOK
<1>2. list \in Seq(Addrs) /\ Ascending(list) /\ Listed(list) = FreeOf(o)
  BY <1>1 DEF HeapInv, HeapTypes, ListsOK
<1>3. b \in FreeOf(o)
  BY <1>1, <1>2, RemovedFirst
<1>4. b \in blocks /\ is_free[b] /\ Full(b) = BlockSizeByOrder(o) /\ size[b] + 1 = BlockSizeByOrder(o)
  BY <1>3 DEF FreeOf, Full
<1>5. call.n + 1 <= BlockSize
  BY <1>1, BlockSizeIs DEF Large
<1>6. q \in Orders /\ BlockSizeByOrder(q) >= call.n + 1 /\ \A k \in Orders : BlockSizeByOrder(k) >= call.n + 1 => q <= k
  BY <1>1, <1>5, RequiredOrder
<1>7. HalfSuffices <=> o > 0 /\ BlockSizeByOrder(o) \div 2 - 1 >= call.n
  BY <1>4 DEF HalfSuffices
<1> HIDE DEF o, list, b, q
<1>8. ASSUME o > 0
      PROVE  BlockSizeByOrder(o) \div 2 - 1 >= call.n <=> q <= o - 1
  <2> DEFINE B == BlockSizeByOrder(o - 1)
  <2>1. o \in Nat /\ q \in Nat /\ o - 1 \in Orders /\ BlockSizeByOrder(o) = 2 * B /\ B \in Nat
    BY <1>1, <1>6, <1>8, OrdersAre, OrderSizes
  <2> HIDE DEF B
  <2>2. BlockSizeByOrder(o) \div 2 = B
    BY <2>1
  <2>3. B - 1 >= call.n <=> B >= call.n + 1
    BY <1>1, <2>1
  <2>4. B >= call.n + 1 => q <= o - 1
    BY <1>6, <2>1 DEF B
  <2>5. q <= o - 1 => BlockSizeByOrder(q) <= B
    BY <1>6, <2>1, SizesOrdered DEF B
  <2>6. q <= o - 1 => B >= call.n + 1
    <3>1. BlockSizeByOrder(q) \in Nat
      BY <1>6, OrderSizes
    <3> QED
      BY <1>1, <1>6, <2>1, <2>5, <3>1
  <2> QED
    BY <2>2, <2>3, <2>4, <2>6
<1>9. HalfSuffices => o > q
  BY <1>1, <1>6, <1>7, <1>8, OrdersAre
<1>10. ~HalfSuffices => o = q
  <2> SUFFICES ASSUME ~HalfSuffices PROVE o = q
    OBVIOUS
  <2>1. o \in Nat /\ q \in Nat
    BY <1>1, <1>6, OrdersAre
  <2>2. CASE o > 0
    BY <1>1, <1>7, <1>8, <2>1, <2>2
  <2>3. CASE o = 0
    BY <1>1, <2>1, <2>3
  <2> QED
    BY <2>1, <2>2, <2>3
<1> QED
  BY <1>1, <1>2, <1>4, <1>6, <1>9, <1>10 DEF o, list, b, q

LEMMA TakeBlockStep == HeapInv /\ TakeBlock => HeapInv'
<1> SUFFICES ASSUME HeapInv, TakeBlock PROVE HeapInv'
  OBVIOUS
<1> DEFINE o == call.cur
           b == Head(freeBlocksList[o])
<1>1. /\ call.pc = "split" /\ ~HalfSuffices /\ UNCHANGED <<size, blocks, mapped, initialized>>
      /\ o = getRequiredOrder(call.n)
  <2>1. call.pc = "split" /\ ~HalfSuffices /\ UNCHANGED <<size, blocks, mapped, initialized>>
    BY DEF TakeBlock
  <2> QED
    BY <2>1, SplitEnds
<1>2. /\ freeBlocksList' = [freeBlocksList EXCEPT ![o] = Tail(freeBlocksList[o])]
      /\ is_free' = [is_free EXCEPT ![b] = FALSE] /\ Deliver(b)
  BY <1>1 DEF TakeBlock
<1>3. /\ o \in Orders /\ freeBlocksList[o] \in Seq(Addrs) /\ freeBlocksList[o] # <<>>
      /\ b \in blocks /\ is_free[b] /\ Full(b) = BlockSizeByOrder(o) /\ call.n \in Nat
      /\ BlockSizeByOrder(o) >= call.n + 1
  BY <1>1, SplitEnds
<1> DEFINE w == Tail(freeBlocksList[o])
<1>4. w \in Seq(Addrs) /\ Ascending(w) /\ Listed(w) = Listed(freeBlocksList[o]) \ {b}
  <2>1. Ascending(freeBlocksList[o])
    BY <1>3 DEF HeapInv, ListsOK
  <2> QED
    BY <1>3, <2>1, RemovedFirst
<1> HIDE DEF o, b, w
<1>5. /\ ListsOK' /\ freeBlocksList' \in [Orders -> Seq(Addrs)] /\ is_free' \in [Pointers -> BOOLEAN]
      /\ ~is_free'[b] /\ \A p \in Pointers : p # b => is_free'[p] = is_free[p]
  BY <1>1, <1>2, <1>3, <1>4, ListTaken DEF HeapInv, w
<1>6. b \in Pointers /\ b \in Addrs /\ blocks \subseteq Pointers /\ mapped \subseteq Pointers /\ b \notin mapped
      /\ size[b] \in Nat
  BY <1>3, BlockFacts, PointersAre DEF HeapInv, HeapTypes
<1>7. b \notin Used /\ Used' = Used \cup {b}
  BY <1>1, <1>3, <1>5, <1>6 DEF Used
<1>8. size'[b] >= call.n
  BY <1>1, <1>3, <1>6 DEF Full
<1>9. \A m \in mapped' : ~is_free'[m] /\ size'[m] + 1 > BlockSize
  BY <1>1, <1>5, <1>6 DEF HeapInv, HeldOK
<1>10. /\ call' \in Calls /\ live' \in SUBSET [p : Pointers, n : Nat, guess : BOOLEAN] /\ call'.pc \in {"idle", "free"}
       /\ HeldOK' /\ CallOK'
  BY <1>1, <1>2, <1>6, <1>7, <1>8, <1>9, Delivered
<1>11. HeapTypes'
  BY <1>1, <1>5, <1>10 DEF HeapInv, HeapTypes
<1>12. HeapOK'
  BY <1>1, HeapSame DEF HeapInv
<1>13. PairsOK'
  <2> SUFFICES ASSUME NEW a \in blocks, FreePair(a)'
               PROVE  FALSE
    BY <1>1 DEF PairsOK
  <2>1. FreePair(a) /\ findBuddy(a)' = findBuddy(a)
    BY <1>1, <1>5, <1>6, PairsSame DEF HeapInv
  <2>2. InWork(a) \/ InWork(findBuddy(a))
    BY <2>1 DEF HeapInv, PairsOK
  <2>3. a = b \/ findBuddy(a) = b
    BY <1>1, <2>2 DEF InWork, b, o
  <2> QED
    BY <1>5, <2>1, <2>3 DEF FreePair
<1> QED
  BY <1>5, <1>10, <1>11, <1>12, <1>13 DEF HeapInv
\* Freeing one block makes pairs only with that block.
LEMMA PairsFreed ==
    ASSUME HeapTypes, HeapOK, NEW b \in blocks, UNCHANGED <<size, blocks>>,
           \A p \in Pointers : p # b => is_free'[p] = is_free[p]
    PROVE  \A a \in blocks : FreePair(a)' => /\ findBuddy(a)' = findBuddy(a)
                                             /\ FreePair(a) \/ a = b \/ findBuddy(a) = b
<1> SUFFICES ASSUME NEW a \in blocks, FreePair(a)', a # b, findBuddy(a) # b
             PROVE  FreePair(a)
  BY DEF findBuddy, Flip
<1>1. findBuddy(a)' = findBuddy(a) /\ Full(a)' = Full(a)
  BY DEF findBuddy, Full, Flip
<1>2. Full(a) < BlockSize
  BY <1>1 DEF FreePair
<1>3. findBuddy(a) \in blocks /\ blocks \subseteq Pointers
  BY <1>2, BuddyIsBlock, BlockFacts
<1> QED
  BY <1>1, <1>2, <1>3 DEF FreePair

\* Buddies that are free and of one size are each other's.
LEMMA PairSymmetric ==
    ASSUME HeapTypes, HeapOK, NEW a \in blocks, FreePair(a)
    PROVE  findBuddy(a) \in blocks /\ FreePair(findBuddy(a)) /\ findBuddy(findBuddy(a)) = a
<1>1. findBuddy(a) \in blocks /\ findBuddy(findBuddy(a)) = a
  BY BuddyIsBlock DEF FreePair
<1> QED
  BY <1>1 DEF FreePair, Full

\* The loop of attemptFreeBuddyMerge merges whenever the block has a free buddy of its
\* size and not yet the size of the order it was given.
LEMMA PairIsMergeable ==
    ASSUME HeapInv, call.pc = "merge", FreePair(call.cur), BlockSizeByOrder(call.target) # Full(call.cur)
    PROVE  Mergeable
<1> DEFINE b == call.cur
           o == getBlockOrder(b)
<1>1. b \in blocks
  BY DEF HeapInv, CallOK
<1>2. o \in Orders /\ Full(b) = BlockSizeByOrder(o)
  BY <1>1, BlockFacts DEF HeapInv
<1>3. call.target # o
  BY <1>2
<1> QED
  BY <1>3 DEF Mergeable, FreePair

\* The block a call releases is linked, and its buddy is looked at next.
LEMMA FreeBlockStep == HeapInv /\ FreeBlock => HeapInv'
<1> SUFFICES ASSUME HeapInv, FreeBlock PROVE HeapInv'
  OBVIOUS
<1> USE DEF FreeBlock
<1>0. PICK b : b = call.cur
  OBVIOUS
<1>1. b \notin Held /\ Held \cup {b} = Used
  BY <1>0 DEF HeapInv, HeldOK
<1>2. b \in Pointers /\ size[b] \in Nat
  BY <1>1, UsedPointers DEF HeapInv, HeapTypes
<1>3. b \notin mapped /\ b \in blocks /\ ~is_free[b]
  <2>1. b \notin mapped
    BY <1>0, <1>2, BlockSizeIs DEF HeapInv, HeldOK
  <2> QED
    BY <1>1, <2>1 DEF Used
<1>4. /\ ListsOK' /\ freeBlocksList' \in [Orders -> Seq(Addrs)] /\ is_free' \in [Pointers -> BOOLEAN]
      /\ is_free'[b] /\ \A p \in Pointers : p # b => is_free'[p] = is_free[p]
  BY <1>0, <1>3, ListFreed DEF HeapInv
<1>5. call'.pc = "merge" /\ call'.cur = b /\ call'.old = NULL /\ call'.target = MaxOrder /\ call' \in Calls
  <2>1. call.old = NULL
    BY DEF HeapInv, CallOK
  <2> QED
    BY <1>0, <2>1, OrdersAre DEF HeapInv, HeapTypes, Calls, Places
<1>6. HeapTypes'
  BY <1>4, <1>5 DEF HeapInv, HeapTypes
<1>7. HeapOK'
  BY HeapSame DEF HeapInv
<1>8. PairsOK'
  <2> SUFFICES ASSUME NEW a \in blocks, FreePair(a)'
               PROVE  InWork(a)' \/ InWork(findBuddy(a))'
    BY DEF PairsOK
  <2>1. findBuddy(a)' = findBuddy(a) /\ (FreePair(a) \/ a = b \/ findBuddy(a) = b)
    BY <1>3, <1>4, PairsFreed DEF HeapInv
  <2>2. ~FreePair(a)
    BY NoFreePairs
  <2> QED
    BY <1>5, <2>1, <2>2 DEF InWork
<1>9. Held' = Held /\ Used' = Used \ {b}
  <2>1. blocks \subseteq Pointers
    BY BlockFacts DEF HeapInv
  <2> QED
    BY <1>3, <1>4, <2>1 DEF Held, Used
<1>10. \A m \in mapped : m \in Pointers /\ m # b
  BY <1>3, PointersAre DEF HeapInv, HeapTypes
<1>11. HeldOK'
  BY <1>1, <1>4, <1>5, <1>9, <1>10 DEF HeapInv, HeldOK, Growing
<1>12. CallOK'
  BY <1>3, <1>4, <1>5 DEF CallOK
<1> QED
  BY <1>4, <1>6, <1>7, <1>8, <1>11, <1>12 DEF HeapInv

LEMMA MergeDoneStep == HeapInv /\ MergeDone => HeapInv'
<1> SUFFICES ASSUME HeapInv, MergeDone PROVE HeapInv'
  OBVIOUS
<1>1. /\ call.pc = "merge" /\ ~Mergeable /\ UNCHANGED <<size, blocks, mapped, initialized>> /\ call' = Idle
  BY DEF MergeDone
<1>0. PICK b : b = call.cur
  OBVIOUS
<1>2. b \in blocks /\ is_free[b] /\ blocks \subseteq Pointers /\ b \in Addrs /\ b \notin mapped
  BY <1>0, <1>1, BlockFacts, PointersAre DEF HeapInv, CallOK, HeapTypes
<1>3. call' \in Calls /\ call'.pc = "idle" /\ call'.old = NULL
  BY <1>1, CallTypes DEF Idle
<1>4. HeapOK'
  BY <1>1, HeapSame DEF HeapInv
<1>5. CallOK'
  BY <1>3 DEF CallOK
<1>6. ASSUME NEW a \in blocks, FreePair(a)
      PROVE  FreePair(b) /\ (a = b \/ findBuddy(a) = b)
  BY <1>0, <1>1, <1>6, PairSymmetric DEF HeapInv, PairsOK, InWork
<1>7. CASE call.old = NULL
  <2>1. UNCHANGED <<is_free, freeBlocksList, live>>
    BY <1>7 DEF MergeDone
  <2>2. ~FreePair(b)
    <3> SUFFICES ASSUME FreePair(b) PROVE FALSE
      OBVIOUS
    <3>1. call.target = MaxOrder
      BY <1>1, <1>7 DEF HeapInv, CallOK
    <3>2. Full(b) < BlockSize /\ Full(b) \in Nat
      BY <1>2, BlockFacts DEF FreePair, HeapInv
    <3> QED
      BY <1>0, <1>1, <3>1, <3>2, BlockSizeIs, PairIsMergeable
  <2>3. PairsOK'
    BY <1>1, <1>6, <2>1, <2>2, PairsSame DEF HeapInv, PairsOK
  <2>4. ListsOK'
    BY <1>1, <2>1, ListsSame DEF HeapInv
  <2>5. HeapTypes'
    BY <1>1, <1>3, <2>1 DEF HeapInv, HeapTypes
  <2>6. Held' = Held /\ Used' = Used
    BY <1>1, <2>1 DEF Held, Used
  <2>7. HeldOK'
    BY <1>1, <1>3, <1>7, <2>1, <2>6 DEF HeapInv, HeldOK, Growing
  <2> QED
    BY <1>4, <1>5, <2>3, <2>4, <2>5, <2>7 DEF HeapInv
<1>8. CASE call.old # NULL
  <2> DEFINE new == [p |-> b, n |-> call.n, guess |-> call.guess]
             kept == {r \in live : r.p # call.old}
  <2>0. PICK o \in Orders : o = getBlockOrder(b)
    BY <1>2, BlockFacts DEF HeapInv
  <2>1. /\ is_free' = [is_free EXCEPT ![b] = FALSE]
        /\ freeBlocksList' = [freeBlocksList EXCEPT ![o] = removeBlock(@, b)]
        /\ live' = kept \cup {new}
    BY <1>0, <1>8, <2>0 DEF MergeDone
  <2>2. call.guess \/ size[b] >= call.n
    <3>1. GrowOK
      BY <1>1, <1>8 DEF HeapInv, CallOK
    <3>2. CASE FreePair(b) /\ BlockSizeByOrder(call.target) = 2 * Full(b)
      <4>1. Full(b) \in Nat \ {0}
        BY <1>2, BlockFacts DEF HeapInv
      <4>2. BlockSizeByOrder(call.target) # Full(b)
        BY <3>2, <4>1
      <4> QED
        BY <1>0, <1>1, <3>2, <4>2, PairIsMergeable
    <3> QED
      BY <1>0, <3>1, <3>2 DEF GrowOK
  <2> DEFINE w == removeBlock(freeBlocksList[o], b)
  <2>3. w \in Seq(Addrs) /\ Ascending(w) /\ Listed(w) = Listed(freeBlocksList[o]) \ {b}
    <3>1. freeBlocksList[o] \in Seq(Addrs) /\ Ascending(freeBlocksList[o])
      BY DEF HeapInv, HeapTypes, ListsOK
    <3> QED
      BY <3>1, Removed
  <2>4. freeBlocksList' = [freeBlocksList EXCEPT ![o] = w] /\ Full(b) = BlockSizeByOrder(o)
    BY <1>2, <2>0, <2>1, BlockFacts DEF HeapInv
  <2> HIDE DEF w
  <2>5. /\ ListsOK' /\ freeBlocksList' \in [Orders -> Seq(Addrs)] /\ is_free' \in [Pointers -> BOOLEAN]
        /\ ~is_free'[b] /\ \A p \in Pointers : p # b => is_free'[p] = is_free[p]
    BY <1>1, <1>2, <2>1, <2>3, <2>4, ListTaken DEF HeapInv
  <2>6. PairsOK'
    <3> SUFFICES ASSUME NEW a \in blocks, FreePair(a)'
                 PROVE  FALSE
      BY <1>1 DEF PairsOK
    <3>1. FreePair(a) /\ findBuddy(a)' = findBuddy(a)
      BY <1>1, <1>2, <2>5, PairsSame DEF HeapInv
    <3>2. a = b \/ findBuddy(a) = b
      BY <1>6, <3>1
    <3> QED
      BY <2>5, <3>1, <3>2 DEF FreePair
  <2>7. /\ new \in [p : Pointers, n : Nat, guess : BOOLEAN] /\ new.p = b /\ new.n = call.n
        /\ new.guess = call.guess /\ live \in SUBSET [p : Pointers, n : Nat, guess : BOOLEAN]
    BY <1>2, CallTypes DEF HeapInv, HeapTypes
  <2>8. HeapTypes'
    BY <1>1, <1>3, <2>1, <2>5, <2>7 DEF HeapInv, HeapTypes
  <2>9. call.old \in Held /\ Held \ {call.old} = Used /\ \A r, s \in live : r.p = s.p => r = s
    BY <1>1, <1>8 DEF HeapInv, HeldOK, Growing
  <2>10. {r.p : r \in kept} = Held \ {call.old} /\ kept \subseteq live /\ \A r \in kept : r.p \in Used
    BY <2>9, HeldWithout DEF Held
  <2>11. b \notin Used /\ Used' = Used \cup {b}
    <3>1. b \notin Used
      BY <1>2 DEF Used
    <3>2. \A m \in mapped : m \in Pointers
      BY PointersAre DEF HeapInv, HeapTypes
    <3> QED
      BY <1>1, <1>2, <2>5, <3>1, <3>2 DEF Used
  <2>12. \A r \in kept : (r.guess \/ size[r.p] >= r.n)
    <3>1. \A r \in live : r.p # call.old => (r.guess \/ size[r.p] >= r.n)
      BY DEF HeapInv, HeldOK
    <3> QED
      BY <3>1
  <2> HIDE DEF new, kept
  <2>13. Held' = Used'
    BY <2>1, <2>7, <2>9, <2>10, <2>11 DEF Held
  <2>14. \A r, s \in live' : r.p = s.p => r = s
    BY <2>1, <2>7, <2>9, <2>10, <2>11
  <2>15. \A r \in live' : (r.guess \/ size'[r.p] >= r.n)
    BY <1>1, <2>1, <2>2, <2>7, <2>12
  <2>16. \A m \in mapped' : ~is_free'[m] /\ size'[m] + 1 > BlockSize
    BY <1>1, <1>2, <2>5, PointersAre DEF HeapInv, HeapTypes, HeldOK
  <2>17. HeldOK'
    BY <1>3, <2>13, <2>14, <2>15, <2>16 DEF HeldOK, Growing
  <2> QED
    BY <1>4, <1>5, <2>5, <2>6, <2>8, <2>17 DEF HeapInv
<1> QED
  BY <1>7, <1>8
-----------------------------------------------------------------------------
(* srealloc and initHeap *)

\* What srealloc merges up to is the order that n needs: above that of the block, and the
\* next one when one merge suffices.
LEMMA MergedTarget ==
    ASSUME HeapTypes, HeapOK, NEW b \in blocks, NEW n \in Nat, size[b] < n, ~Large(n)
    PROVE  LET q == getRequiredOrder(FinalMergedSize(n) - 1) IN
           /\ q \in Orders /\ Full(b) <= BlockSizeByOrder(q)
           /\ MergedSize(b) >= n => BlockSizeByOrder(q) = 2 * Full(b)
<1> DEFINE o == getBlockOrder(b)
           g == getRequiredOrder(n)
           q == getRequiredOrder(FinalMergedSize(n) - 1)
           t == Full(b)
           s == BlockSizeByOrder(g)
<1>1. o \in Orders /\ t = BlockSizeByOrder(o) /\ t \in Nat \ {0} /\ size[b] \in Nat /\ t = size[b] + 1
  BY BlockFacts DEF Full
<1>2. n + 1 <= BlockSize /\ BlockSize \in Nat
  BY BlockSizeIs DEF Large
<1>3. /\ g \in Orders /\ s >= n + 1 /\ s \in Nat /\ s >= 4 /\ s <= BlockSize
      /\ \A k \in Orders : BlockSizeByOrder(k) >= n + 1 => g <= k
  <2>1. g \in Orders /\ s >= n + 1 /\ \A k \in Orders : BlockSizeByOrder(k) >= n + 1 => g <= k
    BY <1>2, RequiredOrder
  <2>2. s \in Nat /\ s >= 4
    BY <2>1, OrderSizes
  <2>3. s <= BlockSize
    BY <2>1, BlockSizeIs, SizesDivide, OrdersAre
  <2> QED
    BY <2>1, <2>2, <2>3
<1>4. FinalMergedSize(n) - 1 = s - 2
  BY <1>3 DEF FinalMergedSize
<1> HIDE DEF o, g, q, t, s
<1>5. s - 2 \in Nat /\ (s - 2) + 1 <= BlockSize /\ s >= (s - 2) + 1
  BY <1>2, <1>3
<1>6. q \in Orders /\ BlockSizeByOrder(q) >= (s - 2) + 1 /\ BlockSizeByOrder(q) \in Nat /\ q <= g
  <2>1. q \in Orders /\ BlockSizeByOrder(q) >= (s - 2) + 1 /\ q <= g
    BY <1>3, <1>4, <1>5, RequiredOrder DEF q, s
  <2> QED
    BY <2>1, OrderSizes
<1>7. q = g
  <2> SUFFICES ASSUME q < g PROVE FALSE
    BY <1>3, <1>6, OrdersAre
  <2>1. q < MaxOrder /\ q + 1 <= g /\ MaxOrder \in Nat /\ q \in Nat /\ g \in Nat
    BY <1>3, <1>6, OrdersAre
  <2>2. q + 1 \in Orders /\ BlockSizeByOrder(q + 1) = 2 * BlockSizeByOrder(q)
    BY <1>6, <2>1, SizesOrdered, OrdersAre
  <2>3. BlockSizeByOrder(q + 1) <= s
    BY <1>3, <2>1, <2>2, SizesDivide DEF s
  <2> QED
    BY <1>3, <1>6, <2>2, <2>3
<1>8. BlockSizeByOrder(q) = s
  BY <1>7 DEF s
<1>9. t < s
  BY <1>1, <1>3
<1>10. ASSUME MergedSize(b) >= n
       PROVE  s = 2 * t
  <2>1. 2 * t >= n + 1
    BY <1>1, <1>10 DEF MergedSize
  <2>2. t < BlockSize
    BY <1>1, <1>2, <1>3, <1>9
  <2>3. o < MaxOrder /\ MaxOrder \in Nat /\ o \in Nat /\ g \in Nat
    BY <1>1, <1>3, <2>2, BlockSizeIs, OrdersAre
  <2>4. o + 1 \in Orders /\ BlockSizeByOrder(o + 1) = 2 * t
    BY <1>1, <2>3, SizesOrdered, OrdersAre
  <2>5. g <= o + 1
    BY <1>3, <2>1, <2>4
  <2>6. ~(g <= o)
    <3> SUFFICES ASSUME g <= o PROVE FALSE
      OBVIOUS
    <3>1. s <= t
      BY <1>1, <1>3, SizesDivide DEF s
    <3> QED
      BY <1>1, <1>3, <1>9, <3>1
  <2>7. g = o + 1
    BY <2>3, <2>5, <2>6
  <2> QED
    BY <2>4, <2>7 DEF s
<1> QED
  BY <1>1, <1>3, <1>6, <1>8, <1>9, <1>10 DEF q, t

LEMMA SreallocStep ==
    ASSUME HeapInv, NEW p \in Pointers, NEW n \in Nat, srealloc(p, n)
    PROVE  HeapInv'
<1>1. call.pc = "idle" /\ p \in Held /\ UNCHANGED <<mapped, initialized>>
  BY DEF srealloc, Held
<1>2. Held = Used /\ (\A r, s \in live : r.p = s.p => r = s) /\ (\A r \in live : (r.guess \/ size[r.p] >= r.n))
  BY <1>1 DEF HeapInv, HeldOK, Growing
<1>3. size[p] \in Nat /\ NULL # p
  BY PointersAre DEF HeapInv, HeapTypes
<1>4. CASE /\ size[p] >= n
           /\ live' = {r \in live : r.p # p} \cup {Pointer(p, n)}
           /\ UNCHANGED <<heapVars, call>>
  <2> DEFINE new == Pointer(p, n)
             kept == {r \in live : r.p # p}
  <2>1. new \in [p : Pointers, n : Nat, guess : BOOLEAN] /\ new.p = p /\ new.n = n /\ live' = kept \cup {new}
    BY <1>4 DEF Pointer
  <2>2. {r.p : r \in kept} = Held \ {p} /\ kept \subseteq live /\ \A r \in kept : r.p # p
    BY HeldWithout DEF Held
  <2>3. UNCHANGED <<size, is_free, blocks, freeBlocksList, call>>
    BY <1>4 DEF heapVars
  <2> HIDE DEF new, kept
  <2>4. HeapTypes'
    BY <1>1, <2>1, <2>2, <2>3 DEF HeapInv, HeapTypes
  <2>5. HeapOK' /\ ListsOK'
    BY <1>1, <2>3, HeapSame, ListsSame DEF HeapInv
  <2>6. PairsOK'
    BY <1>1, <2>3, NoFreePairs, PairsSame DEF HeapInv, PairsOK
  <2>7. Held' = Held /\ Used' = Used
    BY <1>1, <2>1, <2>2, <2>3 DEF Held, Used
  <2>8. \A r, s \in live' : r.p = s.p => r = s
    BY <1>2, <2>1, <2>2
  <2>9. \A r \in live' : (r.guess \/ size'[r.p] >= r.n)
    BY <1>2, <1>4, <2>1, <2>2, <2>3
  <2>10. HeldOK'
    BY <1>1, <1>2, <2>3, <2>7, <2>8, <2>9 DEF HeapInv, HeldOK, Growing
  <2>11. CallOK'
    BY <1>1, <2>3 DEF HeapInv, CallOK
  <2> QED
    BY <2>4, <2>5, <2>6, <2>10, <2>11 DEF HeapInv
<1>5. CASE /\ call' = [Idle EXCEPT !.pc = "alloc", !.n = n, !.old = p]
           /\ UNCHANGED <<heapVars, live>>
  <2>1. 0 \in Orders
    BY OrdersAre
  <2>2. call' \in Calls /\ call'.pc = "alloc" /\ call'.old = p
    BY <1>5, <2>1 DEF Idle, Calls, Places
  <2> QED
    BY <1>1, <1>5, <2>2, QuietStep
<1>6. CASE /\ size[p] < n /\ ~Large(n) /\ \E looksFree \in BOOLEAN : canMerge(p, n, looksFree)
           /\ is_free' = [is_free EXCEPT ![p] = TRUE]
           /\ freeBlocksList' = [freeBlocksList EXCEPT ![getBlockOrder(p)] = insertBlock(@, p)]
           /\ call' = [pc |-> "merge", n |-> n, old |-> p, cur |-> p,
                       target |-> getRequiredOrder(FinalMergedSize(n) - 1),
                       guess |-> MergedSize(p) < n]
           /\ UNCHANGED <<size, blocks, live>>
  <2>1. size[p] + 1 < n + 1 /\ n + 1 <= BlockSize /\ size[p] + 1 < BlockSize
    BY <1>3, <1>6, BlockSizeIs DEF Large
  <2>2. p \notin mapped /\ p \in blocks /\ ~is_free[p]
    <3>1. p \notin mapped
      BY <1>3, <2>1, BlockSizeIs DEF HeapInv, HeldOK
    <3> QED
      BY <1>1, <1>2, <3>1 DEF Used
  <2>3. Full(p) < BlockSize
    BY <2>1 DEF Full
  <2>4. /\ ListsOK' /\ freeBlocksList' \in [Orders -> Seq(Addrs)] /\ is_free' \in [Pointers -> BOOLEAN]
        /\ is_free'[p] /\ \A q \in Pointers : q # p => is_free'[q] = is_free[q]
    BY <1>6, <2>2, ListFreed DEF HeapInv
  <2>5. PICK target \in Orders : /\ target = getRequiredOrder(FinalMergedSize(n) - 1)
                                 /\ Full(p) <= BlockSizeByOrder(target)
                                 /\ MergedSize(p) >= n => BlockSizeByOrder(target) = 2 * Full(p)
    BY <1>6, <2>2, MergedTarget DEF HeapInv
  <2>6. /\ call' \in Calls /\ call'.pc = "merge" /\ call'.n = n /\ call'.old = p /\ call'.cur = p
        /\ call'.target = target /\ call'.guess = (MergedSize(p) < n)
    BY <1>6, <2>5 DEF Calls, Places
  <2>7. HeapTypes'
    BY <1>1, <1>6, <2>4, <2>6 DEF HeapInv, HeapTypes
  <2>8. HeapOK'
    BY <1>1, <1>6, HeapSame DEF HeapInv
  <2>9. PairsOK'
    <3> SUFFICES ASSUME NEW a \in blocks, FreePair(a)'
                 PROVE  InWork(a)' \/ InWork(findBuddy(a))'
      BY <1>6 DEF PairsOK
    <3>1. findBuddy(a)' = findBuddy(a) /\ (FreePair(a) \/ a = p \/ findBuddy(a) = p)
      BY <1>6, <2>2, <2>4, PairsFreed DEF HeapInv
    <3>2. ~FreePair(a)
      BY <1>1, NoFreePairs
    <3> QED
      BY <2>6, <3>1, <3>2 DEF InWork
  <2>10. Held' = Held /\ Used' = Used \ {p}
    <3>1. blocks \subseteq Pointers
      BY BlockFacts DEF HeapInv
    <3> QED
      BY <1>1, <1>6, <2>2, <2>4, <3>1 DEF Held, Used
  <2>11. \A m \in mapped : m \in Pointers /\ m # p
    BY <2>2, PointersAre DEF HeapInv, HeapTypes
  <2>12. HeldOK'
    BY <1>1, <1>2, <1>3, <1>6, <2>4, <2>6, <2>10, <2>11 DEF HeapInv, HeldOK, Growing
  <2>13. FreePair(p)'
    <3>1. findBuddy(p) \in blocks /\ findBuddy(p) # p /\ blocks \subseteq Pointers
      BY <2>2, <2>3, BuddyIsBlock, BlockFacts DEF HeapInv
    <3>2. findBuddy(p)' = findBuddy(p)
      BY <1>6 DEF findBuddy, Flip
    <3> QED
      BY <1>6, <2>3, <2>4, <3>1, <3>2 DEF FreePair, canMerge, Full
  <2>14. Covers(p, p)'
    BY <1>6, <2>2, BlockFacts DEF HeapInv, Covers
  <2>15. GrowOK'
    <3>1. MergedSize(p)' = MergedSize(p) /\ Full(p)' = Full(p) /\ MergedSize(p) \in Nat
      BY <1>3, <1>6 DEF MergedSize, Full
    <3>2. ~call'.guess => ~(MergedSize(p) < n)
      BY <2>6
    <3>3. ~(MergedSize(p) < n) => MergedSize(p) >= n
      BY <3>1
    <3>4. p \in Nat
      BY <2>2, BlockFacts DEF HeapInv
    <3> QED
      BY <2>5, <2>6, <2>13, <2>14, <3>1, <3>2, <3>3, <3>4 DEF GrowOK
  <2>16. CallOK'
    BY <1>3, <1>6, <2>2, <2>4, <2>6, <2>15 DEF CallOK
  <2> QED
    BY <2>4, <2>7, <2>8, <2>9, <2>12, <2>16 DEF HeapInv
<1> QED
  BY <1>4, <1>5, <1>6 DEF srealloc
\* The top blocks tile the heap.
LEMMA TopBlocks ==
    LET bases == {i * BlockSize : i \in 0 .. NumBlocks - 1} IN
    /\ bases \subseteq Addrs
    /\ \A b \in bases : Multiple(b, BlockSize)
    /\ \A u \in 0 .. HeapEnd - 1 : \E b \in bases : b <= u /\ u < b + BlockSize
    /\ \A a, b \in bases : a <= b /\ b < a + BlockSize => a = b
<1> DEFINE S == BlockSize
           bases == {i * S : i \in 0 .. NumBlocks - 1}
<1>1. S \in Nat \ {0} /\ NumBlocks \in Nat \ {0} /\ HeapEnd = NumBlocks * S /\ HeapEnd \in Nat
  BY BlockSizeIs, AllocatorConstants DEF HeapEnd
<1>2. Multiple(S, 4)
  <2>1. 0 \in Orders /\ MaxOrder \in Orders /\ 0 <= MaxOrder /\ BlockSizeByOrder(0) = 4
    BY OrdersAre, OrderSizes, AllocatorConstants
  <2> QED
    BY <2>1, SizesDivide DEF BlockSize
<1> HIDE DEF S
<1>3. ASSUME NEW i \in 0 .. NumBlocks - 1
      PROVE  i * S \in Addrs /\ Multiple(i * S, S)
  <2>1. i \in Nat /\ i < NumBlocks
    BY <1>1
  <2>2. Multiple(i * S, S)
    BY <2>1 DEF Multiple
  <2>3. i * S < NumBlocks * S
    BY <1>1, <2>1
  <2>4. Multiple(i * S, 4)
    BY <1>1, <1>2, <2>2, MultipleOf
  <2> QED
    BY <1>1, <2>2, <2>3, <2>4, AddrsAre
<1>4. ASSUME NEW u \in 0 .. HeapEnd - 1
      PROVE  \E b \in bases : b <= u /\ u < b + S
  <2>1. u \in Nat /\ u < HeapEnd
    BY <1>1
  <2>2. PICK k \in Nat : k * S <= u /\ u < k * S + S
    BY <1>1, <2>1, InStretch
  <2>3. k * S < NumBlocks * S
    BY <1>1, <2>1, <2>2
  <2>4. k < NumBlocks
    BY <1>1, <2>3
  <2>5. k \in 0 .. NumBlocks - 1
    BY <1>1, <2>4
  <2> QED
    BY <2>2, <2>5
<1>5. ASSUME NEW a \in bases, NEW b \in bases, a <= b, b < a + S
      PROVE  a = b
  <2>1. Multiple(a, S) /\ Multiple(b, S)
    BY <1>3
  <2>2. a \in Nat /\ b \in Nat
    BY <1>1, <2>1, MultipleSum
  <2>3. CASE a < b
    <3>1. a + S <= b
      BY <1>1, <2>1, <2>3, NextMultiple
    <3> QED
      BY <1>1, <1>5, <2>2, <3>1
  <2> QED
    BY <1>5, <2>2, <2>3
<1> QED
  BY <1>3, <1>4, <1>5 DEF S

\* The list of the top blocks, in the order initHeap links them.
LEMMA TopList ==
    LET bases == {i * BlockSize : i \in 0 .. NumBlocks - 1}
        list == [i \in 1 .. NumBlocks |-> (i - 1) * BlockSize]
    IN  list \in Seq(Addrs) /\ Ascending(list) /\ Listed(list) = bases
<1> DEFINE S == BlockSize
           bases == {i * S : i \in 0 .. NumBlocks - 1}
           list == [i \in 1 .. NumBlocks |-> (i - 1) * S]
<1>1. S \in Nat \ {0} /\ NumBlocks \in Nat \ {0} /\ bases \subseteq Addrs
  BY BlockSizeIs, AllocatorConstants, TopBlocks
<1> HIDE DEF S
<1>2. \A i \in 1 .. NumBlocks : i - 1 \in 0 .. NumBlocks - 1 /\ list[i] = (i - 1) * S
  BY <1>1
<1>3. \A i \in 1 .. NumBlocks : list[i] \in bases
  BY <1>2
<1>4. list \in [1 .. NumBlocks -> Addrs]
  <2>1. list = [i \in 1 .. NumBlocks |-> list[i]]
    OBVIOUS
  <2> HIDE DEF list, bases
  <2> QED
    BY <1>1, <1>3, <2>1
<1>5. list \in Seq(Addrs) /\ Len(list) = NumBlocks
  <2> HIDE DEF list
  <2> QED
    BY <1>1, <1>4, SeqDef
<1> HIDE DEF list
<1>6. ASSUME NEW i \in 1 .. NumBlocks, NEW k \in 1 .. NumBlocks, i < k
      PROVE  list[i] < list[k]
  <2>1. i - 1 \in Nat /\ k - 1 \in Nat /\ i - 1 < k - 1
    BY <1>1, <1>6
  <2>2. (i - 1) * S < (k - 1) * S
    BY <1>1, <2>1
  <2> QED
    BY <1>2, <2>2
<1>7. \A j \in 0 .. NumBlocks - 1 : j + 1 \in 1 .. NumBlocks /\ (j + 1) - 1 = j
  BY <1>1
<1>8. bases \subseteq Listed(list)
  <2>1. ASSUME NEW j \in 0 .. NumBlocks - 1
        PROVE  j * S \in Listed(list)
    <3>1. j + 1 \in 1 .. NumBlocks /\ list[j + 1] = j * S
      BY <1>2, <1>7
    <3> QED
      BY <1>5, <3>1 DEF Listed
  <2> QED
    BY <2>1
<1>9. Listed(list) \subseteq bases
  BY <1>3, <1>5 DEF Listed
<1>10. Ascending(list)
  BY <1>5, <1>6 DEF Ascending
<1> QED
  BY <1>5, <1>8, <1>9, <1>10 DEF S, list

LEMMA InitHeapStep == HeapInv /\ initHeap => HeapInv'
<1> SUFFICES ASSUME HeapInv, initHeap PROVE HeapInv'
  OBVIOUS
<1> DEFINE bases == {i * BlockSize : i \in 0 .. NumBlocks - 1}
           top == [i \in 1 .. NumBlocks |-> (i - 1) * BlockSize]
<1>1. /\ call.pc = "alloc" /\ ~initialized /\ call' = [call EXCEPT !.pc = "place"]
      /\ UNCHANGED <<mapped, live>>
  BY DEF initHeap
<1>2. CASE UNCHANGED <<heapVars, statVars, initialized>>
  BY <1>1, <1>2, PlaceStep
<1>3. CASE /\ size' = [p \in Pointers |-> IF p \in bases THEN BlockSize - 1 ELSE size[p]]
           /\ is_free' = [p \in Pointers |-> IF p \in bases THEN TRUE ELSE is_free[p]]
           /\ blocks' = bases
           /\ freeBlocksList' = [freeBlocksList EXCEPT ![MaxOrder] = top]
           /\ initialized' = TRUE
  <2>1. /\ bases \subseteq Addrs /\ \A b \in bases : Multiple(b, BlockSize)
        /\ \A u \in 0 .. HeapEnd - 1 : \E b \in bases : b <= u /\ u < b + BlockSize
        /\ \A a, b \in bases : a <= b /\ b < a + BlockSize => a = b
    BY TopBlocks
  <2>2. top \in Seq(Addrs) /\ Ascending(top) /\ Listed(top) = bases
    BY TopList
  <2>3. BlockSize \in Nat /\ BlockSize >= 4 /\ HeapEnd \in Nat /\ MaxOrder \in Orders /\ BlockSize = BlockSizeByOrder(MaxOrder)
    BY BlockSizeIs, OrdersAre
  <2> HIDE DEF bases, top
  <2>4. /\ size' \in [Pointers -> Nat] /\ is_free' \in [Pointers -> BOOLEAN]
        /\ \A b \in bases : b \in Pointers /\ b \in Nat /\ size'[b] = BlockSize - 1 /\ is_free'[b]
        /\ \A p \in Mappings : size'[p] = size[p] /\ is_free'[p] = is_free[p]
    <3>1. \A b \in bases : b \in Pointers /\ b \in Nat
      BY <2>1, AddrsAre
    <3>2. \A p \in Mappings : p \notin bases /\ p \in Pointers
      BY <2>1, PointersAre
    <3>3. BlockSize - 1 \in Nat
      BY <2>3
    <3> QED
      BY <1>3, <3>1, <3>2, <3>3 DEF HeapInv, HeapTypes
  <2>5. \A b \in bases : size'[b] + 1 = BlockSize
    BY <2>3, <2>4
  <2>6. blocks = {} /\ \A o \in Orders : freeBlocksList[o] = <<>>
    <3>1. blocks = {}
      BY <1>1 DEF HeapInv, HeapOK, BlocksCover
    <3>2. ASSUME NEW o \in Orders PROVE freeBlocksList[o] = <<>>
      <4>1. freeBlocksList[o] \in Seq(Addrs) /\ Listed(freeBlocksList[o]) = {}
        BY <3>1 DEF HeapInv, HeapTypes, ListsOK, FreeOf
      <4> QED
        BY <4>1, EmptyList
    <3> QED
      BY <3>1, <3>2
  <2>7. /\ freeBlocksList' \in [Orders -> Seq(Addrs)] /\ freeBlocksList'[MaxOrder] = top
        /\ \A o \in Orders : o # MaxOrder => freeBlocksList'[o] = <<>>
    BY <1>3, <2>2, <2>3, <2>6 DEF HeapInv, HeapTypes
  <2>8. call' \in Calls /\ call'.pc = "place" /\ call'.old = call.old
    BY <1>1 DEF HeapInv, HeapTypes, Calls, Places
  <2>9. HeapTypes'
    BY <1>1, <1>3, <2>1, <2>4, <2>7, <2>8 DEF HeapInv, HeapTypes
  <2>10. HeapOK'
    <3>1. BlocksAligned'
      BY <1>3, <2>1, <2>3, <2>5 DEF BlocksAligned, Full
    <3>2. \A a \in bases, u \in Nat : Covers(a, u)' <=> a <= u /\ u < a + BlockSize
      BY <2>3, <2>4, <2>5 DEF Covers
    <3>3. BlocksDisjoint'
      BY <1>3, <2>1, <2>4, <3>2 DEF BlocksDisjoint
    <3>4. BlocksCover'
      <4>1. ASSUME NEW u \in 0 .. HeapEnd - 1
            PROVE  \E b \in blocks' : Covers(b, u)'
        <5>1. u \in Nat
          BY <2>3
        <5> QED
          BY <1>3, <2>1, <3>2, <5>1
      <4> QED
        BY <1>3, <4>1 DEF BlocksCover, HeapEnd
    <3> QED
      BY <3>1, <3>3, <3>4 DEF HeapOK
  <2>11. ListsOK'
    <3>1. FreeOf(MaxOrder)' = bases
      BY <1>3, <2>3, <2>4, <2>5 DEF FreeOf, Full
    <3>2. ASSUME NEW o \in Orders, o # MaxOrder
          PROVE  FreeOf(o)' = {}
      <4>1. BlockSize # BlockSizeByOrder(o)
        BY <2>3, <3>2, SizesOrdered
      <4> QED
        BY <1>3, <2>5, <4>1 DEF FreeOf, Full
    <3>3. ASSUME NEW o \in Orders
          PROVE  Ascending(freeBlocksList[o])' /\ Listed(freeBlocksList[o])' = FreeOf(o)'
      <4>1. CASE o = MaxOrder
        BY <2>2, <2>7, <3>1, <4>1 DEF Ascending, Listed
      <4>2. CASE o # MaxOrder
        <5>1. freeBlocksList'[o] = <<>> /\ FreeOf(o)' = {}
          BY <2>7, <3>2, <4>2
        <5> QED
          BY <5>1, EmptyList DEF Ascending, Listed
      <4> QED
        BY <4>1, <4>2
    <3> QED
      BY <3>3 DEF ListsOK
  <2>12. PairsOK'
    BY <1>3, <2>3, <2>5 DEF PairsOK, FreePair, Full
  <2>13. Used = mapped /\ Used' = mapped /\ Held' = Held
    BY <1>1, <1>3, <2>4, <2>6 DEF Used, Held
  <2>14. Held = Used /\ \A r \in live : r.p \in Used /\ (r.guess \/ size[r.p] >= r.n)
    BY <1>1 DEF HeapInv, HeldOK, Growing, Held
  <2>15. mapped \subseteq Mappings
    BY DEF HeapInv, HeapTypes
  <2>16. \A r \in live : (r.guess \/ size'[r.p] >= r.n)
    BY <2>4, <2>13, <2>14, <2>15
  <2>17. HeldOK'
    BY <1>1, <2>4, <2>8, <2>13, <2>14, <2>15, <2>16 DEF HeapInv, HeldOK, Growing
  <2>18. CallOK'
    BY <1>1, <2>8, <2>13 DEF HeapInv, CallOK
  <2> QED
    BY <2>9, <2>10, <2>11, <2>12, <2>17, <2>18 DEF HeapInv
<1> QED
  BY <1>2, <1>3 DEF initHeap
-----------------------------------------------------------------------------
(* Splitting *)

\* The halves of an aligned block are aligned, and each is the buddy of the other.
LEMMA Halves ==
    ASSUME NEW h \in Nat \ {0}, NEW left, Multiple(left, 2 * h)
    PROVE  /\ left \in Nat /\ Multiple(left, h) /\ Multiple(left + h, h)
           /\ Flip(left, h) = left + h /\ Flip(left + h, h) = left
<1>1. Multiple(h, h) /\ Multiple(2 * h, h) /\ 2 * h \in Nat \ {0}
  <2>1. 1 * h = h
    OBVIOUS
  <2> QED
    BY <2>1 DEF Multiple
<1>2. Multiple(left, h)
  BY <1>1, MultipleOf
<1>3. Multiple(left + h, h) /\ left \in Nat
  BY <1>1, <1>2, MultipleSum
<1>4. PICK low \in Nat : /\ Multiple(low, 2 * h)
                         /\ \/ left = low /\ Flip(left, h) = low + h
                            \/ left = low + h /\ Flip(left, h) = low
  BY <1>2, FlipPair
<1>5. left # low + h
  <2> SUFFICES ASSUME left = low + h PROVE FALSE
    OBVIOUS
  <2>1. low < left /\ ~(low + 2 * h <= left)
    BY <1>4
  <2> QED
    BY <1>1, <1>4, <2>1, NextMultiple
<1>6. Flip(left, h) = left + h
  BY <1>4, <1>5
<1>7. Flip(left + h, h) = left
  BY <1>2, <1>6, FlipPair
<1> QED
  BY <1>2, <1>3, <1>6, <1>7

\* What SplitBlock does to the blocks.
SplitInto(left, right, h) ==
    /\ size' = [size EXCEPT ![left] = h - 1, ![right] = h - 1]
    /\ blocks' = blocks \cup {right} /\ initialized' = initialized

\* Splitting a block in its halves keeps the heap tiled.
LEMMA HeapSplit ==
    ASSUME HeapTypes, HeapOK, NEW left \in blocks, NEW o \in Orders, o # 0, NEW h \in Nat \ {0},
           h = BlockSizeByOrder(o - 1), Full(left) = 2 * h, NEW right, right = left + h,
           SplitInto(left, right, h)
    PROVE  /\ HeapOK' /\ size' \in [Pointers -> Nat] /\ right \in Addrs /\ right \notin blocks /\ right # left
           /\ size'[left] = h - 1 /\ size'[right] = h - 1
           /\ \A p \in Pointers : p # left /\ p # right => size'[p] = size[p]
           /\ Flip(left, h) = right /\ Flip(right, h) = left
<1> USE DEF SplitInto
<1>1. left \in Nat /\ left \in Pointers /\ left < HeapEnd /\ initialized /\ Multiple(left, 2 * h)
  BY BlockFacts
<1>2. /\ Multiple(left, h) /\ Multiple(right, h) /\ Flip(left, h) = right /\ Flip(right, h) = left
      /\ right \in Nat /\ right # left /\ left < right
  BY <1>1, Halves
<1>3. o - 1 \in Orders /\ o \in Nat
  BY OrdersAre
<1>4. right \in Addrs /\ right < HeapEnd
  <2>1. 0 \in Orders /\ 0 <= o - 1 /\ BlockSizeByOrder(0) = 4
    BY <1>3, OrdersAre, OrderSizes
  <2>2. Multiple(h, 4)
    BY <1>3, <2>1, SizesDivide
  <2>3. Multiple(right, 4)
    BY <1>2, <2>2, MultipleOf
  <2>4. 2 * h = BlockSizeByOrder(o) /\ 2 * h \in Nat \ {0}
    BY OrderSizes
  <2>5. Multiple(HeapEnd, 2 * h) /\ HeapEnd \in Nat
    BY <2>4, BlockSizeIs
  <2>6. left + 2 * h <= HeapEnd
    BY <1>1, <2>4, <2>5, NextMultiple
  <2>7. right < HeapEnd
    BY <1>1, <2>5, <2>6
  <2> QED
    BY <2>3, <2>7, AddrsAre
<1>5. \A a \in blocks : a \in Nat /\ a \in Pointers /\ size[a] \in Nat /\ Full(a) \in Nat \ {0}
  BY BlockFacts
<1>6. \A a \in blocks : (left <= a /\ a < left + 2 * h) => a = left
  <2>1. ASSUME NEW a \in blocks, left <= a, a < left + 2 * h
        PROVE  a = left
    <3>1. left + size[left] + 1 = left + 2 * h
      BY <1>1, <1>5 DEF Full
    <3>2. Covers(left, a)
      BY <2>1, <3>1 DEF Covers
    <3> QED
      BY <3>2 DEF HeapOK, BlocksDisjoint
  <2> QED
    BY <2>1
<1>7. right \notin blocks
  BY <1>1, <1>2, <1>6
<1>8. /\ size' \in [Pointers -> Nat] /\ size'[left] = h - 1 /\ size'[right] = h - 1
      /\ \A p \in Pointers : p # left /\ p # right => size'[p] = size[p]
  <2>1. right \in Pointers /\ h - 1 \in Nat
    BY <1>4, AddrsAre
  <2> QED
    BY <1>1, <1>2, <2>1 DEF HeapTypes
<1>9. /\ Full(left)' = h /\ Full(right)' = h
      /\ \A a \in blocks : a # left => size'[a] = size[a] /\ Full(a)' = Full(a)
  BY <1>5, <1>7, <1>8 DEF Full
<1>10. BlocksAligned'
  <2>1. ASSUME NEW a \in blocks'
        PROVE  \E q \in Orders : Full(a)' = BlockSizeByOrder(q) /\ Multiple(a, BlockSizeByOrder(q))
    <3>1. CASE a = left \/ a = right
      BY <1>2, <1>3, <1>9, <3>1
    <3>2. CASE a # left /\ a # right
      <4>1. a \in blocks /\ Full(a)' = Full(a)
        BY <1>9, <2>1, <3>2
      <4> QED
        BY <4>1 DEF HeapOK, BlocksAligned
    <3> QED
      BY <3>1, <3>2
  <2> QED
    BY <2>1 DEF BlocksAligned, Multiple
<1>11. /\ \A u \in Nat : Covers(left, u)' <=> left <= u /\ u < left + h
       /\ \A u \in Nat : Covers(right, u)' <=> right <= u /\ u < right + h
       /\ \A a \in blocks : a # left => \A u : Covers(a, u)' <=> Covers(a, u)
  <2>1. left + (h - 1) + 1 = left + h /\ right + (h - 1) + 1 = right + h
    BY <1>1, <1>2
  <2>2. \A u : Covers(left, u)' <=> left <= u /\ u < left + h
    BY <1>8, <2>1 DEF Covers
  <2>3. \A u : Covers(right, u)' <=> right <= u /\ u < right + h
    BY <1>8, <2>1 DEF Covers
  <2>4. ASSUME NEW a \in blocks, a # left, NEW u
        PROVE  Covers(a, u)' <=> Covers(a, u)
    BY <1>9, <2>4 DEF Covers
  <2> QED
    BY <2>2, <2>3, <2>4
<1>12. BlocksDisjoint'
  <2> SUFFICES ASSUME NEW a \in blocks', NEW c \in blocks', Covers(a, c)'
               PROVE  a = c
    BY DEF BlocksDisjoint
  <2>1. a \in Nat /\ c \in Nat
    BY <1>2, <1>5
  <2>2. CASE a = left
    <3>1. left <= c /\ c < left + h
      BY <1>11, <2>1, <2>2
    <3>2. c # right /\ c < left + 2 * h
      BY <1>1, <2>1, <3>1
    <3> QED
      BY <1>6, <2>2, <3>1, <3>2
  <2>3. CASE a = right
    <3>1. right <= c /\ c < right + h
      BY <1>11, <2>1, <2>3
    <3>2. left <= c /\ c < left + 2 * h /\ c # left
      BY <1>1, <2>1, <3>1
    <3> QED
      BY <1>6, <2>3, <3>2
  <2>4. CASE a # left /\ a # right
    <3>1. a \in blocks /\ Covers(a, c)
      BY <1>11, <2>4
    <3>2. a <= c /\ c < a + size[a] + 1 /\ size[a] \in Nat
      BY <1>5, <3>1 DEF Covers
    <3>3. CASE c = right
      <4>1. a < left
        <5>1. CASE left <= a
          <6>1. a < left + 2 * h
            BY <1>1, <2>1, <3>2, <3>3
          <6> QED
            BY <1>6, <2>4, <3>1, <5>1, <6>1
        <5> QED
          BY <1>1, <2>1, <5>1
      <4>2. Covers(a, left)
        BY <1>1, <1>2, <2>1, <3>2, <3>3, <4>1 DEF Covers
      <4> QED
        BY <2>4, <3>1, <4>2 DEF HeapOK, BlocksDisjoint
    <3>4. CASE c # right
      BY <3>1, <3>4 DEF HeapOK, BlocksDisjoint
    <3> QED
      BY <3>3, <3>4
  <2> QED
    BY <2>2, <2>3, <2>4
<1>13. BlocksCover'
  <2>1. ASSUME NEW u \in 0 .. HeapEnd - 1
        PROVE  \E c \in blocks' : Covers(c, u)'
    <3>1. PICK a \in blocks : Covers(a, u)
      BY <1>1 DEF HeapOK, BlocksCover
    <3>2. CASE a # left
      BY <1>11, <3>1, <3>2
    <3>3. CASE a = left
      <4>0. u \in Nat
        BY BlockSizeIs
      <4>1. left <= u /\ u < left + 2 * h
        <5>1. left + size[left] + 1 = left + 2 * h
          BY <1>1, <1>5 DEF Full
        <5> QED
          BY <3>1, <3>3, <5>1 DEF Covers
      <4>2. (left <= u /\ u < left + h) \/ (right <= u /\ u < right + h)
        BY <1>1, <4>0, <4>1
      <4> QED
        BY <1>11, <4>0, <4>2
    <3> QED
      BY <3>2, <3>3
  <2> QED
    BY <1>1, <2>1 DEF BlocksCover, HeapEnd
<1> QED
  BY <1>2, <1>4, <1>7, <1>8, <1>10, <1>12, <1>13 DEF HeapOK
LEMMA SplitBlockStep == HeapInv /\ SplitBlock => HeapInv'
<1> SUFFICES ASSUME HeapInv, SplitBlock PROVE HeapInv'
  OBVIOUS
<1>1. call.pc = "split" /\ HalfSuffices /\ UNCHANGED <<mapped, initialized, live>>
  BY DEF SplitBlock
<1>0. PICK o, left : o = call.cur /\ left = Head(freeBlocksList[o])
  OBVIOUS
<1>2. /\ o \in Orders /\ freeBlocksList[o] \in Seq(Addrs) /\ freeBlocksList[o] # <<>>
      /\ left \in blocks /\ is_free[left] /\ Full(left) = BlockSizeByOrder(o)
      /\ getRequiredOrder(call.n) \in Orders /\ o > getRequiredOrder(call.n)
  BY <1>0, <1>1, SplitEnds
<1>3. /\ o \in Nat /\ o # 0 /\ o - 1 \in Orders /\ o - 1 \in Nat /\ o - 1 # o
      /\ getRequiredOrder(call.n) <= o - 1 /\ getRequiredOrder(call.n) \in Nat
  <2>1. o \in Nat /\ getRequiredOrder(call.n) \in Nat /\ o > getRequiredOrder(call.n)
    BY <1>2, OrdersAre
  <2>2. o # 0 /\ getRequiredOrder(call.n) <= o - 1 /\ o - 1 \in Nat /\ o - 1 # o
    BY <2>1
  <2> QED
    BY <1>2, <2>1, <2>2, OrdersAre
<1>4. PICK h \in Nat \ {0} : h = BlockSizeByOrder(o - 1) /\ BlockSizeByOrder(o) = 2 * h
  <2>1. BlockSizeByOrder(o - 1) \in Nat /\ BlockSizeByOrder(o - 1) >= 4 /\ BlockSizeByOrder(o) = 2 * BlockSizeByOrder(o - 1)
    BY <1>2, <1>3, OrderSizes
  <2>2. BlockSizeByOrder(o - 1) \in Nat \ {0}
    BY <2>1
  <2> QED
    BY <2>1, <2>2
<1>5. (size[left] + 1) \div 2 = h
  BY <1>2, <1>4 DEF Full
<1>6. PICK right : right = left + h
  OBVIOUS
<1>7. /\ size' = [size EXCEPT ![left] = h - 1, ![right] = h - 1]
      /\ is_free' = [is_free EXCEPT ![left] = TRUE, ![right] = TRUE]
      /\ blocks' = blocks \cup {right}
      /\ freeBlocksList' = [freeBlocksList EXCEPT
             ![o] = Tail(@), ![o - 1] = insertBlock(insertBlock(@, left), right)]
      /\ call' = [call EXCEPT !.cur = o - 1]
  BY <1>0, <1>5, <1>6 DEF SplitBlock, RightHalf
<1>8. /\ HeapOK' /\ size' \in [Pointers -> Nat] /\ right \in Addrs /\ right \notin blocks /\ right # left
      /\ size'[left] = h - 1 /\ size'[right] = h - 1
      /\ \A p \in Pointers : p # left /\ p # right => size'[p] = size[p]
      /\ Flip(left, h) = right /\ Flip(right, h) = left
  <2>1. HeapTypes /\ HeapOK
    BY DEF HeapInv
  <2>2. Full(left) = 2 * h
    BY <1>2, <1>4
  <2>3. left \in blocks /\ o \in Orders /\ o # 0 /\ h \in Nat \ {0} /\ h = BlockSizeByOrder(o - 1)
    BY <1>2, <1>3, <1>4
  <2>4. SplitInto(left, right, h)
    BY <1>1, <1>7 DEF SplitInto
  <2> QED
    BY <1>6, <2>1, <2>2, <2>3, <2>4, HeapSplit
<1>9. left \in Pointers /\ left \in Nat /\ left \in Addrs /\ right \in Pointers /\ right \in Nat /\ left < right
      /\ blocks \subseteq Pointers
  BY <1>2, <1>6, <1>8, BlockFacts, AddrsAre DEF HeapInv
<1>10. /\ is_free' \in [Pointers -> BOOLEAN] /\ is_free'[left] /\ is_free'[right]
       /\ \A p \in Pointers : p # left /\ p # right => is_free'[p] = is_free[p]
  BY <1>7, <1>8, <1>9 DEF HeapInv, HeapTypes
<1>11. Full(left)' = h /\ Full(right)' = h /\ \A a \in blocks : a # left => Full(a)' = Full(a) /\ is_free'[a] = is_free[a]
  BY <1>8, <1>9, <1>10 DEF Full
<1>12. freeBlocksList[o - 1] = <<>>
  BY <1>0, <1>1, <1>3 DEF HeapInv, CallOK, SplitOK
<1> DEFINE one == insertBlock(<<>>, left)
           two == insertBlock(one, right)
           rest == Tail(freeBlocksList[o])
<1>13. two \in Seq(Addrs) /\ Ascending(two) /\ Listed(two) = {left, right}
  <2>1. one \in Seq(Addrs) /\ Ascending(one) /\ Listed(one) = {left}
    BY <1>9, EmptyList, Inserted
  <2> HIDE DEF one
  <2>2. right \notin Listed(one)
    BY <1>8, <2>1
  <2> QED
    BY <1>8, <2>1, <2>2, Inserted
<1>14. rest \in Seq(Addrs) /\ Ascending(rest) /\ Listed(rest) = FreeOf(o) \ {left}
  <2>1. Ascending(freeBlocksList[o]) /\ Listed(freeBlocksList[o]) = FreeOf(o)
    BY <1>2 DEF HeapInv, ListsOK
  <2> QED
    BY <1>0, <1>2, <2>1, RemovedFirst
<1>15. /\ freeBlocksList' \in [Orders -> Seq(Addrs)]
       /\ freeBlocksList'[o] = rest /\ freeBlocksList'[o - 1] = two
       /\ \A q \in Orders : q # o /\ q # o - 1 => freeBlocksList'[q] = freeBlocksList[q]
  <2>1. freeBlocksList' = [freeBlocksList EXCEPT ![o] = rest, ![o - 1] = two]
    BY <1>3, <1>7, <1>12
  <2> HIDE DEF one, two, rest
  <2> QED
    BY <1>2, <1>3, <1>13, <1>14, <2>1 DEF HeapInv, HeapTypes
<1> HIDE DEF one, two, rest
<1>16. two # <<>> /\ Head(two) = left
  <2>1. two # <<>>
    BY <1>13, EmptyList
  <2>2. Head(two) \in {left, right} /\ Head(two) <= left
    BY <1>13, <2>1, RemovedFirst
  <2> QED
    BY <1>9, <2>1, <2>2
<1>17. /\ call' \in Calls /\ call'.pc = "split" /\ call'.cur = o - 1 /\ call'.n = call.n
       /\ call'.old = call.old
  BY <1>1, <1>3, <1>7 DEF HeapInv, HeapTypes, Calls
<1>18. HeapTypes'
  BY <1>1, <1>7, <1>8, <1>10, <1>15, <1>17 DEF HeapInv, HeapTypes
<1>19. ListsOK'
  <2>1. FreeOf(o)' = FreeOf(o) \ {left}
    <3>1. h # BlockSizeByOrder(o)
      BY <1>4
    <3> QED
      BY <1>7, <1>8, <1>11, <3>1 DEF FreeOf
  <2>2. FreeOf(o - 1)' = {left, right}
    <3>1. FreeOf(o - 1) = {}
      <4>1. Listed(freeBlocksList[o - 1]) = FreeOf(o - 1)
        BY <1>3 DEF HeapInv, ListsOK
      <4> QED
        BY <1>12, <4>1, EmptyList
    <3>2. \A a \in blocks : a # left => a \notin FreeOf(o - 1)'
      BY <1>11, <3>1 DEF FreeOf
    <3>3. left \in FreeOf(o - 1)' /\ right \in FreeOf(o - 1)'
      BY <1>2, <1>4, <1>7, <1>10, <1>11 DEF FreeOf
    <3>4. FreeOf(o - 1)' \subseteq blocks \cup {right}
      BY <1>7 DEF FreeOf
    <3> QED
      BY <3>2, <3>3, <3>4
  <2>3. ASSUME NEW q \in Orders, q # o, q # o - 1
        PROVE  FreeOf(q)' = FreeOf(q)
    <3>1. h # BlockSizeByOrder(q) /\ Full(left) # BlockSizeByOrder(q)
      BY <1>2, <1>3, <1>4, <2>3, SizesOrdered
    <3> QED
      BY <1>7, <1>11, <3>1 DEF FreeOf
  <2>4. ASSUME NEW q \in Orders
        PROVE  Ascending(freeBlocksList[q])' /\ Listed(freeBlocksList[q])' = FreeOf(q)'
    <3>1. CASE q = o
      BY <1>14, <1>15, <2>1, <3>1 DEF Ascending, Listed
    <3>2. CASE q = o - 1
      BY <1>13, <1>15, <2>2, <3>2 DEF Ascending, Listed
    <3>3. CASE q # o /\ q # o - 1
      BY <1>15, <2>3, <3>3 DEF HeapInv, ListsOK, Ascending, Listed
    <3> QED
      BY <3>1, <3>2, <3>3
  <2> QED
    BY <2>4 DEF ListsOK
<1>20. InWork(left)'
  BY <1>15, <1>16, <1>17 DEF InWork
<1>21. PairsOK'
  <2> SUFFICES ASSUME NEW a \in blocks', FreePair(a)'
               PROVE  InWork(a)' \/ InWork(findBuddy(a))'
    BY DEF PairsOK
  <2>1. CASE a = left
    BY <1>20, <2>1
  <2>2. CASE a = right
    <3>1. findBuddy(right)' = left
      <4>1. size'[right] + 1 = h
        BY <1>8
      <4>2. findBuddy(right)' = Flip(right, size'[right] + 1)
        BY DEF findBuddy, Flip
      <4> QED
        BY <1>8, <4>1, <4>2
    <3> QED
      BY <1>20, <2>2, <3>1
  <2>3. CASE a # left /\ a # right
    <3>1. a \in blocks /\ a \in Pointers /\ size'[a] = size[a] /\ is_free'[a] = is_free[a] /\ Full(a)' = Full(a)
      BY <1>7, <1>8, <1>9, <1>10, <1>11, <2>3
    <3>2. findBuddy(a)' = findBuddy(a) /\ Full(a) < BlockSize
      BY <3>1 DEF findBuddy, Flip, FreePair
    <3>3. findBuddy(a) \in blocks
      BY <3>1, <3>2, BuddyIsBlock DEF HeapInv
    <3>4. CASE findBuddy(a) = left
      BY <1>20, <3>2, <3>4
    <3>5. CASE findBuddy(a) # left
      <4>1. findBuddy(a) # right /\ findBuddy(a) \in Pointers
        BY <1>8, <1>9, <3>3
      <4>2. size'[findBuddy(a)] = size[findBuddy(a)] /\ is_free'[findBuddy(a)] = is_free[findBuddy(a)]
        BY <1>8, <1>10, <3>5, <4>1
      <4>3. FreePair(a)
        BY <3>1, <3>2, <4>2 DEF FreePair
      <4>4. InWork(a) \/ InWork(findBuddy(a))
        BY <3>1, <4>3 DEF HeapInv, PairsOK
      <4> QED
        BY <1>0, <1>1, <2>3, <3>5, <4>4 DEF InWork
    <3> QED
      BY <3>4, <3>5
  <2> QED
    BY <2>1, <2>2, <2>3
<1>22. \A m \in mapped : m \in Pointers /\ m # left /\ m # right
  BY <1>8, <1>9, PointersAre DEF HeapInv, HeapTypes
<1>23. Used' = Used /\ Held' = Held /\ left \notin Used /\ right \notin Used
  <2>1. left \notin Used /\ right \notin Used
    BY <1>2, <1>8, <1>22 DEF Used
  <2>2. Used' = Used
    BY <1>1, <1>2, <1>7, <1>10, <1>11 DEF Used
  <2> QED
    BY <1>1, <2>1, <2>2 DEF Held
<1>24. Held = Used /\ \A r \in live : r.p \in Used /\ (r.guess \/ size[r.p] >= r.n)
  BY <1>1 DEF HeapInv, HeldOK, Growing, Held
<1>25. \A r \in live : (r.guess \/ size'[r.p] >= r.n)
  <2>1. \A p \in Used : p \in Pointers /\ p # left /\ p # right
    BY <1>23, UsedPointers DEF HeapInv
  <2> QED
    BY <1>8, <1>24, <2>1
<1>26. HeldOK'
  BY <1>1, <1>8, <1>10, <1>17, <1>22, <1>23, <1>24, <1>25 DEF HeapInv, HeldOK, Growing
<1>27. CallOK'
  <2>1. ~OutOfRange(call.n) /\ ~Large(call.n) /\ call.old \in Held \cup {NULL}
    BY <1>1 DEF HeapInv, CallOK, SplitOK
  <2>2. ASSUME NEW q \in Orders, getRequiredOrder(call.n) <= q, q < o - 1
        PROVE  freeBlocksList'[q] = <<>>
    <3>1. q \in Nat /\ q < o /\ q # o /\ q # o - 1
      BY <1>3, <2>2, OrdersAre
    <3>2. freeBlocksList[q] = <<>>
      BY <1>0, <1>1, <2>2, <3>1 DEF HeapInv, CallOK, SplitOK
    <3> QED
      BY <1>15, <3>1, <3>2
  <2>3. SplitOK'
    BY <1>3, <1>15, <1>16, <1>17, <2>1, <2>2 DEF SplitOK, OutOfRange, Large, getRequiredOrder
  <2> QED
    BY <1>17, <1>23, <2>1, <2>3 DEF CallOK
<1> QED
  BY <1>8, <1>18, <1>19, <1>21, <1>26, <1>27 DEF HeapInv
-----------------------------------------------------------------------------
(* Merging *)

\* What MergeBuddies does to the blocks.
MergeInto(low, high, t) ==
    /\ size' = [size EXCEPT ![low] = 2 * t - 1]
    /\ blocks' = blocks \ {high} /\ initialized' = initialized

\* Merging the halves of an aligned stretch keeps the heap tiled.
LEMMA HeapMerged ==
    ASSUME HeapTypes, HeapOK, NEW low \in blocks, NEW high \in blocks, NEW t \in Nat \ {0}, NEW o \in Orders,
           2 * t = BlockSizeByOrder(o), Multiple(low, 2 * t), high = low + t,
           Full(low) = t, Full(high) = t, MergeInto(low, high, t)
    PROVE  /\ HeapOK' /\ size' \in [Pointers -> Nat] /\ size'[low] = 2 * t - 1
           /\ \A p \in Pointers : p # low => size'[p] = size[p]
<1> USE DEF MergeInto
<1>1. low \in Nat /\ low \in Pointers /\ high \in Nat /\ high # low /\ initialized /\ 2 * t - 1 \in Nat
  BY BlockFacts
<1>2. \A a \in blocks : a \in Nat /\ a \in Pointers /\ size[a] \in Nat
  BY BlockFacts
<1>3. /\ size' \in [Pointers -> Nat] /\ size'[low] = 2 * t - 1
      /\ \A p \in Pointers : p # low => size'[p] = size[p]
  BY <1>1 DEF HeapTypes
<1>4. Full(low)' = 2 * t /\ \A a \in blocks : a # low => size'[a] = size[a] /\ Full(a)' = Full(a)
  BY <1>1, <1>2, <1>3 DEF Full
<1>5. BlocksAligned'
  <2>1. ASSUME NEW a \in blocks'
        PROVE  \E q \in Orders : Full(a)' = BlockSizeByOrder(q) /\ Multiple(a, BlockSizeByOrder(q))
    <3>1. CASE a = low
      BY <1>4, <3>1
    <3>2. CASE a # low
      <4>1. a \in blocks /\ Full(a)' = Full(a)
        BY <1>4, <2>1, <3>2
      <4> QED
        BY <4>1 DEF HeapOK, BlocksAligned
    <3> QED
      BY <3>1, <3>2
  <2> QED
    BY <2>1 DEF BlocksAligned, Multiple
<1>6. /\ \A u : Covers(low, u)' <=> low <= u /\ u < low + 2 * t
      /\ \A u : Covers(low, u) <=> low <= u /\ u < low + t
      /\ \A u : Covers(high, u) <=> high <= u /\ u < high + t
      /\ \A a \in blocks : a # low => \A u : Covers(a, u)' <=> Covers(a, u)
  <2>1. low + (2 * t - 1) + 1 = low + 2 * t
    BY <1>1
  <2>2. low + size[low] + 1 = low + t /\ high + size[high] + 1 = high + t
    BY <1>1, <1>2 DEF Full
  <2>3. \A u : Covers(low, u)' <=> low <= u /\ u < low + 2 * t
    BY <1>3, <2>1 DEF Covers
  <2>4. \A u : Covers(low, u) <=> low <= u /\ u < low + t
    BY <2>2 DEF Covers
  <2>5. \A u : Covers(high, u) <=> high <= u /\ u < high + t
    BY <2>2 DEF Covers
  <2>6. ASSUME NEW a \in blocks, a # low, NEW u
        PROVE  Covers(a, u)' <=> Covers(a, u)
    BY <1>4, <2>6 DEF Covers
  <2> QED
    BY <2>3, <2>4, <2>5, <2>6
<1>7. \A u \in Nat : Covers(low, u)' <=> Covers(low, u) \/ Covers(high, u)
  <2>1. ASSUME NEW u \in Nat
        PROVE  low <= u /\ u < low + 2 * t <=> (low <= u /\ u < low + t) \/ (high <= u /\ u < high + t)
    BY <1>1
  <2> QED
    BY <1>6, <2>1
<1>8. BlocksDisjoint'
  <2> SUFFICES ASSUME NEW a \in blocks', NEW c \in blocks', Covers(a, c)'
               PROVE  a = c
    BY DEF BlocksDisjoint
  <2>1. a \in blocks /\ c \in blocks /\ c # high /\ c \in Nat
    BY <1>2
  <2>2. CASE a = low
    <3>1. Covers(low, c) \/ Covers(high, c)
      BY <1>7, <2>1, <2>2
    <3> QED
      BY <2>1, <2>2, <3>1 DEF HeapOK, BlocksDisjoint
  <2>3. CASE a # low
    BY <1>6, <2>1, <2>3 DEF HeapOK, BlocksDisjoint
  <2> QED
    BY <2>2, <2>3
<1>9. BlocksCover'
  <2>1. ASSUME NEW u \in 0 .. HeapEnd - 1
        PROVE  \E c \in blocks' : Covers(c, u)'
    <3>1. PICK a \in blocks : Covers(a, u)
      BY <1>1 DEF HeapOK, BlocksCover
    <3>2. u \in Nat
      BY BlockSizeIs
    <3>3. CASE a = low \/ a = high
      BY <1>1, <1>7, <3>1, <3>2, <3>3
    <3>4. CASE a # low /\ a # high
      BY <1>6, <3>1, <3>4
    <3> QED
      BY <3>3, <3>4
  <2> QED
    BY <1>1, <2>1 DEF BlocksCover, HeapEnd
<1> QED
  BY <1>3, <1>5, <1>8, <1>9 DEF HeapOK

\* The loop goes on only below the largest order.
LEMMA MergeableBelow ==
    ASSUME HeapInv, call.pc = "merge", Mergeable
    PROVE  /\ FreePair(call.cur)
           /\ call.old # NULL =>
                /\ Full(call.cur) < BlockSizeByOrder(call.target)
                /\ ~call.guess => /\ MergedSize(call.cur) >= call.n
                                  /\ BlockSizeByOrder(call.target) = 2 * Full(call.cur)
<1> DEFINE b == call.cur
           o == getBlockOrder(b)
<1>1. b \in blocks /\ is_free[b]
  BY DEF HeapInv, CallOK
<1>2. o \in Orders /\ Full(b) = BlockSizeByOrder(o) /\ Full(b) \in Nat
  BY <1>1, BlockFacts DEF HeapInv
<1>3. o # call.target /\ is_free[findBuddy(b)] /\ size[findBuddy(b)] = size[b]
  BY DEF Mergeable
<1>4. call.target \in Orders
  BY CallTypes
<1> HIDE DEF b, o
<1>5. BlockSizeByOrder(call.target) # Full(b)
  BY <1>2, <1>3, <1>4, SizesOrdered
<1>6. CASE call.old = NULL
  <2>1. call.target = MaxOrder
    BY <1>6 DEF HeapInv, CallOK
  <2>2. Full(b) < BlockSize
    BY <1>2, <1>5, <2>1, BlockSizeIs
  <2> QED
    BY <1>1, <1>3, <1>6, <2>2 DEF FreePair, b
<1>7. CASE call.old # NULL
  <2>1. GrowOK
    BY <1>7 DEF HeapInv, CallOK
  <2>2. Full(b) < BlockSizeByOrder(call.target) /\ BlockSizeByOrder(call.target) <= BlockSize
    <3>1. Full(b) <= BlockSizeByOrder(call.target)
      BY <2>1 DEF GrowOK, b
    <3>2. BlockSizeByOrder(call.target) \in Nat /\ BlockSizeByOrder(call.target) <= BlockSize
      BY <1>4, OrderSizes, BlockSizeIs, SizesDivide, OrdersAre
    <3> QED
      BY <1>2, <1>5, <3>1, <3>2
  <2>3. Full(b) < BlockSize
    BY <1>2, <1>4, <2>2, BlockSizeIs, OrderSizes
  <2>4. ~call.guess => MergedSize(b) >= call.n /\ BlockSizeByOrder(call.target) = 2 * Full(b)
    BY <1>5, <2>1 DEF GrowOK, b
  <2> QED
    BY <1>1, <1>3, <2>2, <2>3, <2>4 DEF FreePair, b
<1> QED
  BY <1>6, <1>7

LEMMA MergeBuddiesStep == HeapInv /\ MergeBuddies => HeapInv'
<1> SUFFICES ASSUME HeapInv, MergeBuddies PROVE HeapInv'
  OBVIOUS
<1>1. call.pc = "merge" /\ Mergeable /\ UNCHANGED <<is_free, mapped, initialized, live>>
  BY DEF MergeBuddies
<1>0. PICK b, y, o, t : b = call.cur /\ y = findBuddy(b) /\ o = getBlockOrder(b) /\ t = Full(b)
  OBVIOUS
<1>2. b \in blocks /\ is_free[b] /\ FreePair(b) /\ t < BlockSize
  BY <1>0, <1>1, MergeableBelow DEF HeapInv, CallOK, FreePair
<1>3. /\ y \in blocks /\ y # b /\ is_free[y] /\ size[y] = size[b] /\ findBuddy(y) = b /\ Full(y) = t
  BY <1>0, <1>2, BuddyIsBlock DEF HeapInv, FreePair, Full
<1>4. /\ o \in Orders /\ t = BlockSizeByOrder(o) /\ t \in Nat \ {0} /\ b \in Nat /\ size[b] \in Nat
      /\ t = size[b] + 1 /\ y \in Nat
  BY <1>0, <1>2, <1>3, BlockFacts DEF HeapInv, Full
<1>5. o \in Nat /\ o + 1 \in Orders /\ o + 1 # o /\ BlockSizeByOrder(o + 1) = 2 * t
  <2>1. o < MaxOrder /\ MaxOrder \in Orders
    BY <1>2, <1>4, BlockSizeIs, OrdersAre
  <2>2. o + 1 \in Orders /\ BlockSizeByOrder(o + 1) = 2 * BlockSizeByOrder(o)
    BY <1>4, <2>1, SizesOrdered
  <2>3. o \in Nat
    BY <1>4, OrdersAre
  <2> QED
    BY <1>4, <2>2, <2>3
<1>6. PICK low, high : /\ low \in Nat /\ Multiple(low, 2 * t) /\ high = low + t
                       /\ (b = low /\ y = high) \/ (b = high /\ y = low)
  <2>1. PICK base \in Nat : /\ Multiple(base, 2 * t)
                            /\ (b = base /\ y = base + t) \/ (b = base + t /\ y = base)
    BY <1>0, <1>2, BuddyIsBlock DEF HeapInv
  <2> QED
    BY <2>1
<1>7. Min({b, y}) = low /\ Max({b, y}) = high
  <2>1. low < high /\ low \in Nat /\ high \in Nat /\ {b, y} = {low, high}
    BY <1>4, <1>6
  <2>2. Min({low, high}) = low
    BY <2>1 DEF Min
  <2>3. Max({low, high}) = high
    BY <2>1 DEF Max
  <2> QED
    BY <2>1, <2>2, <2>3
<1>8. /\ size' = [size EXCEPT ![low] = 2 * size[b] + 1]
      /\ blocks' = blocks \ {high}
      /\ freeBlocksList' = [freeBlocksList EXCEPT
             ![o] = removeBlock(removeBlock(@, b), y), ![o + 1] = insertBlock(@, low)]
      /\ call' = [call EXCEPT !.cur = low]
  BY <1>0, <1>7 DEF MergeBuddies, MergedOrder
<1>9. MergeInto(low, high, t)
  <2>1. 2 * size[b] + 1 = 2 * t - 1
    BY <1>4
  <2> QED
    BY <1>1, <1>8, <2>1 DEF MergeInto
<1>10. /\ low \in blocks /\ high \in blocks /\ low # high /\ Full(low) = t /\ Full(high) = t
       /\ is_free[low] /\ is_free[high] /\ size[high] = size[b] /\ size[low] = size[b]
       /\ findBuddy(high) = low /\ b \in {low, high} /\ y \in {low, high}
  BY <1>0, <1>2, <1>3, <1>6
<1>11. /\ HeapOK' /\ size' \in [Pointers -> Nat] /\ size'[low] = 2 * t - 1
       /\ \A p \in Pointers : p # low => size'[p] = size[p]
  <2>1. HeapTypes /\ HeapOK
    BY DEF HeapInv
  <2>2. 2 * t = BlockSizeByOrder(o + 1) /\ o + 1 \in Orders /\ t \in Nat \ {0}
    BY <1>4, <1>5
  <2> QED
    BY <1>6, <1>9, <1>10, <2>1, <2>2, HeapMerged
<1>12. /\ low \in Addrs /\ low \in Pointers /\ high \in Addrs /\ high \in Pointers /\ blocks \subseteq Pointers
  BY <1>10, BlockFacts DEF HeapInv
<1>13. Full(low)' = 2 * t /\ \A a \in blocks : a # low => Full(a)' = Full(a) /\ size'[a] = size[a]
  BY <1>4, <1>11, <1>12 DEF Full
<1> DEFINE one == removeBlock(freeBlocksList[o], b)
           rest == removeBlock(one, y)
           more == insertBlock(freeBlocksList[o + 1], low)
<1>14. rest \in Seq(Addrs) /\ Ascending(rest) /\ Listed(rest) = FreeOf(o) \ {low, high}
  <2>1. freeBlocksList[o] \in Seq(Addrs) /\ Ascending(freeBlocksList[o]) /\ Listed(freeBlocksList[o]) = FreeOf(o)
    BY <1>4 DEF HeapInv, HeapTypes, ListsOK
  <2>2. one \in Seq(Addrs) /\ Ascending(one) /\ Listed(one) = FreeOf(o) \ {b}
    BY <2>1, Removed
  <2> HIDE DEF one
  <2>3. rest \in Seq(Addrs) /\ Ascending(rest) /\ Listed(rest) = Listed(one) \ {y}
    BY <2>2, Removed
  <2>4. {b, y} = {low, high}
    BY <1>6
  <2> QED
    BY <2>2, <2>3, <2>4
<1>15. more \in Seq(Addrs) /\ Ascending(more) /\ Listed(more) = FreeOf(o + 1) \cup {low}
  <2>1. /\ freeBlocksList[o + 1] \in Seq(Addrs) /\ Ascending(freeBlocksList[o + 1])
        /\ Listed(freeBlocksList[o + 1]) = FreeOf(o + 1)
    BY <1>5 DEF HeapInv, HeapTypes, ListsOK
  <2>2. t # 2 * t
    BY <1>4
  <2>3. low \notin FreeOf(o + 1)
    BY <1>5, <1>10, <2>2 DEF FreeOf
  <2> QED
    BY <1>12, <2>1, <2>3, Inserted
<1>16. /\ freeBlocksList' \in [Orders -> Seq(Addrs)]
       /\ freeBlocksList'[o] = rest /\ freeBlocksList'[o + 1] = more
       /\ \A q \in Orders : q # o /\ q # o + 1 => freeBlocksList'[q] = freeBlocksList[q]
  <2>1. freeBlocksList' = [freeBlocksList EXCEPT ![o] = rest, ![o + 1] = more]
    BY <1>5, <1>8
  <2> HIDE DEF one, rest, more
  <2> QED
    BY <1>4, <1>5, <1>14, <1>15, <2>1 DEF HeapInv, HeapTypes
<1> HIDE DEF one, rest, more
<1>17. /\ call' \in Calls /\ call'.pc = "merge" /\ call'.cur = low /\ call'.n = call.n
       /\ call'.old = call.old /\ call'.target = call.target /\ call'.guess = call.guess
  BY <1>1, <1>8, <1>12 DEF HeapInv, HeapTypes, Calls
<1>18. HeapTypes'
  BY <1>1, <1>8, <1>11, <1>16, <1>17 DEF HeapInv, HeapTypes
<1>19. ListsOK'
  <2>1. t # 2 * t
    BY <1>4
  <2>2. FreeOf(o)' = FreeOf(o) \ {low, high}
    BY <1>1, <1>4, <1>8, <1>13, <2>1 DEF FreeOf
  <2>3. FreeOf(o + 1)' = FreeOf(o + 1) \cup {low}
    <3>1. high \notin FreeOf(o + 1)
      BY <1>5, <1>10, <2>1 DEF FreeOf
    <3>2. low \in FreeOf(o + 1)'
      BY <1>1, <1>5, <1>8, <1>10, <1>13 DEF FreeOf
    <3>3. ASSUME NEW a \in blocks, a # low, a # high
          PROVE  a \in FreeOf(o + 1)' <=> a \in FreeOf(o + 1)
      BY <1>1, <1>8, <1>13, <3>3 DEF FreeOf
    <3>4. FreeOf(o + 1)' \subseteq blocks \ {high} /\ FreeOf(o + 1) \subseteq blocks
      BY <1>8 DEF FreeOf
    <3> QED
      BY <3>1, <3>2, <3>3, <3>4
  <2>4. ASSUME NEW q \in Orders, q # o, q # o + 1
        PROVE  FreeOf(q)' = FreeOf(q)
    <3>1. t # BlockSizeByOrder(q) /\ 2 * t # BlockSizeByOrder(q)
      BY <1>4, <1>5, <2>4, SizesOrdered
    <3> QED
      BY <1>1, <1>8, <1>10, <1>13, <3>1 DEF FreeOf
  <2>5. ASSUME NEW q \in Orders
        PROVE  Ascending(freeBlocksList[q])' /\ Listed(freeBlocksList[q])' = FreeOf(q)'
    <3>1. CASE q = o
      BY <1>14, <1>16, <2>2, <3>1 DEF Ascending, Listed
    <3>2. CASE q = o + 1
      BY <1>15, <1>16, <2>3, <3>2 DEF Ascending, Listed
    <3>3. CASE q # o /\ q # o + 1
      <4>1. freeBlocksList'[q] = freeBlocksList[q] /\ FreeOf(q)' = FreeOf(q)
        BY <1>16, <2>4, <3>3
      <4>2. Ascending(freeBlocksList[q]) /\ Listed(freeBlocksList[q]) = FreeOf(q)
        BY DEF HeapInv, ListsOK
      <4> QED
        BY <4>1, <4>2 DEF Ascending, Listed
    <3> QED
      BY <3>1, <3>2, <3>3
  <2> QED
    BY <2>5 DEF ListsOK
<1>20. InWork(low)'
  BY <1>17 DEF InWork
<1>21. PairsOK'
  <2> SUFFICES ASSUME NEW a \in blocks', FreePair(a)', a # low
               PROVE  findBuddy(a)' = low
    BY <1>20 DEF PairsOK
  <2>1. a \in blocks /\ a # high /\ size'[a] = size[a] /\ Full(a)' = Full(a)
    BY <1>8, <1>13
  <2>2. findBuddy(a)' = findBuddy(a) /\ Full(a) < BlockSize
    BY <2>1 DEF findBuddy, Flip, FreePair
  <2>3. findBuddy(a) \in blocks
    BY <2>1, <2>2, BuddyIsBlock DEF HeapInv
  <2> SUFFICES ASSUME findBuddy(a) # low PROVE FALSE
    BY <2>2
  <2>4. size'[findBuddy(a)] = size[findBuddy(a)]
    BY <1>13, <2>3
  <2>5. FreePair(a)
    BY <1>1, <2>1, <2>2, <2>4 DEF FreePair
  <2>6. CASE findBuddy(a) = high
    <3>1. findBuddy(findBuddy(a)) = a
      BY <2>1, <2>5, PairSymmetric DEF HeapInv
    <3> QED
      BY <1>10, <2>6, <3>1
  <2>7. CASE findBuddy(a) # high
    <3>1. a = b \/ findBuddy(a) = b
      BY <1>0, <1>1, <2>1, <2>5 DEF HeapInv, PairsOK, InWork
    <3> QED
      BY <1>10, <2>1, <2>7, <3>1
  <2> QED
    BY <2>6, <2>7
<1>22. \A m \in mapped : m \in Pointers /\ m # low /\ m # high
  BY <1>12, PointersAre DEF HeapInv, HeapTypes
<1>23. Used' = Used /\ Held' = Held /\ low \notin Used
  BY <1>1, <1>8, <1>10, <1>22 DEF Used, Held
<1>24. \A r \in live : (Growing /\ r.p = call.old) \/ (r.p \in Used /\ (r.guess \/ size[r.p] >= r.n))
  BY <1>1 DEF HeapInv, HeldOK, Held
<1>25. \A r \in live : (Growing /\ r.p = call.old) \/ r.guess \/ size'[r.p] >= r.n
  <2>1. \A p \in Used : p \in Pointers /\ p # low
    BY <1>23, UsedPointers DEF HeapInv
  <2> QED
    BY <1>11, <1>24, <2>1
<1>26. Growing' <=> Growing
  BY <1>1, <1>17 DEF Growing
<1>27. \A m \in mapped' : ~is_free'[m] /\ size'[m] + 1 > BlockSize
  BY <1>1, <1>11, <1>22 DEF HeapInv, HeldOK
<1>28. HeldOK'
  BY <1>1, <1>17, <1>23, <1>25, <1>26, <1>27 DEF HeapInv, HeldOK
<1>29. CallOK'
  <2>1. low \in blocks' /\ is_free'[low]
    BY <1>1, <1>8, <1>10
  <2>2. call.old = NULL => call.target = MaxOrder
    BY <1>1 DEF HeapInv, CallOK
  <2>3. ASSUME call.old # NULL
        PROVE  GrowOK'
    <3>1. /\ t < BlockSizeByOrder(call.target)
          /\ ~call.guess => MergedSize(b) >= call.n /\ BlockSizeByOrder(call.target) = 2 * t
      BY <1>0, <1>1, <2>3, MergeableBelow
    <3>2. Covers(low, call.old)'
      <4>1. low + (2 * t - 1) + 1 = low + 2 * t /\ low <= b /\ b + t <= low + 2 * t
        BY <1>4, <1>6
      <4>2. b <= call.old /\ call.old < b + t /\ call.old \in Nat
        <5>1. Covers(b, call.old) /\ call.old \in Nat
          BY <1>0, <1>1, <2>3 DEF HeapInv, CallOK, GrowOK
        <5> QED
          BY <1>4, <5>1 DEF Covers
      <4> QED
        BY <1>4, <1>6, <1>11, <1>17, <4>1, <4>2 DEF Covers
    <3>3. ~call.guess => size'[low] >= call.n
      <4>1. 2 * t - 1 = 2 * size[b] + 1
        BY <1>4
      <4> QED
        BY <1>11, <3>1, <4>1 DEF MergedSize
    <3>4. 2 * t <= BlockSizeByOrder(call.target)
      <4>1. call.target \in Orders /\ BlockSizeByOrder(call.target) \in Nat /\ call.target \in Nat
        BY CallTypes, OrderSizes, OrdersAre DEF HeapInv
      <4>2. ~(call.target <= o)
        <5> SUFFICES ASSUME call.target <= o PROVE FALSE
          OBVIOUS
        <5>1. BlockSizeByOrder(call.target) <= t
          BY <1>4, <4>1, SizesDivide
        <5> QED
          BY <1>4, <3>1, <4>1, <5>1
      <4>3. o + 1 <= call.target
        BY <1>5, <4>1, <4>2
      <4> QED
        BY <1>5, <4>1, <4>3, SizesDivide
    <3>5. call.old \in Nat
      BY <1>1, <2>3 DEF HeapInv, CallOK, GrowOK
    <3>6. ~call.guess => BlockSizeByOrder(call.target) = Full(low)'
      BY <1>13, <3>1
    <3> QED
      BY <1>13, <1>17, <3>2, <3>3, <3>4, <3>5, <3>6 DEF GrowOK
  <2> QED
    BY <1>17, <2>1, <2>2, <2>3 DEF CallOK
<1> QED
  BY <1>11, <1>18, <1>19, <1>21, <1>28, <1>29 DEF HeapInv
-----------------------------------------------------------------------------
(* The theorems *)

LEMMA HeapInitially == Init => HeapInv
<1> SUFFICES ASSUME Init PROVE HeapInv
  OBVIOUS
<1> USE DEF Init
<1>1. call = Idle /\ call \in Calls /\ call.pc = "idle" /\ call.old = NULL
  <2>1. 0 \in Orders
    BY OrdersAre
  <2> QED
    BY <2>1 DEF Idle, Calls, Places
<1>2. HeapTypes
  BY <1>1, EmptyList DEF HeapTypes
<1>3. HeapOK
  BY DEF HeapOK, BlocksAligned, BlocksDisjoint, BlocksCover
<1>4. ListsOK
  BY EmptyList DEF ListsOK, FreeOf
<1>5. PairsOK /\ CallOK
  BY <1>1 DEF PairsOK, CallOK
<1>6. HeldOK
  BY <1>1 DEF HeldOK, Held, Used, Growing
<1> QED
  BY <1>2, <1>3, <1>4, <1>5, <1>6 DEF HeapInv

LEMMA HeapStutters ==
    ASSUME HeapInv, UNCHANGED vars
    PROVE  HeapInv'
<1> USE DEF vars, heapVars
<1>1. HeapTypes'
  BY DEF HeapInv, HeapTypes
<1>2. HeapOK' /\ ListsOK'
  BY HeapSame, ListsSame DEF HeapInv
<1>3. PairsOK'
  BY PairsSame DEF HeapInv, PairsOK, InWork
<1>4. Held' = Held /\ Used' = Used /\ (Growing' <=> Growing)
  BY DEF Held, Used, Growing
<1>5. HeldOK'
  BY <1>4 DEF HeapInv, HeldOK
<1>6. SplitOK' <=> SplitOK
  BY DEF SplitOK, OutOfRange, Large, getRequiredOrder
<1>7. GrowOK' <=> GrowOK
  BY DEF GrowOK, Covers, FreePair, findBuddy, Flip, MergedSize, Full
<1>8. CallOK'
  BY <1>4, <1>6, <1>7 DEF HeapInv, CallOK
<1> QED
  BY <1>1, <1>2, <1>3, <1>5, <1>8 DEF HeapInv

LEMMA HeapNext == HeapInv /\ [Next]_vars => HeapInv'
<1> SUFFICES ASSUME HeapInv, [Next]_vars PROVE HeapInv'
  OBVIOUS
<1>1. ASSUME NEW n \in Sizes, smalloc(n) PROVE HeapInv'
  BY <1>1, SmallocStep, AllocatorConstants DEF smalloc
<1>2. ASSUME NEW num \in Counts, NEW each \in Sizes, scalloc(num, each) PROVE HeapInv'
  <2>1. (num * each) % Word \in Nat
    <3>1. num * each \in Nat /\ Word \in Nat \ {0}
      BY AllocatorConstants
    <3> QED
      BY <3>1
  <2> QED
    BY <1>2, <2>1, SmallocStep DEF scalloc
<1>3. ASSUME NEW p \in Pointers, sfree(p) PROVE HeapInv'
  BY <1>3, SfreeStep
<1>4. ASSUME NEW p \in Pointers, NEW n \in Sizes, srealloc(p, n) PROVE HeapInv'
  BY <1>4, SreallocStep, AllocatorConstants
<1>5. CASE AlreadyInitialized
  BY <1>5, PlaceStep DEF AlreadyInitialized
<1>6. CASE RejectSize
  BY <1>6, ReturnStep DEF RejectSize
<1>7. CASE Step
  BY <1>5, <1>6, <1>7, InitHeapStep, MapLargeStep, FindOrderStep, SplitBlockStep, TakeBlockStep,
     FreeMappingStep, FreeBlockStep, MergeBuddiesStep, MergeDoneStep DEF Step
<1>8. CASE UNCHANGED vars
  BY <1>8, HeapStutters
<1> QED
  BY <1>1, <1>2, <1>3, <1>4, <1>7, <1>8 DEF Next

LEMMA HeapCorrect == Spec => []HeapInv
  BY HeapInitially, HeapNext, PTL DEF Spec

\* Whatever the program asks for, in any order, the blocks of malloc_3.cpp tile the heap at
\* every turn of the loops that split and merge them, each aligned to its own size.
THEOREM HeapTiledHolds == Spec => []HeapTiled
  BY HeapCorrect, InvTiled, PTL

\* The free list of each order holds the free blocks of that order, sorted by address,
\* whatever was split, merged, or grown in place.
THEOREM FreeListsExactHolds == Spec => []FreeListsExact
  BY HeapCorrect, InvListsExact, PTL

\* No two pointers smalloc, scalloc and srealloc have handed out share a block, none is on a
\* free list, none is too small but those srealloc grew on a guess, and nothing that is in use
\* was lost but what munmap refused.
THEOREM HeldBlocksAreOwnedHolds == Spec => []HeldBlocksAreOwned
  BY HeapCorrect, InvHeld, PTL

\* sfree merges all that can be merged: when splitBlockBuddy finds no block for a request that
\* is not mapped, no aligned stretch of the size it needs is free.
THEOREM FailsOnlyWhenFullHolds == Spec => []FailsOnlyWhenFull
  BY HeapCorrect, InvFailsOnlyWhenFull, PTL

-----------------------------------------------------------------------------
(* The statistics *)

\* What the statistics count, the blocks of the heap and the mappings, is finite.
Everything == blocks \cup mapped \cup leaked
LeakedOK == leaked \in SUBSET Mappings /\ leaked \cap mapped = {}
CountInv == HeapInv /\ IsFiniteSet(mapped) /\ IsFiniteSet(leaked) /\ LeakedOK

CountsExact ==
    /\ allocatedBlocks = Cardinality(Everything)
    /\ allocatedBytes = Total(size, Everything)
    /\ metadataBytes = Cardinality(Everything)

LEMMA CountsAre == StatisticsExact <=> CountsExact
  BY DEF StatisticsExact, StatisticsOf, CountsExact, Total, Everything

LEMMA CountsAreStill == StatisticsExact' <=> CountsExact'
  BY CountsAre, PTL

HeapCounts ==
    /\ allocatedBlocks = Cardinality(blocks)
    /\ allocatedBytes = Total(size, blocks)
    /\ metadataBytes = Cardinality(blocks)

LEMMA HeapCountsAre == StatisticsOf(blocks) <=> HeapCounts
  BY DEF StatisticsOf, HeapCounts, Total

LEMMA HeapCountsAreStill == StatisticsOf(blocks)' <=> HeapCounts'
  BY HeapCountsAre, PTL

LEMMA AddrsFinite == IsFiniteSet(Addrs)
<1> DEFINE n == (NumBlocks * BlockSize) \div 4 - 1
           Times == [i \in 0 .. n |-> 4 * i]
<1>1. IsFiniteSet(0 .. n)
  <2>1. NumBlocks * BlockSize \in Nat
    BY AllocatorConstants, BlockSizeIs
  <2>2. n \in Int
    BY <2>1
  <2> HIDE DEF n
  <2> QED
    BY <2>2, FS_Interval
<1>2. Addrs = {4 * i : i \in 0 .. n}
  BY DEF Addrs
<1> HIDE DEF n
<1>3. Times \in Surjection(0 .. n, Addrs)
  BY <1>2 DEF Surjection
<1> QED
  BY <1>1, <1>3, FS_Surjection

LEMMA EverythingFinite ==
    ASSUME CountInv
    PROVE  /\ IsFiniteSet(Everything) /\ Everything \subseteq Pointers
           /\ \A p \in Everything : size[p] \in Int
           /\ Cardinality(Everything) \in Nat
<1>1. IsFiniteSet(blocks)
  BY AddrsFinite, FS_Subset DEF CountInv, HeapInv, HeapTypes
<1>2. IsFiniteSet(Everything)
  BY <1>1, FS_Union DEF CountInv, Everything
<1>3. Everything \subseteq Pointers
  BY PointersAre DEF CountInv, LeakedOK, HeapInv, HeapTypes, Everything, Pointers
<1>4. \A p \in Everything : size[p] \in Int
  BY <1>3 DEF CountInv, HeapInv, HeapTypes
<1> QED
  BY <1>2, <1>3, <1>4, FS_CardinalityType

\* One of the things counted is replaced by two.
LEMMA TotalSplit ==
    ASSUME NEW S, IsFiniteSet(S), NEW x \in S, NEW y, y \notin S, NEW h, NEW k,
           \A z \in S : h[z] \in Int, \A z \in S \ {x} : k[z] = h[z], k[x] \in Int, k[y] \in Int
    PROVE  /\ Total(h, S) \in Int
           /\ Total(k, S \cup {y}) = Total(h, S) - h[x] + k[x] + k[y]
           /\ Cardinality(S \cup {y}) = Cardinality(S) + 1
<1> DEFINE R == S \ {x}
<1>1. IsFiniteSet(R) /\ x \notin R /\ R \cup {x} = S
  BY FS_RemoveElement
<1>2. \A z \in S : k[z] \in Int
  OBVIOUS
<1>3. \A z \in R : h[z] \in Int /\ k[z] = h[z]
  OBVIOUS
<1> HIDE DEF R
<1>4. \A z \in R \cup {x} : h[z] \in Int /\ k[z] \in Int
  BY <1>1, <1>2
<1>5. Total(h, R) \in Int /\ Total(k, R) = Total(h, R)
  BY <1>1, <1>3, TotalSame
<1>6. Total(h, S) = Total(h, R) + h[x]
  BY <1>1, <1>4, TotalInsert
<1>7. Total(k, S) = Total(k, R) + k[x]
  BY <1>1, <1>4, TotalInsert
<1>8. Total(k, S \cup {y}) = Total(k, S) + k[y]
  BY <1>2, TotalInsert
<1>9. h[x] \in Int
  OBVIOUS
<1>10. Cardinality(S \cup {y}) = Cardinality(S) + 1
  BY FS_AddElement
<1> QED
  BY <1>5, <1>6, <1>7, <1>8, <1>9, <1>10

\* A step that leaves the blocks, their sizes and the counters alone.
LEMMA CountsSame ==
    ASSUME StatisticsExact, UNCHANGED <<size, blocks, mapped, leaked, statVars>>
    PROVE  StatisticsExact'
<1>1. Everything' = Everything
  BY DEF Everything
<1> QED
  BY <1>1, CountsAre, CountsAreStill DEF CountsExact, statVars

LEMMA SplitCounts ==
    ASSUME CountInv, StatisticsExact, SplitBlock
    PROVE  StatisticsExact'
<1>0. HeapInv
  BY DEF CountInv
<1>1. call.pc = "split" /\ HalfSuffices /\ UNCHANGED <<mapped, leaked, initialized, live>>
  BY DEF SplitBlock
<1>2. PICK o, left : o = call.cur /\ left = Head(freeBlocksList[o])
  OBVIOUS
<1>3. /\ o \in Orders /\ left \in blocks /\ Full(left) = BlockSizeByOrder(o)
      /\ getRequiredOrder(call.n) \in Orders /\ o > getRequiredOrder(call.n)
  BY <1>0, <1>1, <1>2, SplitEnds
<1>4. o \in Nat /\ o # 0 /\ o - 1 \in Orders
  <2>1. o \in Nat /\ getRequiredOrder(call.n) \in Nat
    BY <1>3, OrdersAre
  <2>2. o # 0
    BY <1>3, <2>1
  <2> QED
    BY <1>3, <2>1, <2>2, OrdersAre
<1>5. PICK h \in Nat \ {0} : h = BlockSizeByOrder(o - 1) /\ BlockSizeByOrder(o) = 2 * h
  <2>1. BlockSizeByOrder(o - 1) \in Nat /\ BlockSizeByOrder(o - 1) >= 4 /\ BlockSizeByOrder(o) = 2 * BlockSizeByOrder(o - 1)
    BY <1>3, <1>4, OrderSizes
  <2>2. BlockSizeByOrder(o - 1) \in Nat \ {0}
    BY <2>1
  <2> QED
    BY <2>1, <2>2
<1>6. (size[left] + 1) \div 2 = h
  BY <1>3, <1>5 DEF Full
<1>7. PICK right : right = left + h
  OBVIOUS
<1>8. /\ size' = [size EXCEPT ![left] = h - 1, ![right] = h - 1]
      /\ blocks' = blocks \cup {right}
      /\ allocatedBlocks' = allocatedBlocks + 1 /\ allocatedBytes' = allocatedBytes - 1
      /\ metadataBytes' = metadataBytes + 1
  BY <1>2, <1>6, <1>7 DEF SplitBlock, RightHalf
<1>9. /\ right \in Addrs /\ right \notin blocks /\ right # left
      /\ size'[left] = h - 1 /\ size'[right] = h - 1
      /\ \A p \in Pointers : p # left /\ p # right => size'[p] = size[p]
  <2>1. HeapTypes /\ HeapOK
    BY <1>0 DEF HeapInv
  <2>2. Full(left) = 2 * h
    BY <1>3, <1>5
  <2>3. SplitInto(left, right, h)
    BY <1>1, <1>8 DEF SplitInto
  <2> QED
    BY <1>3, <1>4, <1>5, <1>7, <2>1, <2>2, <2>3, HeapSplit
<1>10. left \in Everything /\ right \notin Everything /\ Everything' = Everything \cup {right}
  BY <1>0, <1>1, <1>3, <1>8, <1>9, PointersAre DEF CountInv, LeakedOK, HeapInv, HeapTypes, Everything
<1>11. \A p \in Everything \ {left} : size'[p] = size[p]
  BY <1>9, <1>10, EverythingFinite
<1>12. size[left] = 2 * h - 1
  <2>1. size[left] \in Int
    BY <1>10, EverythingFinite
  <2> QED
    BY <1>3, <1>5, <2>1 DEF Full
<1>13. h - 1 \in Int
  BY <1>5
<1>14. /\ Total(size, Everything) \in Int
       /\ Total(size', Everything \cup {right}) = Total(size, Everything) - size[left] + size'[left] + size'[right]
       /\ Cardinality(Everything \cup {right}) = Cardinality(Everything) + 1
  <2>1. PICK S, k : S = Everything /\ k = size'
    OBVIOUS
  <2>2. IsFiniteSet(S) /\ left \in S /\ right \notin S /\ \A p \in S : size[p] \in Int
    BY <1>10, <2>1, EverythingFinite
  <2>3. (\A p \in S \ {left} : k[p] = size[p]) /\ k[left] \in Int /\ k[right] \in Int
    BY <1>9, <1>11, <1>13, <2>1
  <2>4. /\ Total(size, S) \in Int
        /\ Total(k, S \cup {right}) = Total(size, S) - size[left] + k[left] + k[right]
        /\ Cardinality(S \cup {right}) = Cardinality(S) + 1
    BY <2>2, <2>3, TotalSplit
  <2> QED
    BY <2>1, <2>4
<1>15. Total(size', Everything') = Total(size, Everything) - 1
  BY <1>5, <1>9, <1>10, <1>12, <1>14
<1> QED
  BY <1>8, <1>10, <1>14, <1>15, CountsAre, CountsAreStill DEF CountsExact

LEMMA MergeCounts ==
    ASSUME CountInv, StatisticsExact, MergeBuddies
    PROVE  StatisticsExact'
<1>0. HeapInv
  BY DEF CountInv
<1>1. call.pc = "merge" /\ Mergeable /\ mapped' = mapped /\ leaked' = leaked
  BY DEF MergeBuddies
<1>2. PICK b, y, t : b = call.cur /\ y = findBuddy(b) /\ t = Full(b)
  OBVIOUS
<1>3. b \in blocks /\ FreePair(b) /\ t < BlockSize
  BY <1>0, <1>1, <1>2, MergeableBelow DEF HeapInv, CallOK, FreePair
<1>4. y \in blocks /\ y # b /\ size[y] = size[b]
  BY <1>0, <1>2, <1>3, BuddyIsBlock DEF HeapInv, FreePair
<1>5. t \in Nat \ {0} /\ b \in Nat /\ size[b] \in Nat /\ t = size[b] + 1 /\ y \in Nat
  BY <1>0, <1>2, <1>3, <1>4, BlockFacts DEF HeapInv, Full
<1>6. PICK low, high : /\ low \in Nat /\ high = low + t
                       /\ (b = low /\ y = high) \/ (b = high /\ y = low)
  <2>1. PICK base \in Nat : (b = base /\ y = base + t) \/ (b = base + t /\ y = base)
    BY <1>0, <1>2, <1>3, BuddyIsBlock DEF HeapInv
  <2> QED
    BY <2>1
<1>7. Min({b, y}) = low /\ Max({b, y}) = high
  <2>1. low < high /\ low \in Nat /\ high \in Nat /\ {b, y} = {low, high}
    BY <1>5, <1>6
  <2>2. Min({low, high}) = low
    BY <2>1 DEF Min
  <2>3. Max({low, high}) = high
    BY <2>1 DEF Max
  <2> QED
    BY <2>1, <2>2, <2>3
<1>8. /\ size' = [size EXCEPT ![low] = 2 * size[b] + 1]
      /\ blocks' = blocks \ {high}
      /\ allocatedBlocks' = allocatedBlocks - 1 /\ allocatedBytes' = allocatedBytes + 1
      /\ metadataBytes' = metadataBytes - 1
  BY <1>2, <1>7 DEF MergeBuddies, CountMerge
<1>9. low \in blocks /\ high \in blocks /\ low # high /\ size[low] = size[b] /\ size[high] = size[b]
  BY <1>3, <1>4, <1>6
<1>10. /\ low \in Everything' /\ high \notin Everything' /\ Everything = Everything' \cup {high}
  BY <1>0, <1>1, <1>8, <1>9, PointersAre DEF CountInv, LeakedOK, HeapInv, HeapTypes, Everything
<1>11. size'[low] = 2 * size[b] + 1 /\ \A p \in Pointers : p # low => size'[p] = size[p]
  <2>1. low \in Pointers /\ size \in [Pointers -> Nat]
    BY <1>0, <1>9, BlockFacts DEF HeapInv, HeapTypes
  <2> QED
    BY <1>8, <2>1
<1>12. IsFiniteSet(Everything') /\ \A p \in Everything' : p \in Pointers /\ size'[p] \in Int
  <2>1. IsFiniteSet(Everything) /\ Everything \subseteq Pointers /\ \A p \in Everything : size[p] \in Int
    BY EverythingFinite
  <2>2. Everything' \subseteq Everything
    BY <1>10
  <2>3. 2 * size[b] + 1 \in Int
    BY <1>5
  <2> QED
    BY <1>11, <2>1, <2>2, <2>3, FS_Subset
<1>13. PICK S, k : S = Everything' /\ k = size'
  OBVIOUS
<1>14. /\ Total(k, S) \in Int
       /\ Total(size, S \cup {high}) = Total(k, S) - k[low] + size[low] + size[high]
       /\ Cardinality(S \cup {high}) = Cardinality(S) + 1
  <2>1. IsFiniteSet(S) /\ low \in S /\ high \notin S /\ \A p \in S : k[p] \in Int
    BY <1>10, <1>12, <1>13
  <2>2. \A p \in S \ {low} : size[p] = k[p]
    BY <1>11, <1>12, <1>13
  <2>3. size[low] \in Int /\ size[high] \in Int
    BY <1>5, <1>9
  <2> QED
    BY <2>1, <2>2, <2>3, TotalSplit
<1>15. Cardinality(S) \in Nat
  BY <1>12, <1>13, FS_CardinalityType
<1>16. Total(k, S) = Total(size, Everything) + 1 /\ Cardinality(S) = Cardinality(Everything) - 1
  <2>1. S \cup {high} = Everything /\ k[low] = 2 * size[b] + 1
    BY <1>10, <1>11, <1>13
  <2>2. /\ Total(size, Everything) = Total(k, S) - (2 * size[b] + 1) + size[b] + size[b]
        /\ Cardinality(Everything) = Cardinality(S) + 1
    BY <1>9, <1>14, <2>1
  <2> QED
    BY <1>5, <1>14, <1>15, <2>2
<1> QED
  BY <1>8, <1>13, <1>16, CountsAre, CountsAreStill DEF CountsExact

LEMMA MapCounts ==
    ASSUME CountInv, StatisticsExact, MapLarge
    PROVE  StatisticsExact'
<1> USE DEF MapLarge
<1>1. CASE ReturnNULL /\ UNCHANGED <<size, is_free, mapped, statVars>>
  BY <1>1, CountsSame
<1>2. CASE \E m \in Mappings \ (mapped \cup leaked) :
             /\ size' = [size EXCEPT ![m] = call.n]
             /\ mapped' = mapped \cup {m}
             /\ allocatedBlocks' = allocatedBlocks + 1
             /\ allocatedBytes' = allocatedBytes + call.n
             /\ metadataBytes' = metadataBytes + 1
  <2>1. PICK m \in Mappings \ (mapped \cup leaked) :
             /\ size' = [size EXCEPT ![m] = call.n]
             /\ mapped' = mapped \cup {m}
             /\ allocatedBlocks' = allocatedBlocks + 1
             /\ allocatedBytes' = allocatedBytes + call.n
             /\ metadataBytes' = metadataBytes + 1
    BY <1>2
  <2>2. m \in Pointers /\ m \notin blocks /\ call.n \in Nat /\ size \in [Pointers -> Nat]
    BY PointersAre, CallTypes DEF CountInv, HeapInv, HeapTypes
  <2>3. m \notin Everything /\ Everything' = Everything \cup {m}
    BY <2>1, <2>2 DEF Everything
  <2>4. size'[m] = call.n /\ \A p \in Everything : size'[p] = size[p] /\ size'[p] \in Int
    BY <2>1, <2>2, <2>3, EverythingFinite
  <2>5. Total(size, Everything) \in Int /\ Total(size', Everything) = Total(size, Everything)
    BY <2>4, EverythingFinite, TotalSame
  <2>6. \A p \in Everything \cup {m} : size'[p] \in Int
    BY <2>2, <2>4
  <2>7. Total(size', Everything \cup {m}) = Total(size', Everything) + size'[m]
    BY <2>3, <2>6, EverythingFinite, TotalInsert
  <2>8. Cardinality(Everything \cup {m}) = Cardinality(Everything) + 1
    BY <2>3, EverythingFinite, FS_AddElement
  <2> QED
    BY <2>1, <2>3, <2>4, <2>5, <2>7, <2>8, CountsAre, CountsAreStill DEF CountsExact
<1> QED
  BY <1>1, <1>2

LEMMA UnmapCounts ==
    ASSUME CountInv, StatisticsExact, FreeMapping
    PROVE  StatisticsExact'
<1> USE DEF FreeMapping, heapVars
<1>0. HeapInv
  BY DEF CountInv
<1>1. PICK p : p = call.cur
  OBVIOUS
<1>2. p \in Used
  BY <1>0, <1>1 DEF HeapInv, HeldOK
<1>3. p \notin blocks
  <2> SUFFICES ASSUME p \in blocks PROVE FALSE
    OBVIOUS
  <2>1. Full(p) \in Nat /\ Full(p) <= BlockSize /\ Full(p) = size[p] + 1
    BY <1>0, BlockFacts DEF HeapInv, Full
  <2> QED
    BY <1>1, <2>1, BlockSizeIs
<1>4. CASE leaked' = leaked \cup {p} /\ UNCHANGED statVars
  <2>1. Everything' = Everything
    BY <1>1, <1>2, <1>3, <1>4 DEF Used, Everything
  <2> QED
    BY <1>4, <2>1, CountsAre, CountsAreStill DEF CountsExact, statVars
<1>5. CASE /\ allocatedBlocks' = allocatedBlocks - 1
           /\ allocatedBytes' = allocatedBytes - size[p]
           /\ metadataBytes' = metadataBytes - 1
           /\ UNCHANGED leaked
  <2>4. p \in Everything /\ Everything' = Everything \ {p}
    BY <1>1, <1>2, <1>3, <1>5 DEF Used, Everything, CountInv, LeakedOK
  <2>5. IsFiniteSet(Everything \ {p}) /\ Cardinality(Everything \ {p}) = Cardinality(Everything) - 1
    BY <2>4, EverythingFinite, FS_RemoveElement
  <2>6. PICK R : R = Everything \ {p}
    OBVIOUS
  <2>7. R \cup {p} = Everything /\ p \notin R /\ \A x \in R \cup {p} : size[x] \in Int
    BY <2>4, <2>6, EverythingFinite
  <2>8. Total(size, R) \in Int /\ Total(size, Everything) = Total(size, R) + size[p]
    <3>1. IsFiniteSet(R)
      BY <2>5, <2>6
    <3>2. Total(size, R) \in Int /\ Total(size, R \cup {p}) = Total(size, R) + size[p]
      BY <2>7, <3>1, TotalInsert
    <3> QED
      BY <2>7, <3>2
  <2>9. size[p] \in Int
    BY <2>7
  <2>10. Total(size, R) = Total(size, Everything) - size[p]
    BY <2>8, <2>9
  <2> QED
    BY <1>1, <1>5, <2>4, <2>5, <2>6, <2>10, CountsAre, CountsAreStill DEF CountsExact
<1> QED
  BY <1>1, <1>4, <1>5

\* initHeap has as many top blocks as it counts.
LEMMA TopCount ==
    LET bases == {i * BlockSize : i \in 0 .. NumBlocks - 1}
    IN  IsFiniteSet(bases) /\ Cardinality(bases) = NumBlocks
<1> DEFINE bases == {i * BlockSize : i \in 0 .. NumBlocks - 1}
           at == [i \in 0 .. NumBlocks - 1 |-> i * BlockSize]
<1>1. NumBlocks \in Nat \ {0} /\ BlockSize \in Nat /\ BlockSize >= 4
  BY AllocatorConstants, BlockSizeIs
<1>2. IsFiniteSet(0 .. NumBlocks - 1) /\ Cardinality(0 .. NumBlocks - 1) = NumBlocks
  <2>1. NumBlocks - 1 \in Int /\ 0 <= NumBlocks - 1 /\ (NumBlocks - 1) - 0 + 1 = NumBlocks
    BY <1>1
  <2> QED
    BY <2>1, FS_Interval
<1>3. ASSUME NEW i \in 0 .. NumBlocks - 1, NEW j \in 0 .. NumBlocks - 1, i * BlockSize = j * BlockSize
      PROVE  i = j
  <2>1. i \in Nat /\ j \in Nat
    BY <1>1
  <2>2. i < j => i * BlockSize < j * BlockSize
    BY <1>1, <2>1
  <2>3. j < i => j * BlockSize < i * BlockSize
    BY <1>1, <2>1
  <2>4. i * BlockSize \in Nat /\ j * BlockSize \in Nat
    BY <1>1, <2>1
  <2> QED
    BY <1>3, <2>1, <2>2, <2>3, <2>4
<1>4. at \in Bijection(0 .. NumBlocks - 1, bases)
  <2>1. at \in [0 .. NumBlocks - 1 -> bases]
    OBVIOUS
  <2>2. \A i, j \in 0 .. NumBlocks - 1 : at[i] = at[j] => i = j
    BY <1>3
  <2>3. \A b \in bases : \E i \in 0 .. NumBlocks - 1 : at[i] = b
    OBVIOUS
  <2> HIDE DEF bases, at
  <2> QED
    BY <2>1, <2>2, <2>3 DEF Bijection, Injection, Surjection, IsInjective
<1> HIDE DEF bases, at
<1>5. PICK S : S = 0 .. NumBlocks - 1
  OBVIOUS
<1>6. IsFiniteSet(bases) /\ Cardinality(bases) = NumBlocks
  <2>1. IsFiniteSet(S) /\ Cardinality(S) = NumBlocks /\ at \in Bijection(S, bases)
    BY <1>2, <1>4, <1>5
  <2> QED
    BY <2>1, FS_Bijection DEF ExistsBijection
<1> QED
  BY <1>6 DEF bases

LEMMA InitCounts ==
    ASSUME CountInv, StatisticsExact, initHeap
    PROVE  StatisticsExact' \/ (~initialized /\ initialized' /\ StatisticsOf(blocks)')
<1> DEFINE bases == {i * BlockSize : i \in 0 .. NumBlocks - 1}
<1>1. ~initialized /\ mapped' = mapped /\ leaked' = leaked
  BY DEF initHeap
<1>2. CASE UNCHANGED <<heapVars, statVars, initialized>>
  BY <1>1, <1>2, CountsSame DEF heapVars
<1>3. CASE /\ size' = [p \in Pointers |-> IF p \in bases THEN BlockSize - 1 ELSE size[p]]
           /\ blocks' = bases
           /\ allocatedBlocks' = NumBlocks
           /\ allocatedBytes' = NumBlocks * (BlockSize - 1)
           /\ metadataBytes' = NumBlocks
           /\ initialized' = TRUE
  <2>1. IsFiniteSet(bases) /\ Cardinality(bases) = NumBlocks
    BY TopCount
  <2>2. bases \subseteq Pointers
    BY TopBlocks, PointersAre
  <2> HIDE DEF bases
  <2>4. BlockSize - 1 \in Int
    BY BlockSizeIs
  <2>5. \A p \in bases : size'[p] = BlockSize - 1
    BY <1>3, <2>2
  <2>6. Total(size', bases) = Cardinality(bases) * (BlockSize - 1)
    BY <2>1, <2>4, <2>5, TotalEqual
  <2>7. StatisticsOf(blocks)'
    BY <1>3, <2>1, <2>6, HeapCountsAreStill DEF HeapCounts
  <2> QED
    BY <1>1, <1>3, <2>7
<1> QED
  BY <1>2, <1>3 DEF initHeap

LEMMA MappedFinite == CountInv /\ [Next]_vars => CountInv'
<1> SUFFICES ASSUME CountInv, [Next]_vars PROVE CountInv'
  OBVIOUS
<1>1. HeapInv'
  BY HeapNext DEF CountInv
<1>2. CASE MapLarge
  <2>1. IsFiniteSet(mapped') /\ leaked' = leaked /\ LeakedOK'
    <3>1. /\ (\E m \in Mappings \ leaked : mapped' = mapped \cup {m}) \/ mapped' = mapped
          /\ leaked' = leaked
      BY <1>2 DEF MapLarge
    <3> QED
      BY <3>1, FS_AddElement DEF CountInv, LeakedOK
  <2> QED
    BY <1>1, <2>1 DEF CountInv
<1>3. CASE FreeMapping
  <2>1. mapped' = mapped \ {call.cur} /\ (leaked' = leaked \/ leaked' = leaked \cup {call.cur})
    BY <1>3 DEF FreeMapping
  <2>2. call.cur \in mapped /\ call.cur \in Mappings
    <3>1. call.cur \in Used
      BY <1>3 DEF CountInv, HeapInv, HeldOK, FreeMapping
    <3>2. call.cur \notin blocks
      <4> SUFFICES ASSUME call.cur \in blocks PROVE FALSE
        OBVIOUS
      <4>1. Full(call.cur) \in Nat /\ Full(call.cur) <= BlockSize /\ Full(call.cur) = size[call.cur] + 1
        BY BlockFacts DEF CountInv, HeapInv, Full
      <4> QED
        BY <1>3, <4>1, BlockSizeIs DEF FreeMapping
    <3> QED
      BY <3>1, <3>2 DEF Used, CountInv, HeapInv, HeapTypes
  <2>3. IsFiniteSet(mapped') /\ IsFiniteSet(leaked')
    BY <2>1, FS_Subset, FS_AddElement DEF CountInv
  <2>4. LeakedOK'
    BY <2>1, <2>2 DEF CountInv, LeakedOK
  <2> QED
    BY <1>1, <2>3, <2>4 DEF CountInv
<1>4. CASE ~MapLarge /\ ~FreeMapping
  <2>1. mapped' = mapped /\ leaked' = leaked
    BY <1>4 DEF Next, Step, smalloc, scalloc, sfree, srealloc, initHeap, AlreadyInitialized, RejectSize,
       FindOrder, SplitBlock, TakeBlock, FreeBlock, MergeBuddies, MergeDone, vars
  <2> QED
    BY <1>1, <2>1 DEF CountInv, LeakedOK
<1> QED
  BY <1>2, <1>3, <1>4

LEMMA Counted == Spec => []CountInv
<1>1. Init => CountInv
  <2> SUFFICES ASSUME Init PROVE CountInv
    OBVIOUS
  <2>1. IsFiniteSet(mapped) /\ IsFiniteSet(leaked) /\ LeakedOK
    BY FS_EmptySet DEF Init, LeakedOK
  <2> QED
    BY <2>1, HeapInitially DEF CountInv
<1> QED
  BY <1>1, MappedFinite, PTL DEF Spec

LEMMA StatisticsStep ==
    ASSUME CountInv, [Next]_vars, StatisticsExact
    PROVE  StatisticsExact' \/ (~initialized /\ initialized' /\ StatisticsOf(blocks)')
<1>1. CASE initHeap
  BY <1>1, InitCounts
<1>2. CASE MapLarge
  BY <1>2, MapCounts
<1>3. CASE SplitBlock
  BY <1>3, SplitCounts
<1>4. CASE FreeMapping
  BY <1>4, UnmapCounts
<1>5. CASE MergeBuddies
  BY <1>5, MergeCounts
<1>6. CASE ~initHeap /\ ~MapLarge /\ ~SplitBlock /\ ~FreeMapping /\ ~MergeBuddies
  <2>1. UNCHANGED <<size, blocks, mapped, leaked, statVars>>
    BY <1>6 DEF Next, Step, smalloc, scalloc, sfree, srealloc, AlreadyInitialized, RejectSize,
       FindOrder, TakeBlock, FreeBlock, MergeDone, vars, heapVars
  <2> QED
    BY <2>1, CountsSame
<1> QED
  BY <1>1, <1>2, <1>3, <1>4, <1>5, <1>6

\* Every split, merge, mapping and unmapping counts the blocks, their payload and their metadata
\* as they then are: once true, the statistics stay true, but for initHeap, which counts the
\* heap alone.
THEOREM StatisticsKeptHolds == Spec => StatisticsKept
<1>1. CountInv /\ [Next]_vars => 
         [StatisticsExact => \/ StatisticsExact'
                             \/ ~initialized /\ initialized' /\ StatisticsOf(blocks)']_vars
  BY StatisticsStep
<1> QED
  BY <1>1, Counted, PTL DEF Spec, StatisticsKept
=============================================================================
