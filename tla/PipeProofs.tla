------------------------------ MODULE PipeProofs ------------------------------
(***************************************************************************)
(* What fs/pipe.c keeps, for any number of files that use the pipe, pages  *)
(* of any size and rings of any length.                                    *)
(***************************************************************************)
EXTENDS Pipe, FiniteSums, SequenceTheorems, TLAPS

-----------------------------------------------------------------------------
(* Numbers and sequences *)

\* What holds of the first number of an interval, and of each one after it if it holds
\* of the one before, holds of all: they are the ones that S holds.
LEMMA Interval ==
    ASSUME NEW a \in Nat, NEW b \in Nat, NEW S, a \in S,
           \A i \in a + 1 .. b : i - 1 \in S => i \in S
    PROVE  \A i \in a .. b : i \in S
<1> DEFINE Bad == {i \in a .. b : i \notin S}
<1> SUFFICES ASSUME Bad # {} PROVE FALSE
  OBVIOUS
<1>1. Bad \in SUBSET Nat
  OBVIOUS
<1>2. PICK k \in Bad : \A m \in Bad : k <= m
  <2> HIDE DEF Bad
  <2> QED
    BY <1>1, LeastNatural
<1>3. k # a
  BY <1>2
<1>4. k - 1 \in a .. b /\ k - 1 \notin Bad /\ k \in a + 1 .. b
  BY <1>2, <1>3
<1> QED
  BY <1>2, <1>4

LEMMA MinOfTwo ==
    ASSUME NEW a \in Nat, NEW b \in Nat
    PROVE  Min({a, b}) \in Nat /\ Min({a, b}) <= a /\ Min({a, b}) <= b /\ Min({a, b}) \in {a, b}
<1>1. \E x \in {a, b} : \A y \in {a, b} : x <= y
  <2>1. CASE a <= b
    BY <2>1
  <2>2. CASE b <= a
    BY <2>2
  <2> QED
    BY <2>1, <2>2
<1> QED
  BY <1>1 DEF Min

\* The remainder, which is where the ring wraps around.
LEMMA ModSmall ==
    ASSUME NEW n \in Nat \ {0}, NEW a \in 0 .. n + n - 1
    PROVE  a % n = IF a < n THEN a ELSE a - n
OBVIOUS

\* The powers of two up to the n-th.
Powers(n, pow) == pow \in [0 .. n -> Nat] /\ pow[0] = 1 /\ \A i \in 1 .. n : pow[i] = 2 * pow[i - 1]

LEMMA PowersExist ==
    ASSUME NEW n \in Nat
    PROVE  \E pow : Powers(n, pow)
<1> DEFINE S == {k \in Nat : \E pow : Powers(k, pow)}
<1>1. 0 \in S
  <2>1. Powers(0, [i \in 0 .. 0 |-> 1])
    BY DEF Powers
  <2> QED
    BY <2>1
<1>2. ASSUME NEW k \in 0 + 1 .. n, k - 1 \in S
      PROVE  k \in S
  <2>1. PICK pow : Powers(k - 1, pow)
    BY <1>2
  <2> DEFINE longer == [i \in 0 .. k |-> IF i = k THEN 2 * pow[k - 1] ELSE pow[i]]
  <2>2. pow \in [0 .. k - 1 -> Nat] /\ pow[0] = 1 /\ \A i \in 1 .. k - 1 : pow[i] = 2 * pow[i - 1]
    BY <2>1 DEF Powers
  <2>3. longer \in [0 .. k -> Nat] /\ longer[0] = 1
    BY <2>2
  <2>4. ASSUME NEW i \in 1 .. k
        PROVE  longer[i] = 2 * longer[i - 1]
    <3>1. longer[i - 1] = pow[i - 1]
      OBVIOUS
    <3>2. CASE i = k
      BY <3>1, <3>2
    <3>3. CASE i # k
      BY <2>2, <3>1, <3>3
    <3> QED
      BY <3>2, <3>3
  <2>5. Powers(k, longer)
    BY <2>3, <2>4 DEF Powers
  <2> QED
    BY <2>5
<1>3. \A k \in 0 .. n : k \in S
  <2> HIDE DEF S
  <2> QED
    BY <1>1, <1>2, Interval
<1> QED
  BY <1>3

\* roundup_pow_of_two finds a number, and one that is large enough.
LEMMA RoundupType ==
    ASSUME NEW n \in Nat \ {0}
    PROVE  roundup_pow_of_two(n) \in Nat \ {0} /\ roundup_pow_of_two(n) >= n
<1> DEFINE Is(f) == f = [i \in 0 .. n |-> IF i = 0 THEN 1 ELSE 2 * f[i - 1]]
           pow == CHOOSE f : Is(f)
           Fits(p) == p >= n /\ p \div 2 < n
<1>1. \E f : Is(f)
  <2>1. PICK f : Powers(n, f)
    BY PowersExist
  <2>2. Is(f)
    BY <2>1 DEF Powers
  <2> QED
    BY <2>2
<1>2. Is(pow)
  <2> HIDE DEF Is
  <2> QED
    BY <1>1
<1>3. roundup_pow_of_two(n) = CHOOSE p \in {pow[i] : i \in 0 .. n} : Fits(p)
  BY DEF roundup_pow_of_two
<1> HIDE DEF pow
<1>4. pow[0] = 1 /\ \A i \in 1 .. n : pow[i] = 2 * pow[i - 1]
  BY <1>2
<1>5. \A i \in 0 .. n : pow[i] \in Nat /\ pow[i] > i
  <2> DEFINE S == {i \in 0 .. n : pow[i] \in Nat /\ pow[i] > i}
  <2>1. 0 \in S
    BY <1>4
  <2>2. \A i \in 0 + 1 .. n : i - 1 \in S => i \in S
    BY <1>4
  <2>3. \A i \in 0 .. n : i \in S
    <3> HIDE DEF S
    <3> QED
      BY <2>1, <2>2, Interval
  <2> QED
    BY <2>3
<1>6. \E p \in {pow[i] : i \in 0 .. n} : Fits(p)
  <2> DEFINE T == {i \in 0 .. n : pow[i] >= n}
  <2>1. n \in T /\ T \in SUBSET Nat
    BY <1>5
  <2>2. PICK k \in T : \A m \in T : k <= m
    <3> HIDE DEF T
    <3> QED
      BY <2>1, LeastNatural
  <2>3. CASE k = 0
    <3>1. Fits(pow[k])
      BY <1>4, <2>2, <2>3
    <3> QED
      BY <2>2, <3>1
  <2>4. CASE k # 0
    <3>1. k - 1 \in 0 .. n /\ k - 1 \notin T /\ pow[k] = 2 * pow[k - 1] /\ pow[k - 1] \in Nat
      BY <1>4, <1>5, <2>2, <2>4
    <3>2. Fits(pow[k])
      BY <2>2, <3>1
    <3> QED
      BY <2>2, <3>2
  <2> QED
    BY <2>3, <2>4
<1>7. roundup_pow_of_two(n) \in {pow[i] : i \in 0 .. n} /\ Fits(roundup_pow_of_two(n))
  BY <1>3, <1>6
<1> QED
  BY <1>5, <1>7

Bytes == Seq(Nat)

\* What is behind the first n bytes of two runs of bytes.
LEMMA CutConcat ==
    ASSUME NEW a \in Bytes, NEW b \in Bytes, NEW n \in 0 .. Len(a)
    PROVE  /\ SubSeq(a, n + 1, Len(a)) \in Bytes /\ Len(SubSeq(a, n + 1, Len(a))) = Len(a) - n
           /\ SubSeq(a \o b, n + 1, Len(a \o b)) = SubSeq(a, n + 1, Len(a)) \o b
<1> DEFINE l == SubSeq(a \o b, n + 1, Len(a \o b))
           c == SubSeq(a, n + 1, Len(a))
<1>1. a \o b \in Bytes /\ Len(a \o b) = Len(a) + Len(b) /\ Len(a) \in Nat /\ Len(b) \in Nat
      /\ \A i \in 1 .. Len(a) + Len(b) : (a \o b)[i] = IF i <= Len(a) THEN a[i] ELSE b[i - Len(a)]
  BY ConcatProperties, LenProperties DEF Bytes
<1>2. c \in Bytes /\ Len(c) = Len(a) - n /\ \A i \in 1 .. Len(a) - n : c[i] = a[n + i]
  BY <1>1 DEF Bytes
<1>3. l \in Bytes /\ Len(l) = Len(a) - n + Len(b) /\ \A i \in 1 .. Len(l) : l[i] = (a \o b)[n + i]
  <2> DEFINE w == a \o b
  <2>1. w \in Seq(Nat) /\ n + 1 \in Int /\ Len(w) \in Int /\ Len(w) = Len(a) + Len(b)
        /\ \A i \in n + 1 .. Len(w) : w[i] \in Nat
    BY <1>1 DEF Bytes
  <2>2. l = SubSeq(w, n + 1, Len(w))
    OBVIOUS
  <2> HIDE DEF w, l
  <2>3. Len(w) \in Nat /\ n \in Nat /\ n <= Len(w)
    BY <1>1, <2>1
  <2>4. l \in Seq(Nat) /\ Len(l) = Len(w) - n /\ \A i \in 1 .. Len(w) - n : l[i] = w[n + i]
    BY <2>1, <2>2, <2>3
  <2> QED
    BY <1>1, <2>1, <2>4 DEF Bytes, w
<1> HIDE DEF l, c
<1>4. /\ c \o b \in Bytes /\ Len(c \o b) = Len(a) - n + Len(b)
      /\ \A i \in 1 .. Len(c) + Len(b) : (c \o b)[i] = IF i <= Len(c) THEN c[i] ELSE b[i - Len(c)]
  <2>1. /\ c \o b \in Seq(Nat) /\ Len(c \o b) = Len(c) + Len(b)
        /\ \A i \in 1 .. Len(c) + Len(b) : (c \o b)[i] = IF i <= Len(c) THEN c[i] ELSE b[i - Len(c)]
    BY <1>2, ConcatProperties DEF Bytes
  <2> QED
    BY <1>2, <2>1 DEF Bytes
<1>5. ASSUME NEW i \in 1 .. Len(l)
      PROVE  l[i] = (c \o b)[i]
  <2>1. CASE i <= Len(c)
    BY <1>1, <1>2, <1>3, <1>4, <2>1
  <2>2. CASE i > Len(c)
    <3>1. l[i] = b[n + i - Len(a)]
      BY <1>1, <1>2, <1>3, <2>2
    <3>2. (c \o b)[i] = b[i - (Len(a) - n)]
      BY <1>1, <1>2, <1>3, <1>4, <2>2
    <3>3. n + i - Len(a) = i - (Len(a) - n)
      BY <1>1
    <3> QED
      BY <3>1, <3>2, <3>3
  <2> QED
    BY <1>1, <1>2, <1>3, <2>1, <2>2
<1>6. l = c \o b
  BY <1>3, <1>4, <1>5, SeqEqual DEF Bytes
<1> QED
  BY <1>2, <1>6 DEF l, c

\* Concatenation, by what it is known for.
Cat(a, b) == a \o b

LEMMA CutCat ==
    ASSUME NEW a \in Bytes, NEW b \in Bytes, NEW n \in 0 .. Len(a)
    PROVE  SubSeq(Cat(a, b), n + 1, Len(Cat(a, b))) = Cat(SubSeq(a, n + 1, Len(a)), b)
BY CutConcat DEF Cat

LEMMA CatProperties ==
    /\ \A a, b \in Bytes : Cat(a, b) \in Bytes /\ Len(Cat(a, b)) = Len(a) + Len(b)
    /\ \A a, b, c \in Bytes : Cat(Cat(a, b), c) = Cat(a, Cat(b, c))
    /\ \A a \in Bytes : Cat(<<>>, a) = a /\ Cat(a, <<>>) = a
<1>1. ASSUME NEW a \in Bytes, NEW b \in Bytes
      PROVE  Cat(a, b) \in Bytes /\ Len(Cat(a, b)) = Len(a) + Len(b)
  BY ConcatProperties DEF Cat, Bytes
<1>2. ASSUME NEW a \in Bytes, NEW b \in Bytes, NEW c \in Bytes
      PROVE  Cat(Cat(a, b), c) = Cat(a, Cat(b, c))
  BY ConcatAssociative DEF Cat, Bytes
<1>3. ASSUME NEW a \in Bytes
      PROVE  Cat(<<>>, a) = a /\ Cat(a, <<>>) = a
  BY ConcatEmptySeq DEF Cat, Bytes
<1> QED
  BY <1>1, <1>2, <1>3

\* acc[i] is the first i members of s, one behind the other.
Runs(s, n, acc) ==
    acc \in [0 .. n -> Bytes] /\ acc[0] = <<>> /\ \A i \in 1 .. n : acc[i] = Cat(acc[i - 1], s[i])

LEMMA RunsExist ==
    ASSUME NEW n \in Nat, NEW s \in [1 .. n -> Bytes]
    PROVE  \E acc : Runs(s, n, acc)
<1> DEFINE S == {k \in Nat : \E acc : Runs(s, k, acc)}
<1>1. 0 \in S
  <2>1. Runs(s, 0, [i \in 0 .. 0 |-> <<>>])
    BY DEF Runs, Bytes
  <2> QED
    BY <2>1
<1>2. ASSUME NEW k \in 0 + 1 .. n, k - 1 \in S
      PROVE  k \in S
  <2>1. PICK acc : Runs(s, k - 1, acc)
    BY <1>2
  <2>2. acc \in [0 .. k - 1 -> Bytes] /\ acc[0] = <<>> /\ \A i \in 1 .. k - 1 : acc[i] = Cat(acc[i - 1], s[i])
    BY <2>1 DEF Runs
  <2> DEFINE next == Cat(acc[k - 1], s[k])
             longer == [i \in 0 .. k |-> IF i = k THEN next ELSE acc[i]]
  <2>3. next \in Bytes
    BY <2>2, CatProperties
  <2>4. next = Cat(acc[k - 1], s[k])
    OBVIOUS
  <2> HIDE DEF next
  <2>5. longer \in [0 .. k -> Bytes] /\ longer[0] = <<>>
    BY <2>2, <2>3
  <2>6. ASSUME NEW i \in 1 .. k
        PROVE  longer[i] = Cat(longer[i - 1], s[i])
    <3>1. longer[i - 1] = acc[i - 1]
      OBVIOUS
    <3>2. CASE i = k
      BY <2>4, <3>1, <3>2
    <3>3. CASE i # k
      BY <2>2, <3>1, <3>3
    <3> QED
      BY <3>2, <3>3
  <2>7. Runs(s, k, longer)
    BY <2>5, <2>6 DEF Runs
  <2> QED
    BY <2>7
<1>3. \A k \in 0 .. n : k \in S
  <2> HIDE DEF S
  <2> QED
    BY <1>1, <1>2, Interval
<1> QED
  BY <1>3

LEMMA FlattenIsRun ==
    ASSUME NEW n \in Nat, NEW s \in [1 .. n -> Bytes]
    PROVE  \E acc : Runs(s, n, acc) /\ FlattenSeq(s) = acc[n]
<1>1. s \in Seq(Bytes) /\ Len(s) = n
  OBVIOUS
<1>2. PICK acc : Runs(s, n, acc)
  BY RunsExist
<1>3. acc \in [0 .. n -> Bytes] /\ acc[0] = <<>> /\ \A i \in 1 .. n : acc[i] = Cat(acc[i - 1], s[i])
  BY <1>2 DEF Runs
<1>4. CASE n = 0
  <2>1. s = <<>>
    BY <1>1, <1>4
  <2>2. FlattenSeq(s) = <<>>
    BY <1>1, <1>4, <2>1 DEF FlattenSeq
  <2> QED
    BY <1>2, <1>3, <1>4, <2>2
<1>5. CASE n # 0
  <2> DEFINE Is(f) == f = [i \in 1 .. n |-> IF i = 1 THEN s[i] ELSE Cat(f[i - 1], s[i])]
             flat == CHOOSE f : Is(f)
             short == [i \in 1 .. n |-> acc[i]]
  <2>1. acc[1] = s[1]
    <3>1. acc[1] = Cat(<<>>, s[1]) /\ s[1] \in Bytes
      BY <1>3, <1>5
    <3> QED
      BY <3>1, CatProperties
  <2>2. Is(short)
    BY <1>3, <2>1
  <2>3. Is(flat)
    <3> HIDE DEF Is, short
    <3> QED
      BY <2>2
  <2>4. FlattenSeq(s) = flat[n]
    BY <1>1, <1>5 DEF FlattenSeq, Cat
  <2> HIDE DEF flat
  <2>5. flat[1] = s[1] /\ \A i \in 1 + 1 .. n : flat[i] = Cat(flat[i - 1], s[i])
    BY <1>5, <2>3
  <2> DEFINE S == {i \in 1 .. n : flat[i] = acc[i]}
  <2>6. 1 \in S
    BY <1>5, <2>1, <2>5
  <2>7. \A i \in 1 + 1 .. n : i - 1 \in S => i \in S
    BY <1>3, <2>5
  <2>8. \A i \in 1 .. n : i \in S
    <3> HIDE DEF S
    <3> QED
      BY <2>6, <2>7, Interval
  <2>9. flat[n] = acc[n]
    BY <1>5, <2>8
  <2> QED
    BY <1>2, <2>4, <2>9
<1> QED
  BY <1>4, <1>5

\* One more run of bytes behind the others.
LEMMA FlattenAppend ==
    ASSUME NEW n \in Nat, NEW s \in [1 .. n -> Bytes], NEW t \in [1 .. n + 1 -> Bytes],
           \A i \in 1 .. n : t[i] = s[i]
    PROVE  FlattenSeq(s) \in Bytes /\ FlattenSeq(t) = Cat(FlattenSeq(s), t[n + 1])
<1>1. PICK a : Runs(s, n, a) /\ FlattenSeq(s) = a[n]
  BY FlattenIsRun
<1>2. PICK b : Runs(t, n + 1, b) /\ FlattenSeq(t) = b[n + 1]
  BY FlattenIsRun
<1> DEFINE S == {i \in 0 .. n : b[i] = a[i]}
<1>3. 0 \in S
  BY <1>1, <1>2 DEF Runs
<1>4. \A i \in 0 + 1 .. n : i - 1 \in S => i \in S
  BY <1>1, <1>2 DEF Runs
<1>5. \A i \in 0 .. n : i \in S
  <2> HIDE DEF S
  <2> QED
    BY <1>3, <1>4, Interval
<1>6. b[n + 1] = Cat(b[n], t[n + 1]) /\ b[n] = a[n] /\ a[n] \in Bytes
  BY <1>1, <1>2, <1>5 DEF Runs
<1> QED
  BY <1>1, <1>2, <1>6

\* One more in front of them.
LEMMA FlattenFirst ==
    ASSUME NEW n \in Nat, NEW s \in [1 .. n -> Bytes], NEW t \in [1 .. n + 1 -> Bytes],
           \A i \in 1 .. n : t[i + 1] = s[i]
    PROVE  FlattenSeq(s) \in Bytes /\ FlattenSeq(t) = Cat(t[1], FlattenSeq(s))
<1>1. PICK a : Runs(s, n, a) /\ FlattenSeq(s) = a[n]
  BY FlattenIsRun
<1>2. PICK b : Runs(t, n + 1, b) /\ FlattenSeq(t) = b[n + 1]
  BY FlattenIsRun
<1>3. /\ a \in [0 .. n -> Bytes] /\ a[0] = <<>> /\ \A i \in 1 .. n : a[i] = Cat(a[i - 1], s[i])
  BY <1>1 DEF Runs
<1>4. /\ b \in [0 .. n + 1 -> Bytes] /\ b[0] = <<>> /\ \A i \in 1 .. n + 1 : b[i] = Cat(b[i - 1], t[i])
  BY <1>2 DEF Runs
<1>5. t[1] \in Bytes
  OBVIOUS
<1> DEFINE S == {i \in 0 .. n : b[i + 1] = Cat(t[1], a[i])}
<1>6. 0 \in S
  <2>1. b[1] = Cat(<<>>, t[1])
    BY <1>4
  <2>2. Cat(t[1], a[0]) = Cat(t[1], <<>>)
    BY <1>3
  <2>3. b[0 + 1] = Cat(t[1], a[0])
    BY <1>5, <2>1, <2>2, CatProperties
  <2> QED
    BY <2>3
<1>7. ASSUME NEW i \in 0 + 1 .. n, i - 1 \in S
      PROVE  i \in S
  <2>1. b[i] = Cat(t[1], a[i - 1])
    BY <1>7
  <2>2. b[i + 1] = Cat(b[i], t[i + 1]) /\ t[i + 1] = s[i] /\ a[i] = Cat(a[i - 1], s[i])
    BY <1>3, <1>4
  <2>3. s[i] \in Bytes /\ a[i - 1] \in Bytes
    BY <1>3
  <2>4. b[i + 1] = Cat(t[1], a[i])
    <3>1. b[i + 1] = Cat(Cat(t[1], a[i - 1]), s[i])
      BY <2>1, <2>2
    <3>2. Cat(Cat(t[1], a[i - 1]), s[i]) = Cat(t[1], Cat(a[i - 1], s[i]))
      BY <1>5, <2>3, CatProperties
    <3> QED
      BY <2>2, <3>1, <3>2
  <2> QED
    BY <2>4
<1>8. \A i \in 0 .. n : i \in S
  <2> HIDE DEF S
  <2> QED
    BY <1>6, <1>7, Interval
<1>9. b[n + 1] = Cat(t[1], a[n]) /\ a[n] \in Bytes
  BY <1>3, <1>8
<1> QED
  BY <1>1, <1>2, <1>9

-----------------------------------------------------------------------------
(* The ring *)

Buffer == [offset : Nat, data : Bytes, packet : BOOLEAN]
Rings(n) == [bufs : [0 .. n - 1 -> Buffer], curbuf : 0 .. n - 1, nrbufs : 0 .. n, buffers : {n}]

\* A ring of pages none of which is used beyond its end.
Ring(r) ==
    /\ r.buffers \in Nat \ {0} /\ r \in Rings(r.buffers)
    /\ \A i \in 0 .. r.buffers - 1 : r.bufs[i].offset + Len(r.bufs[i].data) <= PAGE_SIZE

\* The buffers in use, in order.
Using(r) == [i \in 1 .. r.nrbufs |-> r.bufs[Index(r, i - 1)].data]

\* Two rings with the same fields but for the buffers in use.
SameSize(r, q) == q.buffers = r.buffers /\ Ring(q)

LEMMA NoBufferType == NoBuffer \in Buffer /\ NoBuffer.offset + Len(NoBuffer.data) <= PAGE_SIZE
BY PageSize DEF NoBuffer, Buffer, Bytes

LEMMA IndexType ==
    ASSUME NEW r, Ring(r), NEW i \in 0 .. r.buffers
    PROVE  /\ Index(r, i) \in 0 .. r.buffers - 1
           /\ r.curbuf + i < r.buffers => Index(r, i) = r.curbuf + i
           /\ r.curbuf + i >= r.buffers => Index(r, i) = r.curbuf + i - r.buffers
<1> DEFINE n == r.buffers
           a == r.curbuf + i
<1>1. n \in Nat \ {0} /\ a \in 0 .. n + n - 1
  BY DEF Ring, Rings
<1>2. Index(r, i) = a % n
  BY DEF Index
<1> HIDE DEF n, a
<1>3. a % n = IF a < n THEN a ELSE a - n
  BY <1>1, ModSmall
<1>4. Index(r, i) \in 0 .. n - 1 /\ (a < n => Index(r, i) = a) /\ (a >= n => Index(r, i) = a - n)
  BY <1>1, <1>2, <1>3
<1>5. r.curbuf \in Nat /\ r.buffers \in Nat /\ i \in Nat
  BY DEF Ring, Rings
<1> QED
  BY <1>4, <1>5 DEF n, a

\* Different buffers in use are at different places.
LEMMA IndexInjective ==
    ASSUME NEW r, Ring(r), NEW i \in 0 .. r.buffers - 1, NEW j \in 0 .. r.buffers - 1, i # j
    PROVE  Index(r, i) # Index(r, j)
<1>1. r.curbuf \in 0 .. r.buffers - 1 /\ r.buffers \in Nat \ {0}
  BY DEF Ring, Rings
<1>2. i \in 0 .. r.buffers /\ j \in 0 .. r.buffers
  BY <1>1
<1>3. /\ r.curbuf + i < r.buffers => Index(r, i) = r.curbuf + i
      /\ r.curbuf + i >= r.buffers => Index(r, i) = r.curbuf + i - r.buffers
      /\ r.curbuf + j < r.buffers => Index(r, j) = r.curbuf + j
      /\ r.curbuf + j >= r.buffers => Index(r, j) = r.curbuf + j - r.buffers
  BY <1>2, IndexType
<1> QED
  BY <1>1, <1>3

LEMMA UsingType ==
    ASSUME NEW r, Ring(r)
    PROVE  /\ Using(r) \in [1 .. r.nrbufs -> Bytes] /\ r.nrbufs \in Nat /\ r.nrbufs <= r.buffers
           /\ Content(r) = FlattenSeq(Using(r))
<1>1. r.nrbufs \in 0 .. r.buffers /\ r.buffers \in Nat /\ r.bufs \in [0 .. r.buffers - 1 -> Buffer]
  BY DEF Ring, Rings
<1>2. ASSUME NEW i \in 1 .. r.nrbufs
      PROVE  r.bufs[Index(r, i - 1)].data \in Bytes
  <2>1. i - 1 \in 0 .. r.buffers
    BY <1>1
  <2>2. Index(r, i - 1) \in 0 .. r.buffers - 1
    BY <2>1, IndexType
  <2>3. r.bufs[Index(r, i - 1)] \in Buffer
    BY <1>1, <2>2
  <2> QED
    BY <2>3 DEF Buffer
<1> QED
  BY <1>1, <1>2 DEF Using, Content

LEMMA ContentType ==
    ASSUME NEW r, Ring(r)
    PROVE  Content(r) \in Bytes
<1>1. PICK acc : Runs(Using(r), r.nrbufs, acc) /\ FlattenSeq(Using(r)) = acc[r.nrbufs]
  BY UsingType, FlattenIsRun
<1> QED
  BY <1>1, UsingType DEF Runs

LEMMA EmptyRingOK ==
    ASSUME NEW n \in Nat \ {0}
    PROVE  /\ Ring(EmptyRing(n)) /\ EmptyRing(n).nrbufs = 0 /\ EmptyRing(n).buffers = n
           /\ Content(EmptyRing(n)) = <<>>
<1> DEFINE r == EmptyRing(n)
<1>1. r.nrbufs = 0 /\ r.buffers = n /\ r \in Rings(n) /\ \A i \in 0 .. n - 1 : r.bufs[i] = NoBuffer
  BY NoBufferType DEF EmptyRing, Rings
<1> HIDE DEF r
<1>2. Ring(r)
  BY <1>1, NoBufferType DEF Ring
<1>3. Using(r) = <<>>
  BY <1>1 DEF Using
<1>4. Content(r) = <<>>
  <2>1. Len(Using(r)) = 0
    BY <1>3
  <2>2. FlattenSeq(Using(r)) = Using(r)
    BY <2>1 DEF FlattenSeq
  <2> QED
    BY <1>2, <1>3, <2>2, UsingType
<1> QED
  BY <1>1, <1>2, <1>4 DEF r

\* pipe_write puts a page behind the others.
LEMMA InsertOK ==
    ASSUME NEW r, Ring(r), ~Full(r), NEW bytes \in Bytes, Len(bytes) <= PAGE_SIZE, NEW packet \in BOOLEAN
    PROVE  /\ SameSize(r, Insert(r, bytes, packet)) /\ Insert(r, bytes, packet).nrbufs = r.nrbufs + 1
           /\ Content(Insert(r, bytes, packet)) = Cat(Content(r), bytes)
<1> DEFINE n == r.buffers
           k == Index(r, r.nrbufs)
           buf == [offset |-> 0, data |-> bytes, packet |-> packet]
           q == Insert(r, bytes, packet)
<1>1. n \in Nat \ {0} /\ r \in Rings(n) /\ r.nrbufs \in 0 .. n - 1
  BY DEF Ring, Rings, Full
<1>2. k \in 0 .. n - 1
  BY <1>1, IndexType
<1>3. buf \in Buffer /\ buf.data = bytes /\ buf.offset + Len(buf.data) <= PAGE_SIZE
  BY DEF Buffer, Bytes
<1>4. q = [r EXCEPT !.bufs = [r.bufs EXCEPT ![k] = buf], !.nrbufs = r.nrbufs + 1]
  BY DEF Insert
<1> HIDE DEF buf, k, n, q
<1>5. /\ q \in Rings(n) /\ q.buffers = n /\ q.nrbufs = r.nrbufs + 1 /\ q.curbuf = r.curbuf
      /\ q.bufs[k] = buf /\ \A i \in 0 .. n - 1 : i # k => q.bufs[i] = r.bufs[i]
  <2> DEFINE bufs == [r.bufs EXCEPT ![k] = buf]
  <2>1. r.bufs \in [0 .. n - 1 -> Buffer] /\ r.nrbufs + 1 \in 0 .. n
    BY <1>1 DEF Rings
  <2>2. /\ bufs \in [0 .. n - 1 -> Buffer] /\ bufs[k] = buf
        /\ \A i \in 0 .. n - 1 : i # k => bufs[i] = r.bufs[i]
    BY <1>2, <1>3, <2>1
  <2>3. q = [r EXCEPT !.bufs = bufs, !.nrbufs = r.nrbufs + 1]
    BY <1>4
  <2> HIDE DEF bufs
  <2>4. /\ q \in Rings(n) /\ q.buffers = n /\ q.nrbufs = r.nrbufs + 1 /\ q.curbuf = r.curbuf
        /\ q.bufs = bufs
    BY <1>1, <2>1, <2>2, <2>3 DEF Rings
  <2> QED
    BY <2>2, <2>4
<1>6. Ring(q)
  BY <1>1, <1>3, <1>5 DEF Ring, n
<1>7. \A i \in 0 .. n : Index(q, i) = Index(r, i)
  BY <1>1, <1>5 DEF Index, n
<1>8. ASSUME NEW i \in 1 .. r.nrbufs
      PROVE  Using(q)[i] = Using(r)[i]
  <2>1. i - 1 \in 0 .. n - 1 /\ r.nrbufs \in 0 .. n - 1 /\ i - 1 # r.nrbufs /\ i \in 1 .. q.nrbufs
    BY <1>1, <1>5
  <2>2. Index(r, i - 1) # k /\ Index(r, i - 1) \in 0 .. n - 1
    BY <1>1, <2>1, IndexInjective, IndexType DEF k, n
  <2>3. q.bufs[Index(q, i - 1)] = r.bufs[Index(r, i - 1)]
    <3>1. Index(q, i - 1) = Index(r, i - 1)
      BY <1>1, <1>7, <2>1
    <3> QED
      BY <1>5, <2>2, <3>1
  <2> QED
    BY <2>1, <2>3 DEF Using
<1>9. Using(q)[r.nrbufs + 1] = bytes
  <2>1. r.nrbufs + 1 \in 1 .. q.nrbufs /\ (r.nrbufs + 1) - 1 = r.nrbufs
    BY <1>1, <1>5
  <2>2. q.bufs[Index(q, r.nrbufs)] = buf
    BY <1>1, <1>5, <1>7 DEF k
  <2> QED
    BY <1>3, <2>1, <2>2 DEF Using
<1>10. Content(q) = Cat(Content(r), bytes)
  <2>1. Using(q) \in [1 .. r.nrbufs + 1 -> Bytes] /\ Content(q) = FlattenSeq(Using(q))
    BY <1>5, <1>6, UsingType
  <2>2. Using(r) \in [1 .. r.nrbufs -> Bytes] /\ Content(r) = FlattenSeq(Using(r)) /\ r.nrbufs \in Nat
    BY UsingType
  <2>3. FlattenSeq(Using(q)) = Cat(FlattenSeq(Using(r)), Using(q)[r.nrbufs + 1])
    BY <1>8, <2>1, <2>2, FlattenAppend
  <2> QED
    BY <1>9, <2>1, <2>2, <2>3
<1> QED
  BY <1>5, <1>6, <1>10 DEF SameSize, q, n

\* pipe_write fills up the last page.
LEMMA MergeOK ==
    ASSUME NEW r, Ring(r), NEW n \in Nat, CanMerge(r, n), NEW bytes \in Bytes, Len(bytes) = n
    PROVE  /\ SameSize(r, Merge(r, bytes)) /\ Merge(r, bytes).nrbufs = r.nrbufs
           /\ Content(Merge(r, bytes)) = Cat(Content(r), bytes)
<1> DEFINE k == LastBuf(r)
           old == r.bufs[k]
           buf == [old EXCEPT !.data = Cat(old.data, bytes)]
           q == Merge(r, bytes)
           m == r.nrbufs
<1>1. r.buffers \in Nat \ {0} /\ r \in Rings(r.buffers) /\ m \in 1 .. r.buffers /\ k = Index(r, m - 1)
  BY DEF Ring, Rings, CanMerge, LastBuf
<1>2. k \in 0 .. r.buffers - 1
  <2>1. m - 1 \in 0 .. r.buffers
    BY <1>1
  <2> QED
    BY <1>1, <2>1, IndexType
<1>3. old \in Buffer /\ old.offset + Len(old.data) + n <= PAGE_SIZE /\ old.data \in Bytes
  BY <1>1, <1>2 DEF CanMerge, Rings, Buffer
<1>4. /\ buf \in Buffer /\ buf.data = Cat(old.data, bytes)
      /\ buf.offset + Len(buf.data) <= PAGE_SIZE
  <2>1. Cat(old.data, bytes) \in Bytes /\ Len(Cat(old.data, bytes)) = Len(old.data) + n
    BY <1>3, CatProperties
  <2>2. buf \in Buffer /\ buf.data = Cat(old.data, bytes) /\ buf.offset = old.offset
    BY <1>3, <2>1 DEF Buffer
  <2>3. Len(old.data) \in Nat /\ old.offset \in Nat
    BY <1>3 DEF Bytes, Buffer
  <2> HIDE DEF buf, old
  <2> QED
    BY <1>3, <2>1, <2>2, <2>3, PageSize
<1>5. q = [r EXCEPT !.bufs = [r.bufs EXCEPT ![k] = buf]]
  BY DEF Merge, Cat
<1> HIDE DEF buf, old, k, q, m
<1>6. /\ q \in Rings(r.buffers) /\ q.buffers = r.buffers /\ q.nrbufs = m /\ q.curbuf = r.curbuf
      /\ q.bufs[k] = buf /\ \A i \in 0 .. r.buffers - 1 : i # k => q.bufs[i] = r.bufs[i]
  <2> DEFINE bufs == [r.bufs EXCEPT ![k] = buf]
  <2>1. r.bufs \in [0 .. r.buffers - 1 -> Buffer]
    BY <1>1 DEF Rings
  <2>2. /\ bufs \in [0 .. r.buffers - 1 -> Buffer] /\ bufs[k] = buf
        /\ \A i \in 0 .. r.buffers - 1 : i # k => bufs[i] = r.bufs[i]
    BY <1>2, <1>4, <2>1
  <2>3. q = [r EXCEPT !.bufs = bufs]
    BY <1>5
  <2> HIDE DEF bufs
  <2>4. q \in Rings(r.buffers) /\ q.buffers = r.buffers /\ q.nrbufs = m /\ q.curbuf = r.curbuf /\ q.bufs = bufs
    BY <1>1, <2>1, <2>2, <2>3 DEF Rings, m
  <2> QED
    BY <2>2, <2>4
<1>7. Ring(q)
  BY <1>1, <1>4, <1>6 DEF Ring
<1>8. \A i \in 0 .. r.buffers : Index(q, i) = Index(r, i)
  BY <1>1, <1>6 DEF Index
<1>9. ASSUME NEW i \in 1 .. m - 1
      PROVE  Using(q)[i] = Using(r)[i]
  <2>1. i - 1 \in 0 .. r.buffers - 1 /\ m - 1 \in 0 .. r.buffers - 1 /\ i - 1 # m - 1 /\ i \in 1 .. m
        /\ i - 1 \in 0 .. r.buffers
    BY <1>1
  <2>2. Index(r, i - 1) # k /\ Index(r, i - 1) \in 0 .. r.buffers - 1
    BY <1>1, <2>1, IndexInjective, IndexType
  <2>3. q.bufs[Index(q, i - 1)] = r.bufs[Index(r, i - 1)]
    BY <1>6, <1>8, <2>1, <2>2
  <2> QED
    BY <1>6, <2>1, <2>3 DEF Using, m
<1>10. Using(q)[m] = Cat(old.data, bytes) /\ Using(r)[m] = old.data
  <2>1. m \in 1 .. m /\ m - 1 \in 0 .. r.buffers
    BY <1>1
  <2>2. q.bufs[Index(q, m - 1)] = buf /\ r.bufs[Index(r, m - 1)] = old
    BY <1>1, <1>6, <1>8, <2>1 DEF old
  <2> QED
    BY <1>4, <1>6, <2>1, <2>2 DEF Using, m
<1>11. Content(q) = Cat(Content(r), bytes)
  <2> DEFINE front == [i \in 1 .. m - 1 |-> Using(r)[i]]
  <2>1. Using(q) \in [1 .. m -> Bytes] /\ Content(q) = FlattenSeq(Using(q))
    BY <1>6, <1>7, UsingType
  <2>2. Using(r) \in [1 .. m -> Bytes] /\ Content(r) = FlattenSeq(Using(r)) /\ m \in Nat
    BY UsingType DEF m
  <2>3. front \in [1 .. m - 1 -> Bytes] /\ m - 1 \in Nat /\ (m - 1) + 1 = m
    BY <1>1, <2>2
  <2>4. \A i \in 1 .. m - 1 : Using(r)[i] = front[i] /\ Using(q)[i] = front[i]
    BY <1>9
  <2> HIDE DEF front
  <2>5. FlattenSeq(front) \in Bytes /\ FlattenSeq(Using(r)) = Cat(FlattenSeq(front), old.data)
    BY <1>10, <2>2, <2>3, <2>4, FlattenAppend
  <2>6. FlattenSeq(Using(q)) = Cat(FlattenSeq(front), Cat(old.data, bytes))
    <3>1. Using(q) \in [1 .. (m - 1) + 1 -> Bytes] /\ Using(q)[(m - 1) + 1] = Cat(old.data, bytes)
      BY <1>10, <2>1, <2>3
    <3>2. FlattenSeq(Using(q)) = Cat(FlattenSeq(front), Using(q)[(m - 1) + 1])
      BY <2>3, <2>4, <3>1, FlattenAppend
    <3> QED
      BY <3>1, <3>2
  <2>7. Cat(FlattenSeq(front), Cat(old.data, bytes)) = Cat(Cat(FlattenSeq(front), old.data), bytes)
    BY <1>3, <2>5, CatProperties
  <2> QED
    BY <2>1, <2>2, <2>5, <2>6, <2>7
<1> QED
  BY <1>6, <1>7, <1>11 DEF SameSize, q, m

\* Where the buffers in use are when they wrap around the end of the ring.
LEMMA Wraps ==
    ASSUME NEW b \in Nat \ {0}, NEW c \in 0 .. b - 1, NEW m \in 0 .. b, NEW tail,
           c + m < b => tail = 0, c + m >= b => tail = c + m - b
    PROVE  /\ tail \in Nat /\ m - tail \in Nat /\ (m - tail) + tail = m
           /\ \A i \in 0 .. m - 1 : i < m - tail => c + i < b
           /\ \A i \in 0 .. m - 1 : ~(i < m - tail) => c + i >= b /\ i - (m - tail) = c + i - b
<1>1. CASE c + m < b
  BY <1>1
<1>2. CASE c + m >= b
  BY <1>2
<1> QED
  BY <1>1, <1>2

\* pipe_set_size moves what is in use to a ring of another size.
LEMMA ResizeOK ==
    ASSUME NEW r, Ring(r), NEW n \in Nat \ {0}, n >= r.nrbufs
    PROVE  /\ Ring(Resize(r, n)) /\ Resize(r, n).buffers = n /\ Resize(r, n).nrbufs = r.nrbufs
           /\ Content(Resize(r, n)) = Content(r)
<1> DEFINE end  == r.curbuf + r.nrbufs
           tail == IF end < r.buffers THEN 0 ELSE end % r.buffers
           head == r.nrbufs - tail
           bufs == [i \in 0 .. n - 1 |->
                      IF i < head THEN r.bufs[r.curbuf + i]
                      ELSE IF i < head + tail THEN r.bufs[i - head] ELSE NoBuffer]
           q == Resize(r, n)
<1>1. /\ r.buffers \in Nat \ {0} /\ r.curbuf \in 0 .. r.buffers - 1 /\ r.nrbufs \in 0 .. r.buffers
      /\ r.bufs \in [0 .. r.buffers - 1 -> Buffer]
  BY DEF Ring, Rings
<1>2. q = [bufs |-> bufs, curbuf |-> 0, nrbufs |-> r.nrbufs, buffers |-> n]
  BY DEF Resize
<1>3. (end < r.buffers => tail = 0) /\ (end >= r.buffers => tail = end - r.buffers)
  <2> DEFINE b == r.buffers
  <2>1. b \in Nat \ {0} /\ end \in 0 .. b + b - 1
    BY <1>1
  <2>2. tail = IF end < b THEN 0 ELSE end % b
    OBVIOUS
  <2> HIDE DEF b, end, tail
  <2>3. end % b = IF end < b THEN end ELSE end - b
    BY <2>1, ModSmall
  <2>4. (end < b => tail = 0) /\ (end >= b => tail = end - b)
    BY <2>1, <2>2, <2>3
  <2> QED
    BY <2>4 DEF b
<1> HIDE DEF tail
<1>4. /\ tail \in Nat /\ head \in Nat /\ head + tail = r.nrbufs
      /\ \A i \in 0 .. r.nrbufs - 1 : i < head => r.curbuf + i < r.buffers
      /\ \A i \in 0 .. r.nrbufs - 1 :
           ~(i < head) => r.curbuf + i >= r.buffers /\ i - head = r.curbuf + i - r.buffers
  <2> DEFINE b == r.buffers
             c == r.curbuf
             m == r.nrbufs
  <2>1. /\ b \in Nat \ {0} /\ c \in 0 .. b - 1 /\ m \in 0 .. b
        /\ c + m < b => tail = 0
        /\ c + m >= b => tail = c + m - b
    BY <1>1, <1>3
  <2> HIDE DEF b, c, m
  <2>2. /\ tail \in Nat /\ m - tail \in Nat /\ (m - tail) + tail = m
        /\ \A i \in 0 .. m - 1 : i < m - tail => c + i < b
        /\ \A i \in 0 .. m - 1 : ~(i < m - tail) => c + i >= b /\ i - (m - tail) = c + i - b
    BY <2>1, Wraps
  <2>3. head = m - tail
    BY DEF m
  <2> HIDE DEF head
  <2>4. /\ tail \in Nat /\ head \in Nat /\ head + tail = m
        /\ \A i \in 0 .. m - 1 : i < head => c + i < b
        /\ \A i \in 0 .. m - 1 : ~(i < head) => c + i >= b /\ i - head = c + i - b
    BY <2>2, <2>3
  <2> QED
    BY <1>1, <2>4 DEF b, c, m
<1> HIDE DEF end, head
<1>5. ASSUME NEW i \in 0 .. n - 1
      PROVE  /\ i < r.nrbufs => bufs[i] = r.bufs[Index(r, i)] /\ Index(r, i) \in 0 .. r.buffers - 1
             /\ i >= r.nrbufs => bufs[i] = NoBuffer
  <2>0. i \in Nat /\ r.nrbufs \in Nat
    BY <1>1
  <2>1. CASE i >= r.nrbufs
    <3>1. ~(i < head + tail) /\ ~(i < r.nrbufs)
      BY <2>0, <1>4, <2>1
    <3>2. ~(i < head)
      BY <2>0, <1>4, <3>1
    <3> QED
      BY <3>1, <3>2
  <2>2. CASE i < r.nrbufs
    <3>1. i \in 0 .. r.buffers /\ i \in 0 .. r.nrbufs - 1 /\ i < head + tail
      BY <1>1, <1>4, <2>2
    <3>2. /\ Index(r, i) \in 0 .. r.buffers - 1
          /\ r.curbuf + i < r.buffers => Index(r, i) = r.curbuf + i
          /\ r.curbuf + i >= r.buffers => Index(r, i) = r.curbuf + i - r.buffers
      BY <3>1, IndexType
    <3>3. CASE i < head
      <4>1. bufs[i] = r.bufs[r.curbuf + i]
        BY <3>3
      <4>2. Index(r, i) = r.curbuf + i
        BY <1>4, <3>1, <3>2, <3>3
      <4> HIDE DEF bufs
      <4> QED
        BY <2>0, <2>2, <3>2, <4>1, <4>2
    <3>4. CASE ~(i < head)
      <4>1. bufs[i] = r.bufs[i - head]
        BY <3>1, <3>4
      <4>2. i - head = Index(r, i)
        BY <1>4, <3>1, <3>2, <3>4
      <4> HIDE DEF bufs
      <4> QED
        BY <2>0, <2>2, <3>2, <4>1, <4>2
    <3> QED
      BY <3>3, <3>4
  <2> QED
    BY <2>0, <2>1, <2>2
<1>6. \A i \in 0 .. n - 1 : bufs[i] \in Buffer /\ bufs[i].offset + Len(bufs[i].data) <= PAGE_SIZE
  <2> SUFFICES ASSUME NEW i \in 0 .. n - 1
               PROVE  bufs[i] \in Buffer /\ bufs[i].offset + Len(bufs[i].data) <= PAGE_SIZE
    OBVIOUS
  <2>1. CASE i < r.nrbufs
    <3>1. bufs[i] = r.bufs[Index(r, i)] /\ Index(r, i) \in 0 .. r.buffers - 1
      BY <1>5, <2>1
    <3> HIDE DEF bufs
    <3> QED
      BY <1>1, <3>1 DEF Ring
  <2>2. CASE i >= r.nrbufs
    <3>1. bufs[i] = NoBuffer
      BY <1>5, <2>2
    <3> HIDE DEF bufs
    <3> QED
      BY <3>1, NoBufferType
  <2> QED
    BY <1>1, <2>1, <2>2
<1>7. bufs \in [0 .. n - 1 -> Buffer]
  <2>1. bufs = [i \in 0 .. n - 1 |-> bufs[i]]
    OBVIOUS
  <2> HIDE DEF bufs
  <2> QED
    BY <1>6, <2>1
<1> HIDE DEF bufs
<1>8. q \in Rings(n) /\ q.buffers = n /\ q.nrbufs = r.nrbufs /\ q.curbuf = 0 /\ q.bufs = bufs
  BY <1>1, <1>2, <1>7 DEF Rings
<1> HIDE DEF q
<1>9. Ring(q)
  BY <1>6, <1>8 DEF Ring
<1>10. Using(q) = Using(r)
  <2>1. ASSUME NEW i \in 1 .. r.nrbufs
        PROVE  q.bufs[Index(q, i - 1)] = r.bufs[Index(r, i - 1)]
    <3>1. i - 1 \in 0 .. n - 1 /\ i - 1 < r.nrbufs /\ i - 1 \in 0 .. q.buffers
      BY <1>1, <1>8
    <3>2. q.curbuf + (i - 1) < q.buffers => Index(q, i - 1) = q.curbuf + (i - 1)
      BY <1>9, <3>1, IndexType
    <3>3. Index(q, i - 1) = i - 1
      BY <1>8, <3>1, <3>2
    <3> QED
      BY <1>5, <1>8, <3>1, <3>3
  <2> QED
    BY <1>8, <2>1 DEF Using
<1> QED
  BY <1>8, <1>9, <1>10, UsingType DEF q

\* The bytes that leave the pipe when n bytes of a buffer are read.
Gone(buf, n) == IF buf.packet THEN Len(buf.data) ELSE n

LEMMA TakenOK ==
    ASSUME NEW buf \in Buffer, NEW n \in 0 .. Len(buf.data), buf.offset + Len(buf.data) <= PAGE_SIZE
    PROVE  /\ TakenFrom(buf, n) \in Buffer
           /\ TakenFrom(buf, n).offset + Len(TakenFrom(buf, n).data) <= PAGE_SIZE
           /\ Gone(buf, n) \in 0 .. Len(buf.data)
           /\ TakenFrom(buf, n).data = SubSeq(buf.data, Gone(buf, n) + 1, Len(buf.data))
<1> DEFINE data == IF buf.packet THEN <<>> ELSE SubSeq(buf.data, n + 1, Len(buf.data))
           d == buf.data
<1>1. d \in Bytes /\ Len(d) \in Nat /\ n \in Nat /\ n <= Len(d) /\ buf.offset \in Nat
  BY DEF Buffer, Bytes
<1>2. SubSeq(d, n + 1, Len(d)) \in Bytes /\ Len(SubSeq(d, n + 1, Len(d))) = Len(d) - n
  <2>1. n \in 0 .. Len(d) /\ <<>> \in Bytes
    BY <1>1 DEF Bytes
  <2> QED
    BY <1>1, <2>1, CutConcat
<1>3. SubSeq(d, Len(d) + 1, Len(d)) = <<>>
  <2>1. Len(d) \in Int /\ Len(d) + 1 \in Int /\ Len(d) < Len(d) + 1
    BY <1>1
  <2> QED
    BY <2>1, SubSeqEmpty
<1>4. data \in Bytes /\ Len(data) <= Len(d) - n /\ Len(data) \in Nat
  <2>1. CASE buf.packet
    BY <1>1, <2>1 DEF Bytes
  <2>2. CASE ~buf.packet
    BY <1>1, <1>2, <2>2
  <2> QED
    BY <2>1, <2>2
<1>5. Gone(buf, n) \in 0 .. Len(d) /\ data = SubSeq(d, Gone(buf, n) + 1, Len(d))
  <2>1. CASE buf.packet
    <3>1. Gone(buf, n) = Len(d) /\ data = <<>>
      BY <2>1 DEF Gone
    <3>2. Len(d) \in 0 .. Len(d)
      BY <1>1
    <3> HIDE DEF data, d
    <3> QED
      BY <1>3, <3>1, <3>2
  <2>2. CASE ~buf.packet
    BY <1>1, <2>2 DEF Gone
  <2> QED
    BY <2>1, <2>2
<1> DEFINE offset == buf.offset + n
<1>6. TakenFrom(buf, n) = [buf EXCEPT !.offset = offset, !.data = data]
  BY DEF TakenFrom
<1>7. offset \in Nat /\ offset + Len(data) <= PAGE_SIZE
  <2> HIDE DEF data
  <2> QED
    BY <1>1, <1>4, PageSize
<1> HIDE DEF data, offset
<1>8. TakenFrom(buf, n) \in Buffer /\ TakenFrom(buf, n).data = data /\ TakenFrom(buf, n).offset = offset
  BY <1>4, <1>6, <1>7 DEF Buffer
<1> QED
  BY <1>5, <1>7, <1>8

\* pipe_read takes from the first page.
LEMMA ConsumeOK ==
    ASSUME NEW r, Ring(r), r.nrbufs > 0, NEW n \in 0 .. Len(r.bufs[r.curbuf].data)
    PROVE  LET gone == Gone(r.bufs[r.curbuf], n) IN
           /\ SameSize(r, Consume(r, n))
           /\ Consumes(r, n) => Consume(r, n).nrbufs = r.nrbufs - 1
           /\ ~Consumes(r, n) => Consume(r, n).nrbufs = r.nrbufs
           /\ gone \in 0 .. Len(Content(r))
           /\ Content(Consume(r, n)) = SubSeq(Content(r), gone + 1, Len(Content(r)))
<1> DEFINE b == r.buffers
           k == r.curbuf
           m == r.nrbufs
           old == r.bufs[k]
           gone == Gone(old, n)
           new == TakenFrom(old, n)
           q == Consume(r, n)
<1>1. b \in Nat \ {0} /\ r \in Rings(b) /\ m \in 1 .. b /\ k \in 0 .. b - 1 /\ r.bufs \in [0 .. b - 1 -> Buffer]
  BY DEF Ring, Rings
<1>2. old \in Buffer /\ old.data \in Bytes /\ n \in 0 .. Len(old.data) /\ old.offset + Len(old.data) <= PAGE_SIZE
  BY <1>1 DEF Ring, Buffer
<1> HIDE DEF old
<1>3. /\ new \in Buffer /\ new.offset + Len(new.data) <= PAGE_SIZE
      /\ gone \in 0 .. Len(old.data) /\ new.data = SubSeq(old.data, gone + 1, Len(old.data))
  BY <1>2, TakenOK
<1>4. Index(r, 0) = k /\ Index(r, 1) \in 0 .. b - 1
  <2>1. 0 \in 0 .. b /\ 1 \in 0 .. b /\ k + 0 < b /\ k + 0 = k
    BY <1>1
  <2> QED
    BY <1>1, <2>1, IndexType
<1> DEFINE rest == [i \in 1 .. m - 1 |-> r.bufs[Index(r, i)].data]
<1>5. /\ rest \in [1 .. m - 1 -> Bytes] /\ m - 1 \in Nat /\ FlattenSeq(rest) \in Bytes
      /\ Content(r) = Cat(old.data, FlattenSeq(rest))
  <2>1. Using(r) \in [1 .. m -> Bytes] /\ Content(r) = FlattenSeq(Using(r)) /\ m - 1 \in Nat /\ (m - 1) + 1 = m
    BY <1>1, UsingType
  <2>2. \A i \in 1 .. m - 1 : i + 1 \in 1 .. m /\ Using(r)[i + 1] = r.bufs[Index(r, i)].data
    <3> SUFFICES ASSUME NEW i \in 1 .. m - 1
                 PROVE  i + 1 \in 1 .. m /\ Using(r)[i + 1] = r.bufs[Index(r, i)].data
      OBVIOUS
    <3>1. i + 1 \in 1 .. m /\ (i + 1) - 1 = i
      BY <1>1
    <3> QED
      BY <3>1 DEF Using
  <2>3. rest \in [1 .. m - 1 -> Bytes] /\ \A i \in 1 .. m - 1 : Using(r)[i + 1] = rest[i]
    BY <2>1, <2>2
  <2>4. Using(r)[1] = old.data
    BY <1>1, <1>4 DEF Using, old
  <2> HIDE DEF rest
  <2>5. Using(r) \in [1 .. (m - 1) + 1 -> Bytes]
    BY <2>1
  <2>6. FlattenSeq(rest) \in Bytes /\ FlattenSeq(Using(r)) = Cat(Using(r)[1], FlattenSeq(rest))
    BY <2>1, <2>3, <2>5, FlattenFirst
  <2> QED
    BY <2>1, <2>3, <2>4, <2>6
<1> HIDE DEF rest
<1>6. /\ gone \in 0 .. Len(Content(r))
      /\ SubSeq(Content(r), gone + 1, Len(Content(r))) = Cat(new.data, FlattenSeq(rest))
  <2>1. SubSeq(Cat(old.data, FlattenSeq(rest)), gone + 1, Len(Cat(old.data, FlattenSeq(rest)))) = Cat(new.data, FlattenSeq(rest))
    <3> HIDE DEF gone, new
    <3> QED
      BY <1>2, <1>3, <1>5, CutCat
  <2>2. Len(Content(r)) = Len(old.data) + Len(FlattenSeq(rest)) /\ Len(FlattenSeq(rest)) \in Nat /\ Len(old.data) \in Nat
    <3>1. Len(Cat(old.data, FlattenSeq(rest))) = Len(old.data) + Len(FlattenSeq(rest))
      BY <1>2, <1>5, CatProperties
    <3>2. \A a \in Bytes : Len(a) \in Nat
      BY DEF Bytes
    <3> QED
      BY <1>2, <1>5, <3>1, <3>2
  <2> HIDE DEF gone, new
  <2> QED
    BY <1>3, <1>5, <2>1, <2>2
<1>7. CASE Consumes(r, n)
  <2>1. new.data = <<>>
    BY <1>7 DEF Consumes, old
  <2>2. q = [r EXCEPT !.bufs = [r.bufs EXCEPT ![k] = NoBuffer], !.curbuf = Index(r, 1), !.nrbufs = m - 1]
    BY <1>7 DEF Consume
  <2> DEFINE bufs == [r.bufs EXCEPT ![k] = NoBuffer]
  <2>3. /\ bufs \in [0 .. b - 1 -> Buffer] /\ bufs[k] = NoBuffer
        /\ \A i \in 0 .. b - 1 : i # k => bufs[i] = r.bufs[i]
    BY <1>1, NoBufferType
  <2> HIDE DEF bufs, new, gone, q
  <2>4. q \in Rings(b) /\ q.buffers = b /\ q.nrbufs = m - 1 /\ q.curbuf = Index(r, 1) /\ q.bufs = bufs
    <3>1. q = [r EXCEPT !.bufs = bufs, !.curbuf = Index(r, 1), !.nrbufs = m - 1]
      BY <2>2 DEF bufs
    <3>2. m - 1 \in 0 .. b
      BY <1>1
    <3> QED
      BY <1>1, <1>4, <2>3, <3>1, <3>2 DEF Rings
  <2>5. Ring(q)
    BY <1>1, <2>3, <2>4, NoBufferType DEF Ring
  <2>6. Using(q) = rest
    <3>1. ASSUME NEW i \in 1 .. m - 1
          PROVE  q.bufs[Index(q, i - 1)] = r.bufs[Index(r, i)]
      <4>1. /\ i \in 0 .. b /\ i - 1 \in 0 .. b /\ 1 \in 0 .. b /\ 0 \in 0 .. b - 1 /\ i \in 0 .. b - 1 /\ i # 0
            /\ k \in Nat /\ b \in Nat /\ i \in Nat /\ k < b
        BY <1>1
      <4>2. /\ k + 1 < b => Index(r, 1) = k + 1
            /\ k + 1 >= b => Index(r, 1) = k + 1 - b
        BY <4>1, IndexType
      <4>3. /\ k + i < b => Index(r, i) = k + i
            /\ k + i >= b => Index(r, i) = k + i - b
            /\ Index(r, i) \in 0 .. b - 1
        BY <4>1, IndexType
      <4>4. /\ q.curbuf + (i - 1) < b => Index(q, i - 1) = q.curbuf + (i - 1)
            /\ q.curbuf + (i - 1) >= b => Index(q, i - 1) = q.curbuf + (i - 1) - b
        <5>1. q.buffers = b /\ Ring(q) /\ i - 1 \in 0 .. b
          BY <2>4, <2>5, <4>1
        <5> QED
          BY <5>1, IndexType
      <4>5. Index(q, i - 1) = Index(r, i)
        <5> HIDE DEF b, k
        <5>1. CASE k + 1 < b
          BY <2>4, <4>1, <4>2, <4>3, <4>4, <5>1
        <5>2. CASE k + 1 >= b
          BY <2>4, <4>1, <4>2, <4>3, <4>4, <5>2
        <5> QED
          BY <4>1, <5>1, <5>2
      <4>6. Index(r, i) # k
        BY <1>4, <4>1, IndexInjective
      <4> QED
        BY <2>3, <2>4, <4>3, <4>5, <4>6
    <3> QED
      BY <2>4, <3>1 DEF Using, rest
  <2>7. Content(q) = FlattenSeq(rest)
    BY <2>5, <2>6, UsingType
  <2>8. Cat(new.data, FlattenSeq(rest)) = FlattenSeq(rest)
    BY <1>5, <2>1, CatProperties
  <2> QED
    BY <1>6, <1>7, <2>4, <2>5, <2>7, <2>8 DEF SameSize, q, gone, old
<1>8. CASE ~Consumes(r, n)
  <2>1. q = [r EXCEPT !.bufs = [r.bufs EXCEPT ![k] = new]]
    BY <1>8 DEF Consume, old
  <2> DEFINE bufs == [r.bufs EXCEPT ![k] = new]
  <2> HIDE DEF new, gone, q
  <2>3. /\ bufs \in [0 .. b - 1 -> Buffer] /\ bufs[k] = new
        /\ \A i \in 0 .. b - 1 : i # k => bufs[i] = r.bufs[i]
    BY <1>1, <1>3
  <2> HIDE DEF bufs
  <2>4. q \in Rings(b) /\ q.buffers = b /\ q.nrbufs = m /\ q.curbuf = k /\ q.bufs = bufs
    <3>1. q = [r EXCEPT !.bufs = bufs]
      BY <2>1 DEF bufs
    <3> QED
      BY <1>1, <2>3, <3>1 DEF Rings
  <2>5. Ring(q)
    BY <1>1, <1>3, <2>3, <2>4 DEF Ring
  <2>6. \A i \in 0 .. b : Index(q, i) = Index(r, i)
    BY <2>4 DEF Index
  <2>7. Using(q) \in [1 .. (m - 1) + 1 -> Bytes] /\ Content(q) = FlattenSeq(Using(q))
    BY <1>1, <2>4, <2>5, UsingType
  <2>8. Using(q)[1] = new.data
    BY <1>1, <1>4, <2>3, <2>4, <2>6 DEF Using
  <2>9. \A i \in 1 .. m - 1 : Using(q)[i + 1] = rest[i]
    <3> SUFFICES ASSUME NEW i \in 1 .. m - 1 PROVE Using(q)[i + 1] = rest[i]
      OBVIOUS
    <3>1. i + 1 \in 1 .. m /\ (i + 1) - 1 = i /\ i \in 0 .. b - 1 /\ 0 \in 0 .. b - 1 /\ i # 0 /\ i \in 0 .. b
      BY <1>1
    <3>2. Index(r, i) # k /\ Index(r, i) \in 0 .. b - 1
      BY <1>4, <3>1, IndexInjective, IndexType
    <3>3. q.bufs[Index(q, i)] = r.bufs[Index(r, i)]
      BY <2>3, <2>4, <2>6, <3>1, <3>2
    <3> QED
      BY <2>4, <3>1, <3>3 DEF Using, rest
  <2>10. Content(q) = Cat(new.data, FlattenSeq(rest))
    BY <1>5, <2>7, <2>8, <2>9, FlattenFirst
  <2> QED
    BY <1>6, <1>8, <2>4, <2>5, <2>10 DEF SameSize, q, gone, old
<1> QED
  BY <1>7, <1>8

-----------------------------------------------------------------------------
(* Types *)

InMutex == {"read", "merge", "write", "setsize"}
Pcs == Registered \cup Opening \cup {"closed", "put", "free"}

CallRecord == [pc : Pcs, left : Nat, got : BOOLEAN, wake : BOOLEAN, seen : Int, spare : Nat]
KindRecord == [read : BOOLEAN, write : BOOLEAN, nonblock : BOOLEAN, packet : BOOLEAN]

TypeOK ==
    /\ is_pipe \in BOOLEAN /\ i_pipe \in BOOLEAN /\ Ring(pipe) /\ tmp_page \in BOOLEAN
    /\ readers \in Int /\ writers \in Int /\ waiting_writers \in Int /\ files \in Int
    /\ mutex \in Files \cup {NULL} /\ asleep \in SUBSET Files /\ user_bufs \in Int
    /\ kind \in [Files -> KindRecord] /\ current \in SUBSET Files /\ signalled \in SUBSET Files
    /\ call \in [Files -> CallRecord] /\ stream \in Bytes
    /\ \A f \in Files : pc(f) \in {"install", "discard"} => call[f].spare # 0
    /\ \A f \in Files : pc(f) \in {"check", "setsize"} => call[f].left # 0

Others(f) == \A g \in Files \ {f} : call'[g] = call[g]

LEMMA NoCallType ==
    ASSUME NEW at \in Pcs
    PROVE  /\ NoCall(at) \in CallRecord /\ NoCall(at).pc = at /\ NoCall(at).left = 0 /\ NoCall(at).got = FALSE
           /\ NoCall(at).wake = FALSE /\ NoCall(at).seen = 0 /\ NoCall(at).spare = 0
BY DEF NoCall, CallRecord

\* The caller of f goes on with c.
LEMMA CallMoves ==
    ASSUME TypeOK, NEW f \in Files, NEW c \in CallRecord, call' = [call EXCEPT ![f] = c]
    PROVE  call' \in [Files -> CallRecord] /\ call'[f] = c /\ Others(f)
BY DEF TypeOK, Others

LEMMA GotoStep ==
    ASSUME TypeOK, NEW f \in Files, NEW to \in Pcs, Goto(f, to)
    PROVE  /\ call' \in [Files -> CallRecord] /\ Others(f) /\ call'[f].pc = to
           /\ call'[f].left = call[f].left /\ call'[f].got = call[f].got /\ call'[f].wake = call[f].wake
           /\ call'[f].seen = call[f].seen /\ call'[f].spare = call[f].spare
<1> DEFINE c == [call[f] EXCEPT !.pc = to]
<1>1. call[f] \in CallRecord
  BY DEF TypeOK
<1>2. /\ c \in CallRecord /\ c.pc = to /\ c.left = call[f].left /\ c.got = call[f].got
      /\ c.wake = call[f].wake /\ c.seen = call[f].seen /\ c.spare = call[f].spare
  BY <1>1 DEF CallRecord
<1>3. call' = [call EXCEPT ![f] = c]
  BY DEF Goto
<1> HIDE DEF c
<1> QED
  BY <1>2, <1>3, CallMoves

LEMMA ReturnStep ==
    ASSUME TypeOK, NEW f \in Files, NEW at \in Pcs, Return(f, at)
    PROVE  /\ call' \in [Files -> CallRecord] /\ Others(f) /\ call'[f].pc = at /\ ~call'[f].wake
           /\ call'[f].spare = 0 /\ signalled' \in SUBSET Files
<1>1. call' = [call EXCEPT ![f] = NoCall(at)] /\ signalled' = signalled \ {f}
  BY DEF Return
<1>2. call' \in [Files -> CallRecord] /\ call'[f] = NoCall(at) /\ Others(f)
  BY <1>1, NoCallType, CallMoves
<1> QED
  BY <1>1, <1>2, NoCallType DEF TypeOK

\* Where a call of pipe_read or pipe_write is when it wakes the others.
WakePcs == {"wakein", "wakeout"}
WakeAt(f) == IF pc(f) = "read" THEN "wakeout" ELSE "wakein"

\* What a call of pipe_read or pipe_write does when it ends.
LEMMA UnlockStep ==
    ASSUME TypeOK, NEW f \in Files, NEW wake \in BOOLEAN, Unlock(f, wake)
    PROVE  /\ mutex' = NULL /\ call' \in [Files -> CallRecord] /\ Others(f)
           /\ wake => call'[f].pc = WakeAt(f)
           /\ ~wake => call'[f].pc = "idle"
           /\ signalled' \in SUBSET Files
<1>0. WakeAt(f) \in Pcs /\ "idle" \in Pcs
  BY DEF Pcs, Registered, WakeAt
<1>1. mutex' = NULL
  BY DEF Unlock
<1>2. CASE wake
  <2> DEFINE at == WakeAt(f)
             c == [NoCall(at) EXCEPT !.wake = TRUE]
  <2>1. call' = [call EXCEPT ![f] = c] /\ signalled' = signalled
    BY <1>2 DEF Unlock, WakeAt
  <2> HIDE DEF at
  <2>2. c \in CallRecord /\ c.pc = at
    BY <1>0, NoCallType DEF NoCall, CallRecord, at
  <2> HIDE DEF c
  <2> QED
    BY <1>1, <1>2, <2>1, <2>2, CallMoves DEF TypeOK, at
<1>3. CASE ~wake
  <2>1. Return(f, "idle")
    BY <1>3 DEF Unlock
  <2> QED
    BY <1>0, <1>1, <1>3, <2>1, ReturnStep
<1> QED
  BY <1>2, <1>3

\* A step of a loop, or the way into one.
LEMMA SetCall ==
    ASSUME TypeOK, NEW f \in Files, NEW to \in Pcs, NEW left \in Nat, NEW got \in BOOLEAN, NEW wake \in BOOLEAN,
           NEW seen \in Int,
           call' = [call EXCEPT ![f] = [pc |-> to, left |-> left, got |-> got, wake |-> wake,
                                        seen |-> seen, spare |-> call[f].spare]]
    PROVE  /\ call' \in [Files -> CallRecord] /\ Others(f)
           /\ call'[f].pc = to /\ call'[f].left = left /\ call'[f].got = got /\ call'[f].wake = wake
           /\ call'[f].seen = seen /\ call'[f].spare = call[f].spare
<1> DEFINE c == [pc |-> to, left |-> left, got |-> got, wake |-> wake, seen |-> seen, spare |-> call[f].spare]
<1>1. c \in CallRecord
  BY DEF CallRecord, TypeOK
<1>2. /\ c.pc = to /\ c.left = left /\ c.got = got /\ c.wake = wake /\ c.seen = seen /\ c.spare = call[f].spare
  OBVIOUS
<1> HIDE DEF c
<1>3. call' = [call EXCEPT ![f] = c]
  BY DEF c
<1> QED
  BY <1>1, <1>2, <1>3, CallMoves

-----------------------------------------------------------------------------
(* The steps of pipe_read and pipe_write, by what they may change *)

\* The ring before and after: what is in it stays what is in the stream.
RingStep ==
    Ring(pipe') /\ pipe'.buffers = pipe.buffers /\ Content(pipe') = stream' /\ tmp_page' \in BOOLEAN

\* A read takes from the ring, a write adds to it.
Turns(f) == IF pc(f) = "read" THEN pipe'.nrbufs <= pipe.nrbufs ELSE pipe'.nrbufs >= pipe.nrbufs

\* What every one of these steps of f leaves alone.
Common(f) ==
    /\ UNCHANGED <<inodeVars, countVars, user_bufs, kind>>
    /\ call' \in [Files -> CallRecord] /\ Others(f) /\ signalled' \in SUBSET Files
    /\ RingStep /\ Turns(f)

\* A wake-up is due, and it is not forgotten.
Due(f) == call[f].wake \/ pipe'.nrbufs # pipe.nrbufs \/ tmp_page' # tmp_page

\* The call goes on, in the mutex.
Stays(f) ==
    /\ UNCHANGED <<mutex, asleep, waiting_writers>>
    /\ pc(f) = "read" => call'[f].pc = "read"
    /\ pc(f) \in {"merge", "write"} => call'[f].pc = "write"
    /\ Due(f) => call'[f].wake

\* It ends.  A write that ends without a wake-up had no reader, no room or no page.
Ends(f) ==
    /\ mutex' = NULL /\ UNCHANGED <<asleep, waiting_writers>>
    /\ call'[f].pc \in {WakeAt(f), "idle"}
    /\ Due(f) => call'[f].pc = WakeAt(f)
    /\ pc(f) = "write" /\ call'[f].pc = "idle" => readers = 0 \/ Full(pipe) \/ ~tmp_page

\* A reader sleeps.
SleepsEmpty(f) ==
    /\ pc(f) = "read" /\ call'[f].pc = "rwait" /\ call'[f].got = call[f].got
    /\ pipe.nrbufs = 0 /\ writers # 0
    /\ waiting_writers = 0 => ~call[f].got /\ ~kind[f].nonblock
    /\ pipe_wait(f, call[f].wake)
    /\ UNCHANGED <<ringVars, waiting_writers>>

\* A writer sleeps.
SleepsFull(f) ==
    /\ pc(f) = "write" /\ call'[f].pc = "wwait" /\ call'[f].seen = pipe.nrbufs
    /\ Full(pipe) /\ readers > 0
    /\ waiting_writers' = waiting_writers + 1
    /\ pipe_wait(f, call[f].wake)
    /\ UNCHANGED ringVars

RWStep(f) ==
    /\ pc(f) \in {"read", "merge", "write"}
    /\ Common(f)
    /\ Stays(f) \/ Ends(f) \/ SleepsEmpty(f) \/ SleepsFull(f)

\* What these lemmas start from.
Start(f) ==
    /\ TypeOK /\ Content(pipe) = stream /\ f \in Files
    /\ pc(f) = "merge" => ~call[f].wake

LEMMA StartFacts ==
    ASSUME NEW f, Start(f)
    PROVE  /\ f \in Files /\ TypeOK /\ Ring(pipe) /\ tmp_page \in BOOLEAN /\ stream \in Bytes
           /\ call[f] \in CallRecord /\ call[f].pc \in Pcs /\ call[f].left \in Nat /\ call[f].got \in BOOLEAN
           /\ call[f].wake \in BOOLEAN /\ call[f].seen \in Int /\ call[f].spare \in Nat
           /\ pipe.nrbufs \in Nat /\ pipe.buffers \in Nat \ {0} /\ pipe.nrbufs <= pipe.buffers
           /\ signalled \in SUBSET Files
<1>1. TypeOK /\ f \in Files
  BY DEF Start
<1>2. Ring(pipe) /\ tmp_page \in BOOLEAN /\ stream \in Bytes /\ signalled \in SUBSET Files /\ call[f] \in CallRecord
  BY <1>1 DEF TypeOK
<1>3. pipe.nrbufs \in 0 .. pipe.buffers /\ pipe.buffers \in Nat \ {0}
  BY <1>2 DEF Ring, Rings
<1>4. /\ call[f].pc \in Pcs /\ call[f].left \in Nat /\ call[f].got \in BOOLEAN
      /\ call[f].wake \in BOOLEAN /\ call[f].seen \in Int /\ call[f].spare \in Nat
  BY <1>2 DEF CallRecord
<1>5. pipe.nrbufs \in Nat /\ pipe.nrbufs <= pipe.buffers
  BY <1>3
<1> QED
  BY <1>1, <1>2, <1>3, <1>4, <1>5

\* A step that leaves the ring alone.
LEMMA SameRing ==
    ASSUME NEW f, Start(f), UNCHANGED <<pipe, stream>>, tmp_page' = tmp_page \/ tmp_page' = TRUE
    PROVE  RingStep /\ Turns(f)
<1>1. Ring(pipe) /\ Content(pipe) = stream /\ tmp_page \in BOOLEAN
  BY StartFacts DEF Start
<1>2. Ring(pipe') /\ Content(pipe') = stream' /\ pipe'.buffers = pipe.buffers /\ pipe'.nrbufs = pipe.nrbufs
  BY <1>1
<1>3. tmp_page' \in BOOLEAN /\ pipe.nrbufs \in Nat
  BY <1>1, StartFacts
<1> QED
  BY <1>2, <1>3 DEF RingStep, Turns

\* A call that ends with what it has done so far.
LEMMA FailsStep ==
    ASSUME NEW f, Start(f), NEW wake \in BOOLEAN, Fails(f, wake), tmp_page' = tmp_page \/ tmp_page' = TRUE,
           pc(f) \in {"read", "merge", "write"},
           call[f].wake \/ tmp_page' # tmp_page => wake,
           pc(f) = "write" /\ ~wake => readers = 0 \/ Full(pipe) \/ ~tmp_page
    PROVE  RWStep(f)
<1>1. /\ Unlock(f, wake)
      /\ UNCHANGED <<inodeVars, pipe, stream, countVars, waiting_writers, asleep, user_bufs, kind>>
  BY DEF Fails
<1>2. RingStep /\ Turns(f)
  BY <1>1, SameRing
<1>3. /\ mutex' = NULL /\ call' \in [Files -> CallRecord] /\ Others(f)
      /\ wake => call'[f].pc = WakeAt(f)
      /\ ~wake => call'[f].pc = "idle"
      /\ signalled' \in SUBSET Files
  BY <1>1, StartFacts, UnlockStep
<1>4. Common(f)
  BY <1>1, <1>2, <1>3 DEF Common
<1>5. Due(f) => wake
  BY <1>1 DEF Due
<1>6. Ends(f)
  BY <1>1, <1>3, <1>5 DEF Ends, WakeAt
<1> QED
  BY <1>4, <1>6 DEF RWStep

LEMMA FaultSteps ==
    ASSUME NEW f, Start(f),
           ReadFault(f) \/ MergeFault(f) \/ WriteBroken(f) \/ WriteNoPage(f) \/ WriteFault(f)
    PROVE  RWStep(f)
<1>0. call[f].wake \in BOOLEAN
  BY StartFacts
<1>1. CASE ReadFault(f)
  BY <1>0, <1>1, FailsStep DEF ReadFault, Step
<1>2. CASE MergeFault(f)
  BY <1>2, FailsStep DEF MergeFault, Step, Start
<1>3. CASE WriteBroken(f)
  <2>1. pc(f) \in {"merge", "write"} /\ readers = 0 /\ Fails(f, call[f].wake) /\ tmp_page' = tmp_page
    BY <1>3 DEF WriteBroken
  <2> QED
    BY <1>0, <2>1, FailsStep
<1>4. CASE WriteNoPage(f)
  <2>1. pc(f) = "write" /\ ~tmp_page /\ Fails(f, call[f].wake) /\ tmp_page' = tmp_page
    BY <1>4 DEF WriteNoPage, Step
  <2> QED
    BY <1>0, <2>1, FailsStep
<1>5. CASE WriteFault(f)
  BY <1>5, FailsStep DEF WriteFault, Step
<1> QED
  BY <1>1, <1>2, <1>3, <1>4, <1>5

\* A call that ends.
LEMMA EndStep ==
    ASSUME NEW f, Start(f), NEW wake \in BOOLEAN, Unlock(f, wake), RingStep, Turns(f),
           UNCHANGED <<inodeVars, countVars, waiting_writers, asleep, user_bufs, kind>>,
           pc(f) \in {"read", "merge", "write"}, Due(f) => wake,
           pc(f) = "write" /\ ~wake => readers = 0 \/ Full(pipe) \/ ~tmp_page
    PROVE  RWStep(f)
<1>3. /\ mutex' = NULL /\ call' \in [Files -> CallRecord] /\ Others(f)
      /\ wake => call'[f].pc = WakeAt(f)
      /\ ~wake => call'[f].pc = "idle"
      /\ signalled' \in SUBSET Files
  BY StartFacts, UnlockStep
<1>4. Common(f)
  BY <1>3 DEF Common
<1>6. Ends(f)
  BY <1>3 DEF Ends, WakeAt
<1> QED
  BY <1>4, <1>6 DEF RWStep

\* A call that goes on.
LEMMA StayStep ==
    ASSUME NEW f, Start(f), RingStep, Turns(f),
           UNCHANGED <<inodeVars, countVars, waiting_writers, asleep, user_bufs, kind, mutex, signalled>>,
           call' \in [Files -> CallRecord], Others(f),
           (pc(f) = "read" /\ call'[f].pc = "read") \/ (pc(f) \in {"merge", "write"} /\ call'[f].pc = "write"),
           Due(f) => call'[f].wake
    PROVE  RWStep(f)
<1>1. pc(f) \in {"read", "merge", "write"}
  OBVIOUS
<1>3. Common(f)
  BY StartFacts DEF Common
<1>4. Stays(f)
  BY DEF Stays
<1> QED
  BY <1>1, <1>3, <1>4 DEF RWStep

\* The next turn of a loop.
LEMMA NextTurn ==
    ASSUME TypeOK, NEW f \in Files, NEW left \in Nat, NEW wake \in BOOLEAN,
           call' = [call EXCEPT ![f].left = left, ![f].got = TRUE, ![f].wake = wake]
    PROVE  call' \in [Files -> CallRecord] /\ Others(f) /\ call'[f].pc = call[f].pc /\ call'[f].wake = wake
<1> DEFINE c == [call[f] EXCEPT !.left = left, !.got = TRUE, !.wake = wake]
<1>1. call[f] \in CallRecord /\ f \in DOMAIN call
  BY DEF TypeOK
<1>2. c \in CallRecord /\ c.pc = call[f].pc /\ c.wake = wake
  BY <1>1 DEF CallRecord
<1>3. call' = [call EXCEPT ![f] = c]
  BY <1>1
<1> HIDE DEF c
<1> QED
  BY <1>2, <1>3, CallMoves

LEMMA FirstTurn ==
    ASSUME TypeOK, NEW f \in Files, NEW left \in Nat,
           call' = [call EXCEPT ![f].pc = "write", ![f].left = left, ![f].got = TRUE, ![f].wake = TRUE]
    PROVE  call' \in [Files -> CallRecord] /\ Others(f) /\ call'[f].pc = "write" /\ call'[f].wake = TRUE
<1> DEFINE c == [call[f] EXCEPT !.pc = "write", !.left = left, !.got = TRUE, !.wake = TRUE]
<1>1. call[f] \in CallRecord /\ f \in DOMAIN call /\ "write" \in Pcs
  BY DEF TypeOK, Pcs, Registered
<1>2. c \in CallRecord /\ c.pc = "write" /\ c.wake = TRUE
  BY <1>1 DEF CallRecord
<1>3. call' = [call EXCEPT ![f] = c]
  BY <1>1
<1> HIDE DEF c
<1> QED
  BY <1>2, <1>3, CallMoves

\* pipe_read takes from a buffer.
LEMMA ReadBufferStep ==
    ASSUME NEW f, Start(f), ReadBuffer(f)
    PROVE  RWStep(f)
<1> DEFINE buf   == pipe.bufs[pipe.curbuf]
           chars == Min({Len(buf.data), call[f].left})
           gone  == Gone(buf, chars)
           left  == IF buf.packet THEN 0 ELSE call[f].left - chars
           wake  == call[f].wake \/ Consumes(pipe, chars)
<1>1. /\ pc(f) = "read" /\ pipe.nrbufs > 0 /\ pipe' = Consume(pipe, chars)
      /\ tmp_page' \in BOOLEAN /\ (~Consumes(pipe, chars) => tmp_page' = tmp_page)
      /\ stream' = SubSeq(stream, gone + 1, Len(stream))
      /\ UNCHANGED <<inodeVars, countVars, waiting_writers, asleep, user_bufs, kind>>
  BY StartFacts DEF ReadBuffer, Step, Gone, anon_pipe_buf_release
<1>2. \/ Unlock(f, wake)
      \/ /\ call' = [call EXCEPT ![f].left = left, ![f].got = TRUE, ![f].wake = wake]
         /\ UNCHANGED <<mutex, signalled>>
  BY DEF ReadBuffer
<1>3. buf \in Buffer /\ Len(buf.data) \in Nat
  BY StartFacts DEF Ring, Rings, Buffer, Bytes
<1>4. chars \in 0 .. Len(buf.data) /\ left \in Nat
  <2>1. chars \in Nat /\ chars <= Len(buf.data) /\ chars <= call[f].left /\ call[f].left \in Nat
    BY <1>3, StartFacts, MinOfTwo
  <2> HIDE DEF chars, buf
  <2> QED
    BY <1>3, <2>1
<1>5. /\ SameSize(pipe, Consume(pipe, chars))
      /\ Consumes(pipe, chars) => Consume(pipe, chars).nrbufs = pipe.nrbufs - 1
      /\ ~Consumes(pipe, chars) => Consume(pipe, chars).nrbufs = pipe.nrbufs
      /\ Content(Consume(pipe, chars)) = SubSeq(Content(pipe), gone + 1, Len(Content(pipe)))
  BY <1>1, <1>4, StartFacts, ConsumeOK
<1> DEFINE does == Consumes(pipe, chars)
<1>6. does \in BOOLEAN /\ wake \in BOOLEAN
  BY StartFacts DEF Consumes
<1>7. /\ Ring(pipe') /\ pipe'.buffers = pipe.buffers /\ Content(pipe') = stream'
      /\ does => pipe'.nrbufs = pipe.nrbufs - 1
      /\ ~does => pipe'.nrbufs = pipe.nrbufs
      /\ ~does => tmp_page' = tmp_page
  <2>1. Content(pipe) = stream
    BY DEF Start
  <2> HIDE DEF gone, chars
  <2> QED
    BY <1>1, <1>5, <2>1 DEF SameSize
<1>8. pipe.nrbufs \in Nat /\ tmp_page \in BOOLEAN /\ tmp_page' \in BOOLEAN
  <2> HIDE DEF chars
  <2> QED
    BY <1>1, StartFacts
<1> HIDE DEF does
<1>9. RingStep /\ Turns(f)
  <2>1. pc(f) = "read"
    BY <1>1
  <2>2. pipe'.nrbufs <= pipe.nrbufs
    BY <1>6, <1>7, <1>8
  <2> QED
    BY <1>7, <1>8, <2>1, <2>2 DEF RingStep, Turns
<1>10. Due(f) => wake
  <2>1. wake = (call[f].wake \/ does)
    BY DEF does
  <2> HIDE DEF wake
  <2> QED
    BY <1>6, <1>7, <2>1 DEF Due
<1>11. CASE Unlock(f, wake)
  <2> HIDE DEF wake
  <2> QED
    BY <1>1, <1>6, <1>9, <1>10, <1>11, EndStep
<1>12. CASE /\ call' = [call EXCEPT ![f].left = left, ![f].got = TRUE, ![f].wake = wake]
            /\ UNCHANGED <<mutex, signalled>>
  <2> HIDE DEF wake, left
  <2>1. call' \in [Files -> CallRecord] /\ Others(f) /\ call'[f].pc = call[f].pc /\ call'[f].wake = wake
    <3> HIDE DEF chars
    <3> QED
      BY <1>4, <1>6, <1>12, StartFacts, NextTurn
  <2>2. pc(f) = "read" /\ call'[f].pc = "read"
    BY <1>1, <2>1 DEF pc
  <2>3. UNCHANGED <<inodeVars, countVars, waiting_writers, asleep, user_bufs, kind, mutex, signalled>>
    BY <1>1, <1>12
  <2>4. Due(f) => call'[f].wake
    BY <1>10, <2>1
  <2> QED
    BY <1>9, <2>1, <2>2, <2>3, <2>4, StayStep
<1> QED
  BY <1>2, <1>11, <1>12

\* The next n bytes of a write, and there are that many.
LEMMA NextBytesOK ==
    ASSUME NEW f, Start(f), NEW n \in 0 .. call[f].left
    PROVE  NextBytes(f, n) \in Bytes /\ Len(NextBytes(f, n)) = n
<1>1. call[f].left \in Nat /\ n \in Nat
  BY StartFacts
<1>2. NextBytes(f, n) \in [1 .. n -> Nat]
  <2> DEFINE l == call[f].left
  <2>1. NextBytes(f, n) = [i \in 1 .. n |-> l - i + 1]
    BY DEF NextBytes
  <2>2. \A i \in 1 .. n : l - i + 1 \in Nat
    <3> HIDE DEF l
    <3> QED
      BY <1>1 DEF l
  <2> HIDE DEF l
  <2> QED
    BY <2>1, <2>2
<1> QED
  BY <1>1, <1>2 DEF Bytes

\* What does not fill a page is no more than there is.
LEMMA Remainder ==
    ASSUME NEW n \in Nat
    PROVE  n % PAGE_SIZE \in Nat /\ n % PAGE_SIZE <= n /\ n - (n % PAGE_SIZE) \in Nat
BY PageSize

\* pipe_read finds nothing.
LEMMA ReadEmptyStep ==
    ASSUME NEW f, Start(f), ReadEmpty(f)
    PROVE  RWStep(f)
<1>1. /\ pc(f) = "read" /\ pipe.nrbufs = 0
      /\ UNCHANGED <<inodeVars, ringVars, countVars, waiting_writers, user_bufs, kind>>
  BY DEF ReadEmpty, Step
<1>2. RingStep /\ Turns(f)
  BY <1>1, SameRing DEF ringVars
<1>3. CASE Unlock(f, call[f].wake) /\ UNCHANGED asleep
  <2>1. Due(f) => call[f].wake
    BY <1>1 DEF Due, ringVars
  <2> QED
    BY <1>1, <1>2, <1>3, <2>1, StartFacts, EndStep
<1>4. CASE ~MustReturn(f) /\ pipe_wait(f, call[f].wake) /\ Goto(f, "rwait") /\ UNCHANGED signalled
  <2>1. writers # 0 /\ (waiting_writers = 0 => ~call[f].got /\ ~kind[f].nonblock)
    BY <1>4 DEF MustReturn
  <2>2. "rwait" \in Pcs
    BY DEF Pcs, Registered
  <2>3. call' \in [Files -> CallRecord] /\ Others(f) /\ call'[f].pc = "rwait" /\ call'[f].got = call[f].got
    BY <1>4, <2>2, StartFacts, GotoStep
  <2>4. Common(f)
    BY <1>1, <1>2, <1>4, <2>3, StartFacts DEF Common
  <2>5. SleepsEmpty(f)
    BY <1>1, <1>4, <2>1, <2>3 DEF SleepsEmpty
  <2> QED
    BY <1>1, <2>4, <2>5 DEF RWStep
<1> QED
  BY <1>3, <1>4 DEF ReadEmpty

\* pipe_write finds no room.
LEMMA WriteFullStep ==
    ASSUME NEW f, Start(f), WriteFull(f)
    PROVE  RWStep(f)
<1>1. /\ pc(f) = "write" /\ Full(pipe) /\ readers > 0
      /\ UNCHANGED <<inodeVars, ringVars, countVars, user_bufs, kind>>
  BY DEF WriteFull, Step
<1>2. RingStep /\ Turns(f)
  BY <1>1, SameRing DEF ringVars
<1>3. CASE Unlock(f, call[f].wake) /\ UNCHANGED <<asleep, waiting_writers>>
  <2>1. Due(f) => call[f].wake
    BY <1>1 DEF Due, ringVars
  <2> QED
    BY <1>1, <1>2, <1>3, <2>1, StartFacts, EndStep
<1>4. CASE /\ pipe_wait(f, call[f].wake)
           /\ waiting_writers' = waiting_writers + 1
           /\ call' = [call EXCEPT ![f].pc = "wwait", ![f].wake = FALSE, ![f].seen = pipe.buffers]
           /\ UNCHANGED signalled
  <2> DEFINE n == pipe.buffers
             c == [call[f] EXCEPT !.pc = "wwait", !.wake = FALSE, !.seen = n]
  <2>1. call[f] \in CallRecord /\ f \in DOMAIN call /\ "wwait" \in Pcs /\ n \in Int
    BY StartFacts DEF TypeOK, Pcs, Registered
  <2>2. call' = [call EXCEPT ![f] = c]
    BY <1>4, <2>1
  <2> HIDE DEF n
  <2>3. c \in CallRecord /\ c.pc = "wwait" /\ c.seen = n
    BY <2>1 DEF CallRecord
  <2> HIDE DEF c
  <2>4. call' \in [Files -> CallRecord] /\ Others(f) /\ call'[f] = c
    BY <2>2, <2>3, StartFacts, CallMoves
  <2>5. Common(f)
    BY <1>1, <1>2, <1>4, <2>4, StartFacts DEF Common
  <2>6. n = pipe.nrbufs
    BY <1>1 DEF Full, n
  <2>7. SleepsFull(f)
    BY <1>1, <1>4, <2>3, <2>4, <2>6 DEF SleepsFull
  <2> QED
    BY <1>1, <2>5, <2>7 DEF RWStep
<1> QED
  BY <1>3, <1>4 DEF WriteFull

\* pipe_write adds to the last page.
LEMMA WriteMergeStep ==
    ASSUME NEW f, Start(f), WriteMerge(f)
    PROVE  RWStep(f)
<1> DEFINE chars == call[f].left % PAGE_SIZE
           left == call[f].left - chars
           bytes == NextBytes(f, chars)
<1>0. chars \in 0 .. call[f].left /\ chars \in Nat /\ left \in Nat
  BY StartFacts, Remainder
<1>1. /\ pc(f) = "merge"
      /\ UNCHANGED <<inodeVars, tmp_page, countVars, waiting_writers, asleep, user_bufs, kind>>
  BY DEF WriteMerge, Step
<1>2. CASE CanMerge(pipe, chars) /\ pipe' = Merge(pipe, bytes) /\ stream' = stream \o bytes
  <2>1. bytes \in Bytes /\ Len(bytes) = chars
    BY <1>0, NextBytesOK
  <2>2. SameSize(pipe, pipe') /\ pipe'.nrbufs = pipe.nrbufs /\ Content(pipe') = stream'
    <3> HIDE DEF chars, bytes
    <3>1. /\ SameSize(pipe, Merge(pipe, bytes)) /\ Merge(pipe, bytes).nrbufs = pipe.nrbufs
          /\ Content(Merge(pipe, bytes)) = Cat(Content(pipe), bytes)
      BY <1>0, <1>2, <2>1, StartFacts, MergeOK
    <3>2. Content(pipe) = stream
      BY DEF Start
    <3> QED
      BY <1>2, <3>1, <3>2 DEF Cat
  <2>3. RingStep /\ Turns(f)
    BY <1>1, <2>2, StartFacts DEF RingStep, SameSize, Turns
  <2>4. CASE Unlock(f, TRUE)
    BY <1>1, <2>3, <2>4, EndStep
  <2>5. CASE /\ call' = [call EXCEPT ![f].pc = "write", ![f].left = @ - chars, ![f].got = TRUE, ![f].wake = TRUE]
             /\ UNCHANGED <<mutex, signalled>>
    <3>1. call' = [call EXCEPT ![f].pc = "write", ![f].left = left, ![f].got = TRUE, ![f].wake = TRUE]
      BY <2>5, StartFacts DEF TypeOK, CallRecord
    <3> HIDE DEF left
    <3>2. call' \in [Files -> CallRecord] /\ Others(f) /\ call'[f].pc = "write" /\ call'[f].wake = TRUE
      BY <1>0, <3>1, StartFacts, FirstTurn
    <3> QED
      BY <1>1, <2>3, <2>5, <3>2, StayStep
  <2> QED
    BY <1>2, <2>4, <2>5 DEF WriteMerge
<1>3. CASE Goto(f, "write") /\ UNCHANGED <<pipe, stream, mutex, signalled>>
  <2>1. RingStep /\ Turns(f)
    BY <1>1, <1>3, SameRing
  <2>2. "write" \in Pcs
    BY DEF Pcs, Registered
  <2>3. call' \in [Files -> CallRecord] /\ Others(f) /\ call'[f].pc = "write" /\ call'[f].wake = call[f].wake
    BY <1>3, <2>2, StartFacts, GotoStep
  <2>4. Due(f) => call'[f].wake
    BY <1>1, <1>3, <2>3 DEF Due
  <2> QED
    BY <1>1, <1>3, <2>1, <2>3, <2>4, StayStep
<1> QED
  BY <1>2, <1>3 DEF WriteMerge

\* pipe_write adds a page.
LEMMA WriteBufferStep ==
    ASSUME NEW f, Start(f), WriteBuffer(f)
    PROVE  RWStep(f)
<1> DEFINE copied == Min({PAGE_SIZE, call[f].left})
           left == call[f].left - copied
           bytes == NextBytes(f, copied)
<1>0. copied \in 0 .. call[f].left /\ copied \in Nat /\ left \in Nat /\ copied <= PAGE_SIZE
  <2>1. copied \in Nat /\ copied <= PAGE_SIZE /\ copied <= call[f].left /\ call[f].left \in Nat
    BY StartFacts, PageSize, MinOfTwo
  <2> HIDE DEF copied
  <2> QED
    BY <2>1
<1>1. /\ pc(f) = "write" /\ ~Full(pipe) /\ tmp_page' = FALSE
      /\ pipe' = Insert(pipe, bytes, kind[f].packet) /\ stream' = stream \o bytes
      /\ UNCHANGED <<inodeVars, countVars, waiting_writers, asleep, user_bufs, kind>>
  BY DEF WriteBuffer, Step
<1>2. bytes \in Bytes /\ Len(bytes) = copied
  BY <1>0, NextBytesOK
<1>3. SameSize(pipe, pipe') /\ pipe'.nrbufs = pipe.nrbufs + 1 /\ Content(pipe') = stream'
  <2> DEFINE packet == kind[f].packet
  <2> HIDE DEF copied, bytes
  <2>1. packet \in BOOLEAN
    BY StartFacts DEF TypeOK, KindRecord
  <2>2. pipe' = Insert(pipe, bytes, packet)
    BY <1>1
  <2> HIDE DEF packet
  <2>3. /\ SameSize(pipe, Insert(pipe, bytes, packet)) /\ Insert(pipe, bytes, packet).nrbufs = pipe.nrbufs + 1
        /\ Content(Insert(pipe, bytes, packet)) = Cat(Content(pipe), bytes)
    BY <1>0, <1>1, <1>2, <2>1, StartFacts, InsertOK
  <2>4. Content(pipe) = stream
    BY DEF Start
  <2> QED
    BY <1>1, <2>2, <2>3, <2>4 DEF Cat
<1>4. RingStep /\ Turns(f)
  <2>1. pipe'.nrbufs >= pipe.nrbufs
    BY <1>3, StartFacts
  <2> QED
    BY <1>1, <1>3, <2>1 DEF RingStep, SameSize, Turns
<1>5. CASE Unlock(f, TRUE)
  <2> HIDE DEF bytes
  <2> QED
    BY <1>1, <1>4, <1>5, EndStep
<1>6. CASE /\ call' = [call EXCEPT ![f].left = @ - copied, ![f].got = TRUE, ![f].wake = TRUE]
           /\ UNCHANGED <<mutex, signalled>>
  <2> HIDE DEF copied, bytes
  <2>1. call' = [call EXCEPT ![f].left = left, ![f].got = TRUE, ![f].wake = TRUE]
    BY <1>6, StartFacts DEF TypeOK, CallRecord
  <2> HIDE DEF left
  <2>2. call' \in [Files -> CallRecord] /\ Others(f) /\ call'[f].pc = call[f].pc /\ call'[f].wake = TRUE
    BY <1>0, <2>1, StartFacts, NextTurn
  <2>3. pc(f) = "write" /\ call'[f].pc = "write"
    BY <1>1, <2>2 DEF pc
  <2> QED
    BY <1>1, <1>4, <1>6, <2>2, <2>3, StayStep
<1> QED
  BY <1>5, <1>6 DEF WriteBuffer

\* All of them.
ReadWrite(f) ==
    \/ ReadBuffer(f) \/ ReadFault(f) \/ ReadEmpty(f)
    \/ WriteMerge(f) \/ MergeFault(f) \/ WriteBroken(f) \/ WriteBuffer(f)
    \/ WriteNoPage(f) \/ WriteFault(f) \/ WriteFull(f)

LEMMA ReadWriteStep ==
    ASSUME NEW f, Start(f), ReadWrite(f)
    PROVE  RWStep(f)
BY FaultSteps, ReadBufferStep, ReadEmptyStep, WriteMergeStep, WriteBufferStep, WriteFullStep DEF ReadWrite

-----------------------------------------------------------------------------
(* The other steps, by what they may change *)

LEMMA Sizes ==
    PIPE_DEF_BUFFERS \in Nat \ {0} /\ DefaultBuffers \in Nat \ {0} /\ PIPE_MIN_DEF_BUFFERS \in Nat \ {0}
BY PipeConstants DEF DefaultBuffers, PIPE_MIN_DEF_BUFFERS

\* The types of all but call.
RestOK ==
    /\ is_pipe \in BOOLEAN /\ i_pipe \in BOOLEAN /\ Ring(pipe) /\ tmp_page \in BOOLEAN
    /\ readers \in Int /\ writers \in Int /\ waiting_writers \in Int /\ files \in Int
    /\ mutex \in Files \cup {NULL} /\ asleep \in SUBSET Files /\ user_bufs \in Int
    /\ kind \in [Files -> KindRecord] /\ current \in SUBSET Files /\ signalled \in SUBSET Files
    /\ stream \in Bytes

\* A call may be in this state.
CallOK(c) ==
    /\ c.pc \in {"install", "discard"} => c.spare # 0
    /\ c.pc \in {"check", "setsize"} => c.left # 0

LEMMA TypeParts == TypeOK <=> /\ RestOK /\ call \in [Files -> CallRecord]
                              /\ \A f \in Files : CallOK(call[f])
BY DEF TypeOK, RestOK, CallOK, pc

LEMMA TypeStep ==
    ASSUME TypeOK, NEW f \in Files, RestOK', call' \in [Files -> CallRecord], Others(f), CallOK(call'[f])
    PROVE  TypeOK'
<1>1. ASSUME NEW g \in Files
      PROVE  CallOK(call'[g])
  BY TypeParts DEF Others
<1> QED
  BY <1>1 DEF TypeOK, RestOK, CallOK, pc

\* The files one of whose users holds the pipe.
Holding == Registered \cup {"register", "discard", "put"}
Making == {"account", "alloc", "check", "install"}

\* f is on its way to the pipe or from it: what the others use stays.
OutsideStep(f) ==
    /\ UNCHANGED <<inodeVars, ringVars, readers, writers, current, waiting_writers, mutex, asleep>>
    /\ Others(f) /\ \A g \in Files \ {f} : kind'[g] = kind[g]
    /\ pc(f) \notin Registered /\ call'[f].pc \notin Registered
    /\ (pc(f) \in Holding <=> call'[f].pc \in Holding) => files' = files
    /\ pc(f) \notin Holding /\ call'[f].pc \in Holding => files' = files + 1 /\ i_pipe
    /\ pc(f) \in Holding /\ call'[f].pc \notin Holding => files' = files - 1 /\ files # 1
    /\ call'[f].pc \in Making => \/ pc(f) \in Making /\ kind'[f] = kind[f]
                                 \/ pc(f) = "closed" /\ ~i_pipe /\ (is_pipe => \E g \in Files : pc(g) = "idle")
                                 \/ /\ \A g \in Files : pc(g) \in {"closed", "free"}
                                    /\ kind'[f].write /\ ~kind'[f].read

\* Which of the steps are of that kind.
Outside(f) ==
    \/ \E k \in Kinds : fifo_open(f, k) \/ sys_pipe(f, k)
    \/ AllocAccount(f) \/ AllocCheck(f) \/ AllocBuffers(f)
    \/ DiscardPipe(f) \/ CreateFailed(f) \/ FreeLast(f)
    \/ (InstallPipe(f) /\ i_pipe)
    \/ OpenRefused(f)
    \/ (put_pipe_info(f) /\ files # 1)

LEMMA SetKind ==
    ASSUME TypeOK, NEW f \in Files, NEW k \in KindRecord, kind' = [kind EXCEPT ![f] = k]
    PROVE  kind' \in [Files -> KindRecord] /\ kind'[f] = k /\ \A g \in Files \ {f} : kind'[g] = kind[g]
BY DEF TypeOK

LEMMA KindsType == NoKind \in KindRecord /\ \A k \in Kinds : k \in KindRecord
BY PipeConstants DEF NoKind, KindRecord

LEMMA ForgetStep ==
    ASSUME TypeOK, NEW f \in Files, Forget(f)
    PROVE  kind' \in [Files -> KindRecord] /\ kind'[f] = NoKind /\ \A g \in Files \ {f} : kind'[g] = kind[g]
BY SetKind, KindsType DEF Forget

\* What the parts of a pc are.
LEMMA PcFacts ==
    /\ Registered \subseteq Pcs /\ Opening \subseteq Pcs /\ Holding \subseteq Pcs
    /\ {"closed", "put", "free", "register", "account", "alloc", "check", "install", "discard"} \subseteq Pcs
    /\ \A p \in {"closed", "free", "account", "alloc", "check", "install"} : p \notin Holding /\ p \notin Registered
    /\ \A p \in {"register", "discard", "put"} : p \in Holding /\ p \notin Registered
    /\ \A p \in Registered : p \in Holding
    /\ {"idle", "partner", "read", "rwait", "merge", "write", "wwait", "wakein", "wakeout",
        "poll", "polled", "setsize", "close"} \subseteq Registered
BY DEF Pcs, Registered, Opening, Holding

LEMMA OpenSteps ==
    ASSUME TypeOK, NEW f \in Files, NEW k \in Kinds, fifo_open(f, k) \/ sys_pipe(f, k)
    PROVE  OutsideStep(f) /\ TypeOK'
<1>1. pc(f) = "closed" /\ kind' = [kind EXCEPT ![f] = k]
  BY DEF fifo_open, sys_pipe, Step
<1>2. kind' \in [Files -> KindRecord] /\ kind'[f] = k /\ \A g \in Files \ {f} : kind'[g] = kind[g]
  BY <1>1, SetKind, KindsType
<1>3. /\ UNCHANGED <<inodeVars, ringVars, readers, writers, current, waiting_writers, mutex, asleep,
                     user_bufs, signalled>>
  BY DEF fifo_open, sys_pipe, countVars
<1>4. CASE i_pipe /\ files' = files + 1 /\ Goto(f, "register")
  <2>1. call' \in [Files -> CallRecord] /\ Others(f) /\ call'[f].pc = "register"
    BY <1>4, PcFacts, GotoStep
  <2>2. OutsideStep(f)
    BY <1>1, <1>2, <1>3, <1>4, <2>1, PcFacts DEF OutsideStep, Making
  <2>3. RestOK'
    BY <1>2, <1>3, <1>4 DEF TypeOK, RestOK, inodeVars, ringVars
  <2> QED
    BY <2>1, <2>2, <2>3, TypeStep DEF CallOK
<1>5. CASE /\ Goto(f, "account") /\ files' = files
           /\ \/ ~i_pipe /\ (is_pipe => \E g \in Files : pc(g) = "idle")
              \/ (\A g \in Files : pc(g) \in {"closed", "free"}) /\ k.write /\ ~k.read
  <2>1. call' \in [Files -> CallRecord] /\ Others(f) /\ call'[f].pc = "account"
    BY <1>5, PcFacts, GotoStep
  <2>2. OutsideStep(f)
    <3>1. pc(f) \notin Registered /\ pc(f) \notin Holding /\ call'[f].pc \notin Registered /\ call'[f].pc \notin Holding
      BY <1>1, <2>1, PcFacts
    <3> QED
      BY <1>1, <1>2, <1>3, <1>5, <2>1, <3>1 DEF OutsideStep
  <2>3. RestOK'
    BY <1>2, <1>3, <1>5 DEF TypeOK, RestOK, inodeVars, ringVars
  <2> QED
    BY <2>1, <2>2, <2>3, TypeStep DEF CallOK
<1>6. CASE fifo_open(f, k)
  BY <1>4, <1>5, <1>6 DEF fifo_open
<1>7. CASE sys_pipe(f, k)
  BY <1>5, <1>7 DEF sys_pipe, countVars
<1> QED
  BY <1>6, <1>7

\* A call that moves on with a field or two set.
SetsSeen(f, to, seen) == call' = [call EXCEPT ![f].pc = to, ![f].seen = seen]

LEMMA PcAndSeen ==
    ASSUME TypeOK, NEW f \in Files, NEW to \in Pcs, NEW seen \in Int, SetsSeen(f, to, seen)
    PROVE  /\ call' \in [Files -> CallRecord] /\ Others(f) /\ call'[f].pc = to /\ call'[f].seen = seen
           /\ call'[f].got = call[f].got /\ call'[f].wake = call[f].wake
<1> DEFINE c == [call[f] EXCEPT !.pc = to, !.seen = seen]
<1>1. call[f] \in CallRecord /\ f \in DOMAIN call
  BY DEF TypeOK
<1>2. c \in CallRecord /\ c.pc = to /\ c.seen = seen /\ c.got = call[f].got /\ c.wake = call[f].wake
  BY <1>1 DEF CallRecord
<1>3. call' = [call EXCEPT ![f] = c]
  BY <1>1 DEF SetsSeen
<1> HIDE DEF c
<1> QED
  BY <1>2, <1>3, CallMoves

LEMMA PcAndSpare ==
    ASSUME TypeOK, NEW f \in Files, NEW to \in Pcs, NEW spare \in Nat,
           call' = [call EXCEPT ![f].pc = to, ![f].spare = spare]
    PROVE  call' \in [Files -> CallRecord] /\ Others(f) /\ call'[f].pc = to /\ call'[f].spare = spare
<1> DEFINE c == [call[f] EXCEPT !.pc = to, !.spare = spare]
<1>1. call[f] \in CallRecord /\ f \in DOMAIN call
  BY DEF TypeOK
<1>2. c \in CallRecord /\ c.pc = to /\ c.spare = spare
  BY <1>1 DEF CallRecord
<1>3. call' = [call EXCEPT ![f] = c]
  BY <1>1
<1> HIDE DEF c
<1> QED
  BY <1>2, <1>3, CallMoves

\* What alloc_pipe_info does after the soft limit: n buffers are asked for.
LEMMA Corrected ==
    ASSUME TypeOK, NEW f \in Files, AllocCheck(f)
    PROVE  \E n \in Nat \ {0} :
             /\ pc(f) = "alloc" /\ user_bufs' = user_bufs - DefaultBuffers + n /\ user_bufs' \in Int
             /\ call' \in [Files -> CallRecord] /\ Others(f)
             /\ call'[f].pc = "check" /\ call'[f].left = n /\ call'[f].spare = call[f].spare
             /\ UNCHANGED <<inodeVars, ringVars, countVars, waiting_writers, mutex, asleep, kind, signalled>>
<1> DEFINE less == too_many_pipe_buffers_soft(call[f].seen) /\ is_unprivileged_user
           n == IF less THEN PIPE_MIN_DEF_BUFFERS ELSE DefaultBuffers
           m == IF less THEN user_bufs - DefaultBuffers + n ELSE call[f].seen
           c == [call[f] EXCEPT !.pc = "check", !.left = n, !.seen = m]
<1>1. call[f] \in CallRecord /\ f \in DOMAIN call /\ user_bufs \in Int /\ "check" \in Pcs
  BY PcFacts DEF TypeOK
<1>2. n \in Nat \ {0} /\ DefaultBuffers \in Nat
  BY Sizes
<1>3. /\ pc(f) = "alloc" /\ user_bufs' = user_bufs - DefaultBuffers + n
      /\ UNCHANGED <<inodeVars, ringVars, countVars, waiting_writers, mutex, asleep, kind, signalled>>
  BY DEF AllocCheck, Step
<1>4. call' = [call EXCEPT ![f] = c]
  BY <1>1 DEF AllocCheck
<1> HIDE DEF less, n
<1>5. m \in Int
  BY <1>1, <1>2 DEF CallRecord
<1> HIDE DEF m
<1>6. c \in CallRecord /\ c.pc = "check" /\ c.left = n /\ c.spare = call[f].spare
  BY <1>1, <1>2, <1>5 DEF CallRecord
<1> HIDE DEF c
<1>7. call' \in [Files -> CallRecord] /\ call'[f] = c /\ Others(f)
  BY <1>4, <1>6, CallMoves
<1> QED
  BY <1>1, <1>2, <1>3, <1>6, <1>7

\* The pipe is made.
LEMMA Allocated ==
    ASSUME TypeOK, NEW f \in Files, NEW n \in Nat,
           call' = [call EXCEPT ![f] = [NoCall("install") EXCEPT !.spare = n]]
    PROVE  /\ call' \in [Files -> CallRecord] /\ Others(f) /\ call'[f].pc = "install" /\ call'[f].left = 0
           /\ call'[f].spare = n
<1> DEFINE c == [NoCall("install") EXCEPT !.spare = n]
<1>0. NoCall("install") \in CallRecord /\ NoCall("install").pc = "install" /\ NoCall("install").left = 0
  BY PcFacts, NoCallType
<1>1. c \in CallRecord /\ c.pc = "install" /\ c.left = 0 /\ c.spare = n
  BY <1>0 DEF CallRecord
<1> HIDE DEF c
<1> QED
  BY <1>1, CallMoves DEF c

\* A maker that goes on.
LEMMA MakerStep ==
    ASSUME TypeOK, NEW f \in Files, call' \in [Files -> CallRecord], Others(f), CallOK(call'[f]),
           pc(f) \in Making, call'[f].pc \in Making, user_bufs' \in Int,
           UNCHANGED <<inodeVars, ringVars, countVars, waiting_writers, mutex, asleep, kind, signalled>>
    PROVE  OutsideStep(f) /\ TypeOK'
<1>1. pc(f) \notin Registered /\ pc(f) \notin Holding /\ call'[f].pc \notin Registered /\ call'[f].pc \notin Holding
  BY PcFacts DEF Making
<1>2. OutsideStep(f)
  BY <1>1 DEF OutsideStep, countVars
<1>3. RestOK'
  BY DEF RestOK, TypeOK, inodeVars, ringVars, countVars
<1> QED
  BY <1>2, <1>3, TypeStep

\* A maker, or whoever had the last file, that gives up.
LEMMA GoneStep ==
    ASSUME TypeOK, NEW f \in Files, pc(f) \in Making \cup {"free"}, Return(f, "closed"), Forget(f), user_bufs' \in Int,
           UNCHANGED <<inodeVars, ringVars, countVars, waiting_writers, mutex, asleep>>
    PROVE  OutsideStep(f) /\ TypeOK'
<1>1. call' \in [Files -> CallRecord] /\ Others(f) /\ call'[f].pc = "closed" /\ signalled' \in SUBSET Files
  BY PcFacts, ReturnStep
<1>2. kind' \in [Files -> KindRecord] /\ \A g \in Files \ {f} : kind'[g] = kind[g]
  BY ForgetStep
<1>3. pc(f) \notin Registered /\ pc(f) \notin Holding /\ call'[f].pc \notin Registered /\ call'[f].pc \notin Holding
      /\ call'[f].pc \notin Making
  BY <1>1, PcFacts DEF Making
<1>4. OutsideStep(f)
  BY <1>1, <1>2, <1>3 DEF OutsideStep, countVars
<1>5. RestOK'
  BY <1>1, <1>2 DEF RestOK, TypeOK, inodeVars, ringVars, countVars
<1> QED
  BY <1>1, <1>4, <1>5, TypeStep DEF CallOK

LEMMA AllocSteps ==
    ASSUME TypeOK, NEW f \in Files, AllocAccount(f) \/ AllocCheck(f) \/ AllocBuffers(f)
    PROVE  OutsideStep(f) /\ TypeOK'
<1>0. user_bufs \in Int /\ DefaultBuffers \in Int
  BY Sizes DEF TypeOK
<1>1. CASE AllocAccount(f)
  <2>1. pc(f) = "account" /\ UNCHANGED <<inodeVars, ringVars, countVars, waiting_writers, mutex, asleep>>
    BY <1>1 DEF AllocAccount, Step
  <2>2. CASE /\ user_bufs' = user_bufs + DefaultBuffers
             /\ call' = [call EXCEPT ![f].pc = "alloc", ![f].seen = user_bufs + DefaultBuffers]
             /\ UNCHANGED <<kind, signalled>>
    <3> DEFINE n == user_bufs + DefaultBuffers
    <3>1. n \in Int /\ SetsSeen(f, "alloc", n)
      BY <1>0, <2>2 DEF SetsSeen
    <3> HIDE DEF n
    <3>2. call' \in [Files -> CallRecord] /\ Others(f) /\ call'[f].pc = "alloc"
      BY <3>1, PcFacts, PcAndSeen
    <3> QED
      BY <1>0, <2>1, <2>2, <3>2, MakerStep DEF Making, CallOK
  <2>3. CASE Return(f, "closed") /\ Forget(f) /\ UNCHANGED user_bufs
    BY <1>0, <2>1, <2>3, GoneStep DEF Making
  <2> QED
    BY <1>1, <2>2, <2>3 DEF AllocAccount
<1>2. CASE AllocCheck(f)
  <2>1. PICK n \in Nat \ {0} :
             /\ pc(f) = "alloc" /\ user_bufs' = user_bufs - DefaultBuffers + n /\ user_bufs' \in Int
             /\ call' \in [Files -> CallRecord] /\ Others(f)
             /\ call'[f].pc = "check" /\ call'[f].left = n /\ call'[f].spare = call[f].spare
             /\ UNCHANGED <<inodeVars, ringVars, countVars, waiting_writers, mutex, asleep, kind, signalled>>
    BY <1>2, Corrected
  <2> QED
    BY <2>1, MakerStep DEF Making, CallOK
<1>3. CASE AllocBuffers(f)
  <2> DEFINE n == call[f].left
  <2>1. pc(f) = "check" /\ UNCHANGED <<inodeVars, ringVars, countVars, waiting_writers, mutex, asleep>>
    BY <1>3 DEF AllocBuffers, Step
  <2>2. n \in Nat \ {0}
    <3>1. call[f] \in CallRecord /\ n # 0
      BY <2>1 DEF TypeOK
    <3> QED
      BY <3>1 DEF CallRecord
  <2>3. CASE /\ call' = [call EXCEPT ![f] = [NoCall("install") EXCEPT !.spare = n]]
             /\ UNCHANGED <<user_bufs, kind, signalled>>
    <3>1. call' \in [Files -> CallRecord] /\ Others(f) /\ call'[f].pc = "install" /\ call'[f].spare = n
      BY <2>2, <2>3, Allocated
    <3> QED
      BY <1>0, <2>1, <2>2, <2>3, <3>1, MakerStep DEF Making, CallOK
  <2>4. CASE user_bufs' = user_bufs - n /\ Return(f, "closed") /\ Forget(f)
    BY <1>0, <2>1, <2>2, <2>4, GoneStep DEF Making
  <2> QED
    BY <1>3, <2>3, <2>4 DEF AllocBuffers
<1> QED
  BY <1>1, <1>2, <1>3

LEMMA MadeSteps ==
    ASSUME TypeOK, NEW f \in Files,
           \/ DiscardPipe(f) \/ CreateFailed(f) \/ FreeLast(f)
           \/ (InstallPipe(f) /\ i_pipe)
    PROVE  OutsideStep(f) /\ TypeOK'
<1>0. user_bufs - call[f].spare \in Int
  <2>1. user_bufs \in Int /\ call[f] \in CallRecord
    BY DEF TypeOK
  <2> QED
    BY <2>1 DEF CallRecord
<1>1. CASE DiscardPipe(f)
  <2>1. /\ pc(f) = "discard" /\ call' = [call EXCEPT ![f].pc = "register", ![f].spare = 0]
        /\ user_bufs' = user_bufs - call[f].spare
        /\ UNCHANGED <<inodeVars, ringVars, countVars, waiting_writers, mutex, asleep, kind, signalled>>
    BY <1>1 DEF DiscardPipe, Step, FreePipe
  <2>2. call' \in [Files -> CallRecord] /\ Others(f) /\ call'[f].pc = "register"
    BY <2>1, PcFacts, PcAndSpare
  <2>3. OutsideStep(f)
    BY <2>1, <2>2, PcFacts DEF OutsideStep, countVars, Making
  <2>4. RestOK'
    BY <1>0, <2>1 DEF RestOK, TypeOK, inodeVars, ringVars, countVars
  <2> QED
    BY <2>2, <2>3, <2>4, TypeStep DEF CallOK
<1>2. CASE CreateFailed(f) \/ FreeLast(f)
  <2>1. /\ pc(f) \in Making \cup {"free"} /\ Return(f, "closed") /\ Forget(f)
        /\ user_bufs' = user_bufs - call[f].spare
        /\ UNCHANGED <<inodeVars, ringVars, countVars, waiting_writers, mutex, asleep>>
    BY <1>2 DEF CreateFailed, FreeLast, Step, FreePipe, Making
  <2> QED
    BY <1>0, <2>1, GoneStep
<1>3. CASE InstallPipe(f) /\ i_pipe
  <2>1. /\ pc(f) = "install" /\ files' = files + 1 /\ Goto(f, "discard")
        /\ UNCHANGED <<inodeVars, ringVars, current, readers, writers, waiting_writers, mutex, asleep,
                       user_bufs, kind, signalled>>
    BY <1>3 DEF InstallPipe, Step
  <2>2. /\ call' \in [Files -> CallRecord] /\ Others(f) /\ call'[f].pc = "discard"
        /\ call'[f].spare = call[f].spare
    BY <2>1, PcFacts, GotoStep
  <2>3. OutsideStep(f)
    BY <1>3, <2>1, <2>2, PcFacts DEF OutsideStep, Making
  <2>4. RestOK'
    BY <2>1 DEF RestOK, TypeOK, inodeVars, ringVars
  <2>5. call[f].spare # 0
    BY <2>1 DEF TypeOK
  <2> QED
    BY <2>2, <2>3, <2>4, <2>5, TypeStep DEF CallOK
<1> QED
  BY <1>1, <1>2, <1>3

LEMMA RefusedSteps ==
    ASSUME TypeOK, NEW f \in Files, OpenRefused(f) \/ (put_pipe_info(f) /\ files # 1)
    PROVE  OutsideStep(f) /\ TypeOK'
<1>1. CASE OpenRefused(f)
  <2>1. /\ pc(f) = "register" /\ Goto(f, "put") /\ Forget(f)
        /\ UNCHANGED <<inodeVars, ringVars, countVars, waiting_writers, mutex, asleep, user_bufs, signalled>>
    BY <1>1 DEF OpenRefused, Step
  <2>2. call' \in [Files -> CallRecord] /\ Others(f) /\ call'[f].pc = "put"
    BY <2>1, PcFacts, GotoStep
  <2>3. kind' \in [Files -> KindRecord] /\ \A g \in Files \ {f} : kind'[g] = kind[g]
    BY <2>1, ForgetStep
  <2>4. OutsideStep(f)
    BY <2>1, <2>2, <2>3, PcFacts DEF OutsideStep, countVars, Making
  <2>5. RestOK'
    BY <2>1, <2>3 DEF RestOK, TypeOK, inodeVars, ringVars, countVars
  <2> QED
    BY <2>2, <2>4, <2>5, TypeStep DEF CallOK
<1>2. CASE put_pipe_info(f) /\ files # 1
  <2>1. /\ pc(f) = "put" /\ files' = files - 1 /\ Return(f, "closed") /\ UNCHANGED <<i_pipe, ringVars>>
        /\ UNCHANGED <<is_pipe, readers, writers, current, waiting_writers, mutex, asleep, user_bufs, kind>>
    BY <1>2 DEF put_pipe_info, Step
  <2>2. call' \in [Files -> CallRecord] /\ Others(f) /\ call'[f].pc = "closed" /\ signalled' \in SUBSET Files
    BY <2>1, PcFacts, ReturnStep
  <2>4. OutsideStep(f)
    BY <1>2, <2>1, <2>2, PcFacts DEF OutsideStep, Making, inodeVars
  <2>5. RestOK'
    BY <2>1, <2>2 DEF RestOK, TypeOK, ringVars
  <2> QED
    BY <2>2, <2>4, <2>5, TypeStep DEF CallOK
<1> QED
  BY <1>1, <1>2

LEMMA OutsideSteps ==
    ASSUME TypeOK, NEW f \in Files, Outside(f)
    PROVE  OutsideStep(f) /\ TypeOK'
BY OpenSteps, AllocSteps, MadeSteps, RefusedSteps DEF Outside

\* The inode gets a pipe, or loses it.
FreshStep(f) ==
    /\ UNCHANGED <<is_pipe, readers, writers, current, waiting_writers, mutex, asleep, kind>>
    /\ Content(pipe') = stream' /\ pipe'.nrbufs = 0 /\ ~tmp_page'
    /\ Others(f)
    /\ \/ pc(f) = "install" /\ call'[f].pc = "register" /\ ~i_pipe /\ i_pipe' /\ files' = 1
       \/ pc(f) = "put" /\ call'[f].pc = "free" /\ ~i_pipe' /\ files = 1 /\ files' = 0

LEMMA FreshSteps ==
    ASSUME TypeOK, NEW f \in Files, (InstallPipe(f) /\ ~i_pipe) \/ (put_pipe_info(f) /\ files = 1)
    PROVE  FreshStep(f) /\ TypeOK'
<1>1. CASE InstallPipe(f) /\ ~i_pipe
  <2> DEFINE n == call[f].spare
  <2>1. /\ pc(f) = "install" /\ i_pipe' = TRUE /\ files' = 1
        /\ pipe' = EmptyRing(n) /\ tmp_page' = FALSE /\ stream' = <<>>
        /\ call' = [call EXCEPT ![f].pc = "register", ![f].spare = 0]
        /\ UNCHANGED <<is_pipe, current, readers, writers, waiting_writers, mutex, asleep, user_bufs, kind, signalled>>
    BY <1>1 DEF InstallPipe, Step, NewPipe
  <2>2. n \in Nat \ {0}
    <3>1. call[f] \in CallRecord /\ n # 0
      BY <2>1 DEF TypeOK
    <3> QED
      BY <3>1 DEF CallRecord
  <2>3. call' \in [Files -> CallRecord] /\ Others(f) /\ call'[f].pc = "register"
    BY <2>1, PcFacts, PcAndSpare
  <2> HIDE DEF n
  <2>4. Ring(pipe') /\ Content(pipe') = stream' /\ pipe'.nrbufs = 0
    BY <2>1, <2>2, EmptyRingOK DEF EmptyRing
  <2>5. FreshStep(f)
    BY <1>1, <2>1, <2>3, <2>4 DEF FreshStep
  <2>6. RestOK'
    <3>1. stream' \in Bytes
      BY <2>1 DEF Bytes
    <3>2. i_pipe' \in BOOLEAN /\ tmp_page' \in BOOLEAN
      BY <2>1, Zenon
    <3>3. files' \in Int
      BY <2>1
    <3> QED
      BY <2>1, <2>4, <3>1, <3>2, <3>3, TypeParts DEF RestOK
  <2> QED
    BY <2>3, <2>5, <2>6, TypeStep DEF CallOK
<1>2. CASE put_pipe_info(f) /\ files = 1
  <2> DEFINE c == [NoCall("free") EXCEPT !.spare = pipe.buffers]
  <2>1. /\ pc(f) = "put" /\ i_pipe' = FALSE /\ files' = 0
        /\ pipe' = EmptyRing(PIPE_DEF_BUFFERS) /\ tmp_page' = FALSE /\ stream' = <<>>
        /\ call' = [call EXCEPT ![f] = c]
        /\ UNCHANGED <<is_pipe, current, readers, writers, waiting_writers, mutex, asleep, user_bufs, kind, signalled>>
    BY <1>2 DEF put_pipe_info, Step
  <2>2. c \in CallRecord /\ c.pc = "free"
    <3>1. pipe.buffers \in Nat /\ NoCall("free") \in CallRecord /\ NoCall("free").pc = "free"
      BY PcFacts, NoCallType DEF TypeOK, Ring
    <3> QED
      BY <3>1 DEF CallRecord
  <2> HIDE DEF c
  <2>3. call' \in [Files -> CallRecord] /\ Others(f) /\ call'[f] = c
    BY <2>1, <2>2, CallMoves
  <2>4. Ring(pipe') /\ Content(pipe') = stream' /\ pipe'.nrbufs = 0
    BY <2>1, Sizes, EmptyRingOK DEF EmptyRing
  <2>5. FreshStep(f)
    BY <1>2, <2>1, <2>2, <2>3, <2>4 DEF FreshStep
  <2>6. RestOK'
    <3>1. stream' \in Bytes
      BY <2>1 DEF Bytes
    <3>2. i_pipe' \in BOOLEAN /\ tmp_page' \in BOOLEAN
      BY <2>1, Zenon
    <3>3. files' \in Int
      BY <2>1
    <3> QED
      BY <2>1, <2>4, <3>1, <3>2, <3>3, TypeParts DEF RestOK
  <2> QED
    BY <2>2, <2>3, <2>5, <2>6, TypeStep DEF CallOK
<1> QED
  BY <1>1, <1>2

\* f becomes a reader, a writer or both, of which the first wakes up everyone.
JoinStep(f) ==
    /\ UNCHANGED <<inodeVars, ringVars, files, waiting_writers, kind>>
    /\ Others(f)
    /\ pc(f) = "register" /\ call'[f].pc \in {"idle", "partner"} /\ mutex = NULL /\ mutex' = NULL
    /\ kind[f].read \/ kind[f].write
    /\ IF kind[f].read THEN readers' = readers + 1 ELSE readers' = readers
    /\ IF kind[f].write THEN writers' = writers + 1 ELSE writers' = writers
    /\ asleep' \subseteq asleep \cup {f}
    /\ kind[f].read /\ readers = 0 => asleep' \subseteq {f}
    /\ kind[f].write /\ writers = 0 => asleep' \subseteq {f}
    /\ f \in asleep' => f \in asleep \/ (call'[f].pc = "partner" /\ f \in current')
    /\ call'[f].pc = "partner" => ~(kind[f].read /\ kind[f].write)
    \* copies of the counters that were incremented are no longer equal
    /\ \A g \in Files \ {f} :
          /\ g \in current' => g \in current /\ (kind[f].read => ~kind[g].write) /\ (kind[f].write => ~kind[g].read)
          /\ g \in current => \/ g \in current'
                              \/ kind[f].read /\ kind[g].write
                              \/ kind[f].write /\ kind[g].read
                              \/ kind[f].read /\ kind[f].write
    /\ f \in current' => \/ f \in current
                         \/ kind[f].read /\ ~kind[f].write /\ writers = 0
                         \/ kind[f].write /\ ~kind[f].read /\ readers = 0

\* Who opens the pipe wakes up everyone.
LEMMA WakesAll ==
    ASSUME NEW f, pc(f) = "register"
    PROVE  WakeUp(f) = {}
BY DEF WakeUp, Wakes

LEMMA JoinSteps ==
    ASSUME TypeOK, NEW f \in Files, OpenRead(f) \/ OpenWrite(f) \/ OpenBoth(f)
    PROVE  JoinStep(f) /\ TypeOK'
<1>1. CASE OpenBoth(f)
  <2>1. /\ pc(f) = "register" /\ mutex = NULL /\ kind[f].read /\ kind[f].write
        /\ readers' = readers + 1 /\ writers' = writers + 1 /\ current' = {}
        /\ asleep' = (IF readers = 0 \/ writers = 0 THEN {} ELSE asleep)
        /\ Return(f, "idle")
        /\ UNCHANGED <<inodeVars, ringVars, files, waiting_writers, mutex, user_bufs, kind>>
    BY <1>1 DEF OpenBoth, Step
  <2>2. call' \in [Files -> CallRecord] /\ Others(f) /\ call'[f].pc = "idle" /\ signalled' \in SUBSET Files
    BY <2>1, PcFacts, ReturnStep
  <2>3. JoinStep(f)
    BY <2>1, <2>2 DEF JoinStep
  <2>4. RestOK'
    BY <2>1, <2>2 DEF RestOK, TypeOK, inodeVars, ringVars
  <2> QED
    BY <2>2, <2>3, <2>4, TypeStep DEF CallOK
<1>2. CASE OpenRead(f)
  <2> DEFINE alone == ~is_pipe /\ writers = 0
  <2>1. /\ pc(f) = "register" /\ mutex = NULL /\ kind[f].read /\ ~kind[f].write
        /\ readers' = readers + 1
        /\ current' = (current \ CopiesOf("r_counter")) \cup (IF alone THEN {f} ELSE {})
        /\ UNCHANGED <<inodeVars, ringVars, writers, files, waiting_writers, user_bufs, kind>>
    BY <1>2 DEF OpenRead, Step
  <2>2. \/ alone /\ WaitForPartner(f, readers = 0) /\ UNCHANGED signalled
        \/ Return(f, "idle") /\ asleep' = (IF readers = 0 THEN {} ELSE asleep) /\ UNCHANGED mutex
    BY <1>2 DEF OpenRead
  <2>3. /\ call' \in [Files -> CallRecord] /\ Others(f) /\ signalled' \in SUBSET Files /\ mutex' = NULL
        /\ asleep' \subseteq asleep \cup {f} /\ (readers = 0 => asleep' \subseteq {f})
        /\ call'[f].pc \in {"idle", "partner"}
        /\ f \in asleep' => f \in asleep \/ (call'[f].pc = "partner" /\ alone)
    <3>1. CASE alone /\ WaitForPartner(f, readers = 0) /\ UNCHANGED signalled
      <4>1. Goto(f, "partner") /\ mutex' = NULL
            /\ asleep' = (IF readers = 0 THEN {} ELSE asleep) \cup (IF f \in signalled THEN {} ELSE {f})
        BY <2>1, <3>1, WakesAll DEF WaitForPartner, pipe_wait
      <4>2. call' \in [Files -> CallRecord] /\ Others(f) /\ call'[f].pc = "partner"
        BY <4>1, PcFacts, GotoStep
      <4> QED
        BY <3>1, <4>1, <4>2 DEF TypeOK
    <3>2. CASE Return(f, "idle") /\ asleep' = (IF readers = 0 THEN {} ELSE asleep) /\ UNCHANGED mutex
      <4>1. call' \in [Files -> CallRecord] /\ Others(f) /\ call'[f].pc = "idle" /\ signalled' \in SUBSET Files
        BY <3>2, PcFacts, ReturnStep
      <4> QED
        BY <2>1, <3>2, <4>1
    <3> QED
      BY <2>2, <3>1, <3>2
  <2>4. \A g \in current : g \in CopiesOf("r_counter") <=> kind[g].write
    BY DEF CopiesOf
  <2>5. /\ alone => f \in current' /\ writers = 0
        /\ f \in current' => f \in current \/ writers = 0
        /\ \A g \in Files \ {f} : g \in current' <=> g \in current /\ ~kind[g].write
    <3> HIDE DEF alone
    <3> QED
      BY <2>1, <2>4 DEF alone
  <2>6. JoinStep(f)
    <3> HIDE DEF alone
    <3> QED
      BY <2>1, <2>3, <2>5 DEF JoinStep
  <2>7. RestOK'
    <3>1. current' \in SUBSET Files
      BY <2>1 DEF TypeOK
    <3>2. asleep' \in SUBSET Files
      BY <2>3 DEF TypeOK
    <3> QED
      BY <2>1, <2>3, <3>1, <3>2 DEF RestOK, TypeOK, inodeVars, ringVars
  <2> QED
    BY <2>3, <2>6, <2>7, TypeStep DEF CallOK
<1>3. CASE OpenWrite(f)
  <2> DEFINE alone == ~is_pipe /\ readers = 0
  <2>1. /\ pc(f) = "register" /\ mutex = NULL /\ kind[f].write /\ ~kind[f].read
        /\ writers' = writers + 1
        /\ current' = (current \ CopiesOf("w_counter")) \cup (IF alone THEN {f} ELSE {})
        /\ UNCHANGED <<inodeVars, ringVars, readers, files, waiting_writers, user_bufs, kind>>
    BY <1>3 DEF OpenWrite, Step
  <2>2. \/ alone /\ WaitForPartner(f, writers = 0) /\ UNCHANGED signalled
        \/ Return(f, "idle") /\ asleep' = (IF writers = 0 THEN {} ELSE asleep) /\ UNCHANGED mutex
    BY <1>3 DEF OpenWrite
  <2>3. /\ call' \in [Files -> CallRecord] /\ Others(f) /\ signalled' \in SUBSET Files /\ mutex' = NULL
        /\ asleep' \subseteq asleep \cup {f} /\ (writers = 0 => asleep' \subseteq {f})
        /\ call'[f].pc \in {"idle", "partner"}
        /\ f \in asleep' => f \in asleep \/ (call'[f].pc = "partner" /\ alone)
    <3>1. CASE alone /\ WaitForPartner(f, writers = 0) /\ UNCHANGED signalled
      <4>1. Goto(f, "partner") /\ mutex' = NULL
            /\ asleep' = (IF writers = 0 THEN {} ELSE asleep) \cup (IF f \in signalled THEN {} ELSE {f})
        BY <2>1, <3>1, WakesAll DEF WaitForPartner, pipe_wait
      <4>2. call' \in [Files -> CallRecord] /\ Others(f) /\ call'[f].pc = "partner"
        BY <4>1, PcFacts, GotoStep
      <4> QED
        BY <3>1, <4>1, <4>2 DEF TypeOK
    <3>2. CASE Return(f, "idle") /\ asleep' = (IF writers = 0 THEN {} ELSE asleep) /\ UNCHANGED mutex
      <4>1. call' \in [Files -> CallRecord] /\ Others(f) /\ call'[f].pc = "idle" /\ signalled' \in SUBSET Files
        BY <3>2, PcFacts, ReturnStep
      <4> QED
        BY <2>1, <3>2, <4>1
    <3> QED
      BY <2>2, <3>1, <3>2
  <2>4. \A g \in current : g \in CopiesOf("w_counter") <=> kind[g].read
    BY DEF CopiesOf
  <2>5. /\ alone => f \in current' /\ readers = 0
        /\ f \in current' => f \in current \/ readers = 0
        /\ \A g \in Files \ {f} : g \in current' <=> g \in current /\ ~kind[g].read
    <3> HIDE DEF alone
    <3> QED
      BY <2>1, <2>4 DEF alone
  <2>6. JoinStep(f)
    <3> HIDE DEF alone
    <3> QED
      BY <2>1, <2>3, <2>5 DEF JoinStep
  <2>7. RestOK'
    <3>1. current' \in SUBSET Files
      BY <2>1 DEF TypeOK
    <3>2. asleep' \in SUBSET Files
      BY <2>3 DEF TypeOK
    <3> QED
      BY <2>1, <2>3, <3>1, <3>2 DEF RestOK, TypeOK, inodeVars, ringVars
  <2> QED
    BY <2>3, <2>6, <2>7, TypeStep DEF CallOK
<1> QED
  BY <1>1, <1>2, <1>3

\* f is no longer a reader or a writer: the last one of its kind wakes up everyone,
\* and so does whoever leaves someone behind.
LeaveStep(f) ==
    /\ UNCHANGED <<inodeVars, ringVars, files, waiting_writers>>
    /\ Others(f) /\ \A g \in Files \ {f} : kind'[g] = kind[g]
    /\ pc(f) \in {"partner", "idle", "close"} /\ call'[f].pc = "put" /\ mutex = NULL /\ mutex' = NULL
    /\ IF kind[f].read THEN readers' = readers - 1 ELSE readers' = readers
    /\ IF kind[f].write THEN writers' = writers - 1 ELSE writers' = writers
    /\ current' = current \ {f}
    /\ asleep' \subseteq asleep /\ (f \in asleep => pc(f) # "partner")
    /\ \/ asleep' = {}
       \/ readers' <= 0 /\ writers' <= 0
       \/ kind[f].read /\ ~kind[f].write /\ readers # 1
       \/ kind[f].write /\ ~kind[f].read /\ writers # 1

LEMMA LeaveSteps ==
    ASSUME TypeOK, NEW f \in Files, (NoPartner(f) /\ f \in signalled) \/ pipe_release(f),
           pc(f) = "partner" => kind[f].read # kind[f].write
    PROVE  LeaveStep(f) /\ TypeOK'
<1>0. readers \in Int /\ writers \in Int /\ kind[f].read \in BOOLEAN /\ kind[f].write \in BOOLEAN
  BY DEF TypeOK, KindRecord
<1>1. /\ Goto(f, "put") /\ Forget(f) /\ current' = current \ {f} /\ mutex = NULL /\ mutex' = mutex
      /\ UNCHANGED <<inodeVars, ringVars, files, waiting_writers, user_bufs, signalled>>
  BY DEF NoPartner, Awake, pipe_release
<1>2. call' \in [Files -> CallRecord] /\ Others(f) /\ call'[f].pc = "put"
  BY <1>1, PcFacts, GotoStep
<1>3. kind' \in [Files -> KindRecord] /\ \A g \in Files \ {f} : kind'[g] = kind[g]
  BY <1>1, ForgetStep
<1>4. /\ pc(f) \in {"partner", "idle", "close"}
      /\ IF kind[f].read THEN readers' = readers - 1 ELSE readers' = readers
      /\ IF kind[f].write THEN writers' = writers - 1 ELSE writers' = writers
      /\ asleep' \subseteq asleep /\ (f \in asleep => pc(f) # "partner")
      /\ \/ asleep' = {}
         \/ readers' <= 0 /\ writers' <= 0
         \/ kind[f].read /\ ~kind[f].write /\ readers # 1
         \/ kind[f].write /\ ~kind[f].read /\ writers # 1
      /\ readers' \in Int /\ writers' \in Int
  <2>1. CASE NoPartner(f) /\ f \in signalled
    <3>1. /\ pc(f) = "partner" /\ f \notin asleep
          /\ readers' = IF kind[f].read THEN readers - 1 ELSE readers
          /\ writers' = IF kind[f].read THEN writers ELSE writers - 1
          /\ asleep' = IF (IF kind[f].read THEN readers ELSE writers) = 1 THEN {} ELSE asleep
      BY <2>1 DEF NoPartner, Step, Awake
    <3>2. kind[f].write <=> ~kind[f].read
      BY <1>0, <3>1
    <3>3. CASE kind[f].read
      BY <1>0, <3>1, <3>2, <3>3
    <3>4. CASE ~kind[f].read
      BY <1>0, <3>1, <3>2, <3>4
    <3> QED
      BY <3>3, <3>4
  <2>2. CASE pipe_release(f)
    <3>1. /\ pc(f) \in {"idle", "close"}
          /\ readers' = IF kind[f].read THEN readers - 1 ELSE readers
          /\ writers' = IF kind[f].write THEN writers - 1 ELSE writers
          /\ asleep' = IF readers' > 0 \/ writers' > 0 THEN {} ELSE asleep
      BY <2>2 DEF pipe_release
    <3>2. readers' \in Int /\ writers' \in Int
      BY <1>0, <3>1
    <3>3. (asleep' = {} \/ (readers' <= 0 /\ writers' <= 0)) /\ asleep' \subseteq asleep
      BY <3>1, <3>2
    <3> QED
      BY <1>0, <3>1, <3>2, <3>3
  <2> QED
    BY <2>1, <2>2
<1>5. LeaveStep(f)
  BY <1>1, <1>2, <1>3, <1>4 DEF LeaveStep
<1>6. RestOK'
  BY <1>1, <1>3, <1>4 DEF RestOK, TypeOK, inodeVars, ringVars
<1> QED
  BY <1>2, <1>5, <1>6, TypeStep DEF CallOK

\* pipe(): the two files of a new pipe.
CreateStep(f, g) ==
    /\ f # g /\ pc(f) = "install" /\ is_pipe
    /\ UNCHANGED <<is_pipe, current, waiting_writers, mutex, asleep>>
    /\ i_pipe' /\ Content(pipe') = stream' /\ pipe'.nrbufs = 0 /\ ~tmp_page'
    /\ files' = 2 /\ readers' = 1 /\ writers' = 1
    /\ kind'[g].read /\ ~kind'[g].write /\ kind'[f] = kind[f]
    /\ call'[f].pc \in {"idle", "close"} /\ call'[g].pc \in {"idle", "close"}
    /\ ~call'[f].wake /\ ~call'[g].wake
    /\ \A h \in Files \ {f, g} : call'[h] = call[h] /\ kind'[h] = kind[h]

LEMMA CreateSteps ==
    ASSUME TypeOK, NEW f \in Files, NEW g \in Files, CreatePipeFiles(f, g)
    PROVE  CreateStep(f, g) /\ TypeOK'
<1> DEFINE n == call[f].spare
           k == [read |-> TRUE, write |-> FALSE, nonblock |-> kind[f].nonblock, packet |-> FALSE]
<1>1. /\ pc(f) = "install" /\ is_pipe /\ pc(g) = "closed"
      /\ i_pipe' = TRUE /\ pipe' = EmptyRing(n) /\ tmp_page' = FALSE /\ stream' = <<>>
      /\ UNCHANGED <<is_pipe, current>>
      /\ files' = 2 /\ readers' = 1 /\ writers' = 1
      /\ kind' = [kind EXCEPT ![g] = k]
      /\ UNCHANGED <<waiting_writers, mutex, asleep, user_bufs, signalled>>
  BY DEF CreatePipeFiles, Step, NewPipe
<1>2. PICK at \in {"idle", "close"} : call' = [call EXCEPT ![f] = NoCall(at), ![g] = NoCall(at)]
  BY DEF CreatePipeFiles
<1>3. n \in Nat \ {0} /\ k \in KindRecord /\ k.read /\ ~k.write /\ f # g
  <2>1. call[f] \in CallRecord /\ n # 0 /\ kind[f] \in KindRecord
    BY <1>1 DEF TypeOK
  <2>2. n \in Nat \ {0}
    BY <2>1 DEF CallRecord
  <2>3. k \in KindRecord /\ k.read /\ ~k.write
    BY <2>1 DEF KindRecord
  <2>4. f # g
    BY <1>1
  <2> QED
    BY <2>2, <2>3, <2>4
<1> HIDE DEF n, k
<1>4. Ring(pipe') /\ Content(pipe') = stream' /\ pipe'.nrbufs = 0
  BY <1>1, <1>3, EmptyRingOK
<1>5. kind' \in [Files -> KindRecord] /\ kind'[g] = k /\ \A h \in Files \ {g} : kind'[h] = kind[h]
  BY <1>1, <1>3, SetKind
<1>6. /\ NoCall(at) \in CallRecord /\ NoCall(at).pc = at /\ NoCall(at).wake = FALSE /\ CallOK(NoCall(at))
  <2>1. at \in Pcs
    BY DEF Pcs, Registered
  <2> QED
    BY <2>1, NoCallType DEF CallOK
<1>7. /\ call' \in [Files -> CallRecord] /\ call'[f] = NoCall(at) /\ call'[g] = NoCall(at)
      /\ \A h \in Files \ {f, g} : call'[h] = call[h]
  BY <1>2, <1>3, <1>6 DEF TypeOK
<1>8. CreateStep(f, g)
  BY <1>1, <1>3, <1>4, <1>5, <1>6, <1>7 DEF CreateStep
<1>9. RestOK'
  <2>1. stream' \in Bytes
    BY <1>1 DEF Bytes
  <2>2. i_pipe' \in BOOLEAN /\ tmp_page' \in BOOLEAN
    BY <1>1, Zenon
  <2>3. files' \in Int /\ readers' \in Int /\ writers' \in Int
    BY <1>1
  <2> QED
    BY <1>1, <1>4, <1>5, <2>1, <2>2, <2>3, TypeParts DEF RestOK
<1>10. ASSUME NEW h \in Files
       PROVE  CallOK(call'[h])
  BY <1>6, <1>7, TypeParts
<1> QED
  BY <1>7, <1>8, <1>9, <1>10 DEF TypeOK, RestOK, CallOK, pc

\* f has still to wake up the others.
Pending(f) == pc(f) \in WakePcs \/ (mutex = f /\ call[f].wake)

\* The callers that may be on pipe->wait.
Waiting == {"rwait", "wwait", "partner", "poll", "polled"}

\* f does something that leaves the counts and what is in the ring alone.
QuietStep(f) ==
    /\ UNCHANGED <<inodeVars, countVars, kind, tmp_page>>
    /\ Content(pipe') = stream' /\ pipe'.nrbufs = pipe.nrbufs
    /\ Others(f)
    /\ pc(f) \in Registered /\ call'[f].pc \in Registered
    /\ call'[f].pc = "wwait" => pc(f) = "wwait"
    /\ pc(f) = "wwait" /\ call'[f].pc # "wwait" =>
          waiting_writers' = waiting_writers - 1 /\ call'[f].pc = "write" /\ mutex' = f
    /\ (pc(f) = "wwait" => call'[f].pc = "wwait") => waiting_writers' = waiting_writers
    /\ \/ UNCHANGED <<mutex, call>>
       \/ mutex' = mutex /\ pc(f) \notin InMutex /\ call'[f].pc \notin InMutex
       \/ mutex = NULL /\ mutex' = f /\ pc(f) \notin InMutex /\ call'[f].pc \in InMutex
       \/ pc(f) = "setsize" /\ mutex' = NULL /\ call'[f].pc \notin InMutex
    /\ call'[f].pc \in {"read", "rwait"} => kind[f].read
    /\ call'[f].pc \in {"merge", "write", "wwait"} => kind[f].write
    /\ call'[f].pc = "partner" => pc(f) = "partner"
    /\ call'[f].pc \in {"merge", "setsize"} => ~call'[f].wake
    /\ asleep' \subseteq asleep \cup {f}
    /\ f \in asleep' => \/ f \in asleep /\ UNCHANGED call
                        \/ call'[f].pc = "poll"
                        \/ call'[f].pc = "polled" /\ call'[f].seen = pipe.nrbufs
                        \/ call'[f].pc = "partner" /\ f \in current
    /\ Pending(f) => asleep' = WakeUp(f) \/ UNCHANGED <<mutex, call>>

\* What the quiet steps start from.
Modes(f) ==
    /\ pc(f) \in {"read", "rwait"} => kind[f].read
    /\ pc(f) \in {"merge", "write", "wwait"} => kind[f].write
    /\ pc(f) = "partner" => kind[f].read # kind[f].write
    /\ mutex = f <=> pc(f) \in InMutex
    /\ pc(f) \in {"merge", "setsize"} => ~call[f].wake
    /\ f \in asleep => pc(f) \in Waiting

Quiet(f) ==
    \/ PartnerCame(f) \/ (NoPartner(f) /\ f \notin signalled)
    \/ \E n \in Lengths : Read(f, n) \/ Write(f, n)
    \/ ReadAwake(f) \/ WriteAwake(f) \/ WakeOthers(f)
    \/ Poll(f) \/ PollBuffers(f) \/ PollReports(f) \/ PollAgain(f)
    \/ \E arg \in PageCounts : pipe_set_size(f, arg)
    \/ SetSize(f) \/ Signal(f)

LEMMA NullNotFile == ASSUME NEW f \in Files PROVE f # NULL
BY PipeConstants

\* The steps that leave the ring alone.
LEMMA QuietTypes ==
    ASSUME NEW f \in Files, Start(f), UNCHANGED <<inodeVars, ringVars, countVars, kind>>,
           mutex' \in {mutex, NULL, f}, asleep' \in SUBSET Files, user_bufs' \in Int, signalled' \in SUBSET Files,
           waiting_writers' \in Int, call' \in [Files -> CallRecord], Others(f), CallOK(call'[f])
    PROVE  /\ TypeOK' /\ Content(pipe') = stream' /\ pipe'.nrbufs = pipe.nrbufs
           /\ UNCHANGED <<inodeVars, countVars, kind, tmp_page>>
<1>1. TypeOK /\ Content(pipe) = stream
  BY DEF Start
<1>2. RestOK'
  BY <1>1 DEF RestOK, TypeOK, inodeVars, ringVars, countVars
<1>3. TypeOK'
  BY <1>1, <1>2, TypeStep
<1> QED
  BY <1>1, <1>3 DEF ringVars

\* A caller that goes back to user mode without the mutex.
LEMMA ReturnsIdle ==
    ASSUME NEW f \in Files, Start(f), Modes(f), Return(f, "idle"),
           UNCHANGED <<inodeVars, ringVars, countVars, waiting_writers, mutex, user_bufs, kind>>,
           pc(f) \in {"partner", "polled"} \cup WakePcs, asleep' \subseteq asleep, f \notin asleep',
           pc(f) \in WakePcs => asleep' = WakeUp(f)
    PROVE  QuietStep(f) /\ TypeOK'
<1>1. call' \in [Files -> CallRecord] /\ Others(f) /\ call'[f].pc = "idle" /\ signalled' \in SUBSET Files
  BY PcFacts, ReturnStep DEF Start
<1>2. TypeOK' /\ Content(pipe') = stream' /\ pipe'.nrbufs = pipe.nrbufs
      /\ UNCHANGED <<inodeVars, countVars, kind, tmp_page>>
  <2>1. asleep' \in SUBSET Files /\ user_bufs' \in Int /\ waiting_writers' \in Int
    BY DEF Start, TypeOK
  <2> QED
    BY <1>1, <2>1, QuietTypes DEF CallOK
<1>3. mutex # f
  BY DEF Modes, InMutex, WakePcs
<1>4. Pending(f) => asleep' = WakeUp(f)
  BY <1>3 DEF Pending
<1>5. pc(f) \in Registered /\ call'[f].pc \in Registered /\ pc(f) \notin InMutex /\ call'[f].pc \notin InMutex
  BY <1>1, PcFacts DEF InMutex, WakePcs
<1>6. pc(f) # "wwait"
  BY DEF WakePcs
<1> QED
  BY <1>1, <1>2, <1>4, <1>5, <1>6 DEF QuietStep

LEMMA ReturnSteps ==
    ASSUME NEW f \in Files, Start(f), Modes(f),
           \/ PartnerCame(f) \/ WakeOthers(f) \/ PollReports(f)
           \/ (PollAgain(f) /\ f \in signalled)
    PROVE  QuietStep(f) /\ TypeOK'
<1>1. CASE PartnerCame(f)
  BY <1>1, ReturnsIdle DEF PartnerCame, Step, Awake, WakePcs
<1>2. CASE WakeOthers(f)
  <2>1. f \notin asleep
    BY <1>2 DEF WakeOthers, Modes, Waiting
  <2> QED
    BY <1>2, <2>1, ReturnsIdle DEF WakeOthers, WakeUp, WakePcs
<1>3. CASE PollReports(f)
  BY <1>3, ReturnsIdle DEF PollReports, Step, WakePcs
<1>4. CASE PollAgain(f) /\ f \in signalled
  BY <1>4, ReturnsIdle DEF PollAgain, Step, WakePcs
<1> QED
  BY <1>1, <1>2, <1>3, <1>4

\* A caller that takes the mutex.
LEMMA Enters ==
    ASSUME NEW f \in Files, Start(f), Modes(f),
           UNCHANGED <<inodeVars, ringVars, countVars, asleep, kind, signalled>>,
           mutex = NULL, mutex' = f, call' \in [Files -> CallRecord], Others(f), CallOK(call'[f]), user_bufs' \in Int,
           pc(f) \in {"idle", "rwait", "wwait"}, call'[f].pc \in InMutex, f \notin asleep,
           call'[f].pc = "read" => kind[f].read,
           call'[f].pc \in {"merge", "write"} => kind[f].write,
           call'[f].pc \in {"merge", "setsize"} => ~call'[f].wake,
           IF pc(f) = "wwait" THEN waiting_writers' = waiting_writers - 1 /\ call'[f].pc = "write"
                              ELSE waiting_writers' = waiting_writers
    PROVE  QuietStep(f) /\ TypeOK'
<1>1. TypeOK' /\ Content(pipe') = stream' /\ pipe'.nrbufs = pipe.nrbufs
      /\ UNCHANGED <<inodeVars, countVars, kind, tmp_page>>
  <2>1. asleep' \in SUBSET Files /\ waiting_writers' \in Int /\ signalled' \in SUBSET Files
    BY DEF Start, TypeOK
  <2> QED
    BY <2>1, QuietTypes
<1>2. ~Pending(f)
  BY NullNotFile DEF Pending, WakePcs
<1>3. pc(f) \in Registered /\ call'[f].pc \in Registered /\ pc(f) \notin InMutex
  BY PcFacts DEF InMutex
<1>4. call'[f].pc \in {"read", "rwait"} => kind[f].read
  BY DEF InMutex
<1>5. call'[f].pc \notin {"wwait", "partner"}
  BY DEF InMutex
<1> QED
  BY <1>1, <1>2, <1>3, <1>4, <1>5 DEF QuietStep

LEMMA CallSteps ==
    ASSUME NEW f \in Files, Start(f), Modes(f), NEW n \in Lengths, Read(f, n) \/ Write(f, n)
    PROVE  QuietStep(f) /\ TypeOK'
<1>1. PICK at \in {"read", "merge"} : /\ Call(f, n, at)
                                      /\ at = "read" => kind[f].read
                                      /\ at = "merge" => kind[f].write
  BY DEF Read, Write
<1> DEFINE c == [NoCall(at) EXCEPT !.left = n]
<1>2. n \in Nat
  BY PipeConstants
<1>3. c \in CallRecord /\ c.pc = at /\ c.wake = FALSE
  <2>1. NoCall(at) \in CallRecord /\ NoCall(at).pc = at /\ NoCall(at).wake = FALSE
    <3>1. at \in Pcs
      BY DEF Pcs, Registered
    <3> QED
      BY <3>1, NoCallType
  <2> QED
    BY <1>2, <2>1 DEF CallRecord
<1>4. /\ pc(f) = "idle" /\ mutex = NULL /\ mutex' = f /\ call' = [call EXCEPT ![f] = c]
      /\ UNCHANGED <<inodeVars, ringVars, countVars, waiting_writers, asleep, user_bufs, kind, signalled>>
  BY <1>1 DEF Call, Step
<1> HIDE DEF c
<1>5. call' \in [Files -> CallRecord] /\ Others(f) /\ call'[f] = c /\ user_bufs' \in Int
  BY <1>3, <1>4, CallMoves DEF Start, TypeOK
<1>6. f \notin asleep
  BY <1>4 DEF Modes, Waiting
<1>7. c.pc \in InMutex /\ CallOK(c)
  BY <1>3 DEF InMutex, CallOK
<1> QED
  BY <1>1, <1>3, <1>4, <1>5, <1>6, <1>7, Enters

LEMMA AwakeSteps ==
    ASSUME NEW f \in Files, Start(f), Modes(f), ReadAwake(f) \/ WriteAwake(f)
    PROVE  QuietStep(f) /\ TypeOK'
<1>1. PICK to \in {"read", "write"} :
          /\ call' = [call EXCEPT ![f].pc = to, ![f].seen = 0]
          /\ IF to = "read" THEN pc(f) = "rwait" /\ waiting_writers' = waiting_writers
                            ELSE pc(f) = "wwait" /\ waiting_writers' = waiting_writers - 1
  BY DEF ReadAwake, WriteAwake, Resume, Step
<1>2. /\ mutex' = f /\ mutex = NULL /\ f \notin asleep
      /\ UNCHANGED <<inodeVars, ringVars, countVars, asleep, user_bufs, kind, signalled>>
  BY DEF ReadAwake, WriteAwake, Resume, Awake
<1>3. call' \in [Files -> CallRecord] /\ Others(f) /\ call'[f].pc = to /\ user_bufs' \in Int
  <2>1. TypeOK /\ user_bufs' \in Int
    BY <1>2 DEF Start, TypeOK
  <2>2. to \in Pcs /\ 0 \in Int /\ SetsSeen(f, to, 0)
    BY <1>1, PcFacts DEF SetsSeen
  <2> QED
    BY <2>1, <2>2, PcAndSeen
<1>4. (to = "read" => kind[f].read) /\ (to = "write" => kind[f].write)
  BY <1>1 DEF Modes
<1>5. call'[f].pc \in InMutex /\ CallOK(call'[f])
  BY <1>3 DEF InMutex, CallOK
<1> QED
  BY <1>1, <1>2, <1>3, <1>4, <1>5, Enters

LEMMA AskSize ==
    ASSUME NEW f \in Files, Start(f), Modes(f), NEW arg \in PageCounts, pipe_set_size(f, arg)
    PROVE  QuietStep(f) /\ TypeOK'
<1> DEFINE n == roundup_pow_of_two(arg)
           charged == user_bufs - pipe.buffers + n
           c == [NoCall("setsize") EXCEPT !.left = n, !.seen = charged]
<1>1. n \in Nat \ {0} /\ charged \in Int
  <2>1. arg \in Nat \ {0}
    BY PipeConstants
  <2>2. n \in Nat \ {0}
    BY <2>1, RoundupType
  <2>3. user_bufs \in Int /\ pipe.buffers \in Int
    BY StartFacts DEF TypeOK
  <2> HIDE DEF n
  <2> QED
    BY <2>2, <2>3
<1>2. /\ pc(f) = "idle" /\ mutex = NULL /\ mutex' = f /\ user_bufs' = charged
      /\ call' = [call EXCEPT ![f] = c]
      /\ UNCHANGED <<inodeVars, ringVars, countVars, waiting_writers, asleep, kind, signalled>>
  BY DEF pipe_set_size, Step
<1> HIDE DEF n, charged
<1>3. c \in CallRecord /\ c.pc = "setsize" /\ c.wake = FALSE /\ c.left = n
  <2>1. /\ NoCall("setsize") \in CallRecord /\ NoCall("setsize").pc = "setsize" /\ NoCall("setsize").wake = FALSE
    BY PcFacts, NoCallType
  <2> QED
    BY <1>1, <2>1 DEF CallRecord
<1> HIDE DEF c
<1>5. call' \in [Files -> CallRecord] /\ Others(f) /\ call'[f] = c /\ user_bufs' \in Int
  BY <1>1, <1>2, <1>3, CallMoves DEF Start
<1>6. f \notin asleep
  BY <1>2 DEF Modes, Waiting
<1>7. c.pc \in InMutex /\ CallOK(c)
  BY <1>1, <1>3 DEF InMutex, CallOK
<1> QED
  BY <1>2, <1>3, <1>5, <1>6, <1>7, Enters

LEMMA ResizeSteps ==
    ASSUME NEW f \in Files, Start(f), Modes(f), SetSize(f)
    PROVE  QuietStep(f) /\ TypeOK'
<1> DEFINE n == call[f].left
<1>1. /\ pc(f) = "setsize" /\ mutex' = NULL /\ Return(f, "idle")
      /\ UNCHANGED <<inodeVars, tmp_page, stream, countVars, waiting_writers, asleep, kind>>
      /\ \/ n >= pipe.nrbufs /\ pipe' = Resize(pipe, n) /\ user_bufs' = user_bufs
         \/ user_bufs' = user_bufs - n + pipe.buffers /\ pipe' = pipe
  BY DEF SetSize, Step
<1>2. n \in Nat \ {0} /\ user_bufs \in Int /\ pipe.buffers \in Int /\ pipe.nrbufs \in Nat
  BY <1>1, StartFacts DEF TypeOK
<1>3. call' \in [Files -> CallRecord] /\ Others(f) /\ call'[f].pc = "idle" /\ signalled' \in SUBSET Files
  BY <1>1, PcFacts, ReturnStep DEF Start
<1> HIDE DEF n
<1>4. user_bufs' \in Int
  BY <1>1, <1>2
<1>5. Ring(pipe') /\ Content(pipe') = stream' /\ pipe'.nrbufs = pipe.nrbufs
  <2>1. Ring(pipe) /\ Content(pipe) = stream
    BY StartFacts DEF Start
  <2>2. CASE n >= pipe.nrbufs /\ pipe' = Resize(pipe, n)
    BY <1>1, <1>2, <2>1, <2>2, ResizeOK
  <2>3. CASE pipe' = pipe
    BY <1>1, <2>1, <2>3
  <2> QED
    BY <1>1, <2>2, <2>3
<1>6. TypeOK'
  <2>1. TypeOK
    BY DEF Start
  <2>2. RestOK'
    BY <1>1, <1>3, <1>4, <1>5, <2>1 DEF RestOK, TypeOK, inodeVars, countVars
  <2> QED
    BY <1>3, <2>1, <2>2, TypeStep DEF CallOK
<1>7. ~call[f].wake /\ f \notin asleep
  BY <1>1 DEF Modes, Waiting
<1>8. ~Pending(f)
  BY <1>1, <1>7 DEF Pending, WakePcs
<1>9. pc(f) \in Registered /\ call'[f].pc \in Registered /\ call'[f].pc \notin InMutex
  BY <1>1, <1>3, PcFacts DEF InMutex
<1> QED
  BY <1>1, <1>3, <1>5, <1>6, <1>7, <1>8, <1>9 DEF QuietStep

\* The steps to sleep, of poll and of a caller that found no partner.
LEMMA NapSteps ==
    ASSUME NEW f \in Files, Start(f), Modes(f),
           \/ Poll(f) \/ PollBuffers(f)
           \/ (PollAgain(f) /\ f \notin signalled)
           \/ (NoPartner(f) /\ f \notin signalled)
    PROVE  QuietStep(f) /\ TypeOK'
<1>0. TypeOK /\ user_bufs \in Int /\ waiting_writers \in Int /\ signalled \in SUBSET Files /\ asleep \in SUBSET Files
      /\ call \in [Files -> CallRecord] /\ CallOK(call[f]) /\ pipe.nrbufs \in Int
  BY StartFacts, TypeParts DEF Start, RestOK
<1>1. CASE Poll(f) \/ (PollAgain(f) /\ f \notin signalled)
  <2>1. /\ pc(f) \in {"idle", "polled"} /\ asleep' = asleep \cup {f} /\ Goto(f, "poll")
        /\ UNCHANGED <<inodeVars, ringVars, countVars, waiting_writers, mutex, user_bufs, kind, signalled>>
    BY <1>1 DEF Poll, PollAgain, Step
  <2>2. call' \in [Files -> CallRecord] /\ Others(f) /\ call'[f].pc = "poll"
    BY <1>0, <2>1, PcFacts, GotoStep
  <2>3. TypeOK' /\ Content(pipe') = stream' /\ pipe'.nrbufs = pipe.nrbufs
        /\ UNCHANGED <<inodeVars, countVars, kind, tmp_page>>
    BY <1>0, <2>1, <2>2, QuietTypes DEF CallOK
  <2>4. ~Pending(f)
    BY <2>1 DEF Pending, Modes, InMutex, WakePcs
  <2>5. pc(f) \in Registered /\ call'[f].pc \in Registered /\ pc(f) \notin InMutex /\ call'[f].pc \notin InMutex
    BY <2>1, <2>2, PcFacts DEF InMutex
  <2> QED
    BY <2>1, <2>2, <2>3, <2>4, <2>5 DEF QuietStep
<1>2. CASE PollBuffers(f)
  <2> DEFINE n == pipe.nrbufs
  <2>1. /\ pc(f) = "poll" /\ call' = [call EXCEPT ![f].pc = "polled", ![f].seen = n]
        /\ UNCHANGED <<inodeVars, ringVars, countVars, waiting_writers, mutex, asleep, user_bufs, kind, signalled>>
    BY <1>2 DEF PollBuffers, Step
  <2>2. call' \in [Files -> CallRecord] /\ Others(f) /\ call'[f].pc = "polled" /\ call'[f].seen = n
    <3>1. "polled" \in Pcs /\ n \in Int /\ SetsSeen(f, "polled", n)
      BY <1>0, <2>1, PcFacts DEF SetsSeen
    <3> QED
      BY <1>0, <3>1, PcAndSeen
  <2>3. TypeOK' /\ Content(pipe') = stream' /\ pipe'.nrbufs = pipe.nrbufs
        /\ UNCHANGED <<inodeVars, countVars, kind, tmp_page>>
    BY <1>0, <2>1, <2>2, QuietTypes DEF CallOK
  <2>4. ~Pending(f)
    BY <2>1 DEF Pending, Modes, InMutex, WakePcs
  <2>5. pc(f) \in Registered /\ call'[f].pc \in Registered /\ pc(f) \notin InMutex /\ call'[f].pc \notin InMutex
    BY <2>1, <2>2, PcFacts DEF InMutex
  <2> QED
    BY <2>1, <2>2, <2>3, <2>4, <2>5 DEF QuietStep
<1>3. CASE NoPartner(f) /\ f \notin signalled
  <2>1. /\ pc(f) = "partner" /\ mutex = NULL /\ mutex' = NULL /\ f \in current
        /\ asleep' = asleep \cup {f} /\ call' = call
        /\ UNCHANGED <<inodeVars, ringVars, countVars, waiting_writers, user_bufs, kind, signalled>>
    BY <1>3 DEF NoPartner, Step, Awake, pipe_wait, countVars
  <2>2. call' \in [Files -> CallRecord] /\ Others(f) /\ call'[f] = call[f] /\ call'[f].pc = "partner"
    BY <1>0, <2>1 DEF Others, pc
  <2>3. TypeOK' /\ Content(pipe') = stream' /\ pipe'.nrbufs = pipe.nrbufs
        /\ UNCHANGED <<inodeVars, countVars, kind, tmp_page>>
    BY <1>0, <2>1, <2>2, QuietTypes
  <2>4. ~Pending(f)
    BY <2>1, NullNotFile DEF Pending, WakePcs
  <2>5. pc(f) \in Registered /\ call'[f].pc \in Registered /\ pc(f) \notin InMutex /\ call'[f].pc \notin InMutex
    BY <2>1, <2>2, PcFacts DEF InMutex
  <2> QED
    BY <2>1, <2>2, <2>3, <2>4, <2>5 DEF QuietStep
<1> QED
  BY <1>1, <1>2, <1>3

LEMMA SignalSteps ==
    ASSUME NEW f \in Files, Start(f), Modes(f), Signal(f)
    PROVE  QuietStep(f) /\ TypeOK'
<1>1. /\ pc(f) \in {"read", "rwait", "write", "wwait", "partner", "polled"}
      /\ signalled' = signalled \cup {f} /\ asleep' = asleep \ {f} /\ call' = call /\ mutex' = mutex
      /\ UNCHANGED <<inodeVars, ringVars, countVars, waiting_writers, user_bufs, kind>>
  BY DEF Signal
<1>2. /\ call' \in [Files -> CallRecord] /\ Others(f) /\ call'[f] = call[f] /\ CallOK(call[f]) /\ signalled' \in SUBSET Files
      /\ asleep' \in SUBSET Files /\ user_bufs' \in Int /\ waiting_writers' \in Int
  BY <1>1, TypeParts DEF Start, Others, RestOK
<1>3. TypeOK' /\ Content(pipe') = stream' /\ pipe'.nrbufs = pipe.nrbufs
      /\ UNCHANGED <<inodeVars, countVars, kind, tmp_page>>
  BY <1>1, <1>2, QuietTypes
<1>4. pc(f) \in Registered /\ call'[f].pc = pc(f)
  BY <1>1, <1>2, PcFacts DEF pc
<1>5. /\ pc(f) \in {"read", "rwait"} => kind[f].read
      /\ pc(f) \in {"merge", "write", "wwait"} => kind[f].write
      /\ pc(f) \notin {"merge", "setsize"}
  BY <1>1 DEF Modes
<1> QED
  BY <1>1, <1>2, <1>3, <1>4, <1>5 DEF QuietStep

LEMMA QuietSteps ==
    ASSUME NEW f \in Files, Start(f), Modes(f), Quiet(f)
    PROVE  QuietStep(f) /\ TypeOK'
<1>1. CASE PartnerCame(f) \/ WakeOthers(f) \/ PollReports(f) \/ (PollAgain(f) /\ f \in signalled)
  BY <1>1, ReturnSteps
<1>2. CASE \E n \in Lengths : Read(f, n) \/ Write(f, n)
  BY <1>2, CallSteps
<1>3. CASE ReadAwake(f) \/ WriteAwake(f)
  BY <1>3, AwakeSteps
<1>4. CASE \E arg \in PageCounts : pipe_set_size(f, arg)
  BY <1>4, AskSize
<1>5. CASE SetSize(f)
  BY <1>5, ResizeSteps
<1>6. CASE Signal(f)
  BY <1>6, SignalSteps
<1>7. CASE \/ Poll(f) \/ PollBuffers(f)
           \/ (PollAgain(f) /\ f \notin signalled)
           \/ (NoPartner(f) /\ f \notin signalled)
  BY <1>7, NapSteps
<1> QED
  BY <1>1, <1>2, <1>3, <1>4, <1>5, <1>6, <1>7 DEF Quiet

-----------------------------------------------------------------------------
(* The counts *)

Rd == {f \in Files : pc(f) \in Registered /\ kind[f].read}
Wr == {f \in Files : pc(f) \in Registered /\ kind[f].write}
Ww == {f \in Files : pc(f) = "wwait"}
Hd == {f \in Files : pc(f) \in Holding}

Counts ==
    /\ readers = Cardinality(Rd) /\ writers = Cardinality(Wr)
    /\ waiting_writers = Cardinality(Ww) /\ files = Cardinality(Hd)
    /\ i_pipe = (files > 0)

LEMMA CountsSuffice == Counts => CountsExact
<1>1. {f \in {g \in Files : pc(g) \in Registered} : kind[f].read} = Rd
  BY DEF Rd
<1>2. {f \in {g \in Files : pc(g) \in Registered} : kind[f].write} = Wr
  BY DEF Wr
<1>3. {g \in Files : pc(g) \in {"wwait"}} = Ww
  BY DEF Ww
<1>4. {g \in Files : pc(g) \in Registered \cup {"register", "discard", "put"}} = Hd
  BY DEF Hd, Holding
<1> QED
  BY <1>1, <1>2, <1>3, <1>4 DEF Counts, CountsExact

\* One file is counted that was not, or no longer.
LEMMA Recount ==
    ASSUME NEW S \in SUBSET Files, NEW T \in SUBSET Files, NEW f \in Files,
           \A g \in Files \ {f} : g \in S <=> g \in T
    PROVE  /\ Cardinality(S) \in Nat /\ Cardinality(T) \in Nat
           /\ (f \in S <=> f \in T) => Cardinality(T) = Cardinality(S)
           /\ f \notin S /\ f \in T => Cardinality(T) = Cardinality(S) + 1
           /\ f \in S /\ f \notin T => Cardinality(T) = Cardinality(S) - 1
           /\ f \in S => Cardinality(S) > 0
           /\ Cardinality(S) = 0 => S = {}
<1>1. IsFiniteSet(S) /\ IsFiniteSet(T)
  BY PipeConstants, FS_Subset
<1>2. Cardinality(S) \in Nat /\ Cardinality(T) \in Nat
  BY <1>1, FS_CardinalityType
<1>3. (f \in S <=> f \in T) => S = T
  OBVIOUS
<1>4. ASSUME f \notin S, f \in T PROVE Cardinality(T) = Cardinality(S) + 1
  <2>1. T = S \cup {f}
    BY <1>4
  <2> QED
    BY <1>1, <1>4, <2>1, FS_AddElement
<1>5. ASSUME f \in S, f \notin T PROVE Cardinality(T) = Cardinality(S) - 1
  <2>1. T = S \ {f}
    BY <1>5
  <2> QED
    BY <1>1, <1>5, <2>1, FS_RemoveElement
<1>6. Cardinality(S) = 0 => S = {}
  BY <1>1, FS_EmptySet
<1>7. f \in S => Cardinality(S) > 0
  BY <1>2, <1>6
<1> QED
  BY <1>2, <1>3, <1>4, <1>5, <1>6, <1>7

\* The counts are numbers, and whoever is counted makes them positive.
LEMMA CountTypes ==
    ASSUME Counts
    PROVE  /\ readers \in Nat /\ writers \in Nat /\ waiting_writers \in Nat /\ files \in Nat
           /\ \A f \in Files : /\ f \in Rd => readers > 0
                               /\ f \in Wr => writers > 0
                               /\ f \in Ww => waiting_writers > 0
                               /\ f \in Hd => files > 0
<1>1. Rd \in SUBSET Files /\ Wr \in SUBSET Files /\ Ww \in SUBSET Files /\ Hd \in SUBSET Files
  BY DEF Rd, Wr, Ww, Hd
<1>2. IsFiniteSet(Rd) /\ IsFiniteSet(Wr) /\ IsFiniteSet(Ww) /\ IsFiniteSet(Hd)
  BY <1>1, PipeConstants, FS_Subset
<1>3. readers \in Nat /\ writers \in Nat /\ waiting_writers \in Nat /\ files \in Nat
  BY <1>2, FS_CardinalityType DEF Counts
<1>4. ASSUME NEW f \in Files
      PROVE  /\ f \in Rd => readers > 0
             /\ f \in Wr => writers > 0
             /\ f \in Ww => waiting_writers > 0
             /\ f \in Hd => files > 0
  BY <1>1, Recount DEF Counts
<1> QED
  BY <1>3, <1>4

\* Whom a step counts, by what it does to f.
LEMMA Counted ==
    ASSUME NEW f \in Files, Others(f), \A g \in Files \ {f} : kind'[g] = kind[g]
    PROVE  /\ Rd \in SUBSET Files /\ Rd' \in SUBSET Files /\ Wr \in SUBSET Files /\ Wr' \in SUBSET Files
           /\ Ww \in SUBSET Files /\ Ww' \in SUBSET Files /\ Hd \in SUBSET Files /\ Hd' \in SUBSET Files
           /\ \A g \in Files \ {f} : /\ g \in Rd <=> g \in Rd'
                                     /\ g \in Wr <=> g \in Wr'
                                     /\ g \in Ww <=> g \in Ww'
                                     /\ g \in Hd <=> g \in Hd'
           /\ f \in Rd <=> pc(f) \in Registered /\ kind[f].read
           /\ f \in Rd' <=> call'[f].pc \in Registered /\ kind'[f].read
           /\ f \in Wr <=> pc(f) \in Registered /\ kind[f].write
           /\ f \in Wr' <=> call'[f].pc \in Registered /\ kind'[f].write
           /\ f \in Ww <=> pc(f) = "wwait"
           /\ f \in Ww' <=> call'[f].pc = "wwait"
           /\ f \in Hd <=> pc(f) \in Holding
           /\ f \in Hd' <=> call'[f].pc \in Holding
BY DEF Rd, Wr, Ww, Hd, Others, pc

\* A count follows what a step does to f.
Follows(before, after, n, m) ==
    /\ (before <=> after) => m = n
    /\ ~before /\ after => m = n + 1
    /\ before /\ ~after => m = n - 1

LEMMA CountsStep ==
    ASSUME Counts, NEW f \in Files, Others(f), \A g \in Files \ {f} : kind'[g] = kind[g],
           Follows(pc(f) \in Registered /\ kind[f].read, call'[f].pc \in Registered /\ kind'[f].read, readers, readers'),
           Follows(pc(f) \in Registered /\ kind[f].write, call'[f].pc \in Registered /\ kind'[f].write, writers, writers'),
           Follows(pc(f) = "wwait", call'[f].pc = "wwait", waiting_writers, waiting_writers'),
           Follows(pc(f) \in Holding, call'[f].pc \in Holding, files, files'),
           i_pipe' = (files' > 0)
    PROVE  Counts'
<1>1. readers' = Cardinality(Rd')
  BY Counted, Recount DEF Counts, Follows
<1>2. writers' = Cardinality(Wr')
  BY Counted, Recount DEF Counts, Follows
<1>3. waiting_writers' = Cardinality(Ww')
  BY Counted, Recount DEF Counts, Follows
<1>4. files' = Cardinality(Hd')
  BY Counted, Recount DEF Counts, Follows
<1> QED
  BY <1>1, <1>2, <1>3, <1>4 DEF Counts

LEMMA CountsOutside ==
    ASSUME TypeOK, Counts, NEW f \in Files, OutsideStep(f)
    PROVE  Counts'
<1>1. pc(f) # "wwait" /\ call'[f].pc # "wwait"
  BY PcFacts DEF OutsideStep
<1>2. f \in Hd <=> pc(f) \in Holding
  BY DEF Hd
<1>3. i_pipe' = (files' > 0)
  <2>1. i_pipe = (files > 0) /\ i_pipe' = i_pipe /\ files \in Nat /\ (pc(f) \in Holding => files > 0)
    BY <1>2, CountTypes DEF Counts, OutsideStep, inodeVars
  <2>2. CASE pc(f) \in Holding <=> call'[f].pc \in Holding
    BY <2>1, <2>2 DEF OutsideStep
  <2>3. CASE pc(f) \notin Holding /\ call'[f].pc \in Holding
    <3>1. files' = files + 1 /\ i_pipe
      BY <2>3 DEF OutsideStep
    <3>2. files' > 0
      BY <2>1, <3>1
    <3> QED
      BY <2>1, <3>1, <3>2
  <2>4. CASE pc(f) \in Holding /\ call'[f].pc \notin Holding
    <3>1. files' = files - 1 /\ files # 1
      BY <2>4 DEF OutsideStep
    <3>2. files' > 0 /\ files > 0
      BY <2>1, <2>4, <3>1
    <3> QED
      BY <2>1, <3>2
  <2> QED
    BY <2>2, <2>3, <2>4
<1> QED
  BY <1>1, <1>3, CountsStep DEF OutsideStep, Follows

LEMMA CountsFresh ==
    ASSUME TypeOK, Counts, NEW f \in Files, FreshStep(f), TypeOK'
    PROVE  Counts'
<1>1. /\ pc(f) \notin Registered /\ call'[f].pc \notin Registered /\ pc(f) # "wwait" /\ call'[f].pc # "wwait"
      /\ pc(f) = "install" => pc(f) \notin Holding
      /\ call'[f].pc = "register" => call'[f].pc \in Holding
      /\ pc(f) = "put" => pc(f) \in Holding
      /\ call'[f].pc = "free" => call'[f].pc \notin Holding
  BY PcFacts DEF FreshStep
<1>2. files \in Nat /\ i_pipe = (files > 0)
  BY CountTypes DEF Counts
<1>3. Follows(pc(f) \in Holding, call'[f].pc \in Holding, files, files')
  <2>1. CASE pc(f) = "install" /\ call'[f].pc = "register" /\ ~i_pipe /\ i_pipe' /\ files' = 1
    <3>1. files = 0
      <4>1. ~(files > 0)
        BY <1>2, <2>1, Zenon
      <4>2. files \in Nat
        BY CountTypes
      <4> QED
        BY <4>1, <4>2
    <3> QED
      BY <1>1, <2>1, <3>1 DEF Follows
  <2>2. CASE pc(f) = "put" /\ call'[f].pc = "free" /\ ~i_pipe' /\ files = 1 /\ files' = 0
    BY <1>1, <2>2 DEF Follows
  <2> QED
    BY <2>1, <2>2 DEF FreshStep
<1>4. i_pipe' = (files' > 0)
  <2>1. i_pipe' \in BOOLEAN
    BY DEF TypeOK
  <2>2. CASE i_pipe' /\ files' = 1
    <3>1. files' > 0
      BY <2>2
    <3> QED
      BY <2>1, <2>2, <3>1
  <2>3. CASE ~i_pipe' /\ files' = 0
    <3>1. ~(files' > 0)
      BY <2>3
    <3> QED
      BY <2>1, <2>3, <3>1
  <2> QED
    BY <2>2, <2>3 DEF FreshStep
<1>5. kind' = kind /\ readers' = readers /\ writers' = writers /\ waiting_writers' = waiting_writers /\ Others(f)
  BY DEF FreshStep
<1> QED
  BY <1>1, <1>3, <1>4, <1>5, CountsStep DEF Follows

LEMMA CountsJoin ==
    ASSUME TypeOK, Counts, NEW f \in Files, JoinStep(f)
    PROVE  Counts'
<1>1. /\ pc(f) \notin Registered /\ call'[f].pc \in Registered /\ pc(f) # "wwait" /\ call'[f].pc # "wwait"
      /\ pc(f) \in Holding /\ call'[f].pc \in Holding
  BY PcFacts DEF JoinStep
<1>2. i_pipe' = (files' > 0)
  BY DEF JoinStep, Counts, inodeVars
<1> QED
  BY <1>1, <1>2, CountsStep DEF JoinStep, Follows

LEMMA CountsLeave ==
    ASSUME TypeOK, Counts, NEW f \in Files, LeaveStep(f)
    PROVE  Counts'
<1>1. /\ pc(f) \in Registered /\ call'[f].pc \notin Registered /\ pc(f) # "wwait" /\ call'[f].pc # "wwait"
      /\ pc(f) \in Holding /\ call'[f].pc \in Holding
  BY PcFacts DEF LeaveStep
<1>2. i_pipe' = (files' > 0)
  BY DEF LeaveStep, Counts, inodeVars
<1> QED
  BY <1>1, <1>2, CountsStep DEF LeaveStep, Follows

LEMMA CountsQuiet ==
    ASSUME TypeOK, Counts, NEW f \in Files, QuietStep(f)
    PROVE  Counts'
<1>1. /\ pc(f) \in Registered /\ call'[f].pc \in Registered /\ pc(f) \in Holding /\ call'[f].pc \in Holding
      /\ kind' = kind /\ readers' = readers /\ writers' = writers /\ files' = files /\ i_pipe' = i_pipe /\ Others(f)
  BY PcFacts DEF QuietStep, countVars, inodeVars
<1>2. Follows(pc(f) = "wwait", call'[f].pc = "wwait", waiting_writers, waiting_writers')
  BY DEF QuietStep, Follows
<1>3. i_pipe' = (files' > 0)
  BY <1>1 DEF Counts
<1> QED
  BY <1>1, <1>2, <1>3, CountsStep DEF Follows

LEMMA CountsReadWrite ==
    ASSUME TypeOK, Counts, NEW f \in Files, RWStep(f)
    PROVE  Counts'
<1>1. /\ pc(f) \in Registered /\ pc(f) \in Holding /\ pc(f) # "wwait"
      /\ kind' = kind /\ readers' = readers /\ writers' = writers /\ files' = files /\ i_pipe' = i_pipe /\ Others(f)
  BY PcFacts DEF RWStep, Common, countVars, inodeVars
<1>2. /\ call'[f].pc \in {"read", "write", "wakein", "wakeout", "idle", "rwait", "wwait"}
      /\ IF call'[f].pc = "wwait" THEN waiting_writers' = waiting_writers + 1 ELSE waiting_writers' = waiting_writers
  BY DEF RWStep, Stays, Ends, SleepsEmpty, SleepsFull, WakeAt
<1>3. call'[f].pc \in Registered /\ call'[f].pc \in Holding
  BY <1>2, PcFacts
<1>4. i_pipe' = (files' > 0)
  BY <1>1 DEF Counts
<1> QED
  BY <1>1, <1>2, <1>3, <1>4, CountsStep DEF Follows

\* Whoever makes a pipe that is not a FIFO is alone, with the end to write to.
Makers ==
    is_pipe => \A f \in Files : pc(f) \in Making =>
        /\ \A g \in Files \ {f} : pc(g) \in {"closed", "free"}
        /\ kind[f].write /\ ~kind[f].read

LEMMA CountsCreate ==
    ASSUME TypeOK, Counts, Makers, NEW f \in Files, NEW g \in Files, CreateStep(f, g), TypeOK'
    PROVE  Counts'
<1>1. /\ \A h \in Files \ {f} : pc(h) \in {"closed", "free"}
      /\ kind[f].write /\ ~kind[f].read /\ pc(f) = "install" /\ f # g
  BY DEF Makers, Making, CreateStep
<1>2. \A h \in Files : /\ pc(h) \notin Registered /\ pc(h) \notin Holding /\ pc(h) # "wwait"
  BY <1>1, PcFacts
<1>3. \A h \in Files \ {f, g} : /\ call'[h].pc \notin Registered /\ call'[h].pc \notin Holding
  BY <1>2 DEF CreateStep, pc
<1>4. \A h \in {f, g} : call'[h].pc \in Registered /\ call'[h].pc \in Holding /\ call'[h].pc # "wwait"
  BY PcFacts DEF CreateStep
<1>5. kind'[g].read /\ ~kind'[g].write /\ ~kind'[f].read /\ kind'[f].write
  BY <1>1 DEF CreateStep
<1>6. Rd' = {g} /\ Wr' = {f} /\ Ww' = {} /\ Ww = {} /\ Hd' = {f, g}
  <2>1. Rd' = {g}
    BY <1>3, <1>4, <1>5 DEF Rd, pc
  <2>2. Wr' = {f}
    BY <1>3, <1>4, <1>5 DEF Wr, pc
  <2>3. Ww' = {}
    <3>1. "wwait" \in Registered
      BY PcFacts
    <3> QED
      BY <1>3, <1>4, <3>1 DEF Ww, pc
  <2>4. Ww = {}
    BY <1>2 DEF Ww
  <2>5. Hd' = {f, g}
    BY <1>3, <1>4 DEF Hd, pc
  <2> QED
    BY <2>1, <2>2, <2>3, <2>4, <2>5
<1>7. Cardinality({g}) = 1 /\ Cardinality({f}) = 1 /\ Cardinality({f, g}) = 2
  <2>1. Cardinality({g}) = 1 /\ Cardinality({f}) = 1
    BY FS_Singleton
  <2>2. {f, g} = {f} \cup {g} /\ g \notin {f} /\ IsFiniteSet({f})
    BY <1>1, FS_Singleton
  <2>3. Cardinality({f} \cup {g}) = Cardinality({f}) + 1
    BY <2>2, FS_AddElement
  <2> QED
    BY <2>1, <2>2, <2>3
<1>8. i_pipe' = (files' > 0)
  <2>1. i_pipe' \in BOOLEAN /\ i_pipe'
    BY DEF TypeOK, CreateStep
  <2>2. files' > 0
    BY DEF CreateStep
  <2> QED
    BY <2>1, <2>2
<1>9. waiting_writers' = Cardinality(Ww')
  BY <1>6 DEF Counts, CreateStep
<1> QED
  BY <1>6, <1>7, <1>8, <1>9 DEF Counts, CreateStep

\* Makers stay alone: nobody opens a pipe that nobody has.
LEMMA MakersKept ==
    ASSUME TypeOK, Counts, Makers, NEW f \in Files, Others(f), is_pipe' = is_pipe,
           \A g \in Files \ {f} : kind'[g] = kind[g],
           pc(f) \in {"closed", "free"} => \/ call'[f].pc \in {"closed", "free"}
                                           \/ i_pipe
                                           \/ ~i_pipe /\ (is_pipe => \E g \in Files : pc(g) = "idle")
                                           \/ \A g \in Files : pc(g) \in {"closed", "free"},
           call'[f].pc \in Making => \/ pc(f) \in Making /\ kind'[f] = kind[f]
                                     \/ ~i_pipe /\ (is_pipe => \E g \in Files : pc(g) = "idle")
                                     \/ /\ \A g \in Files : pc(g) \in {"closed", "free"}
                                        /\ kind'[f].write /\ ~kind'[f].read
    PROVE  Makers'
<1> SUFFICES ASSUME is_pipe, NEW h \in Files, call'[h].pc \in Making
             PROVE  /\ \A g \in Files \ {h} : call'[g].pc \in {"closed", "free"}
                    /\ kind'[h].write /\ ~kind'[h].read
  BY DEF Makers, pc
<1>1. ~(~i_pipe /\ \E g \in Files : pc(g) = "idle")
  <2> SUFFICES ASSUME NEW g \in Files, pc(g) = "idle" PROVE i_pipe
    OBVIOUS
  <2>1. g \in Hd
    BY PcFacts DEF Hd
  <2>2. files > 0
    BY <2>1, CountTypes
  <2>3. i_pipe = (files > 0)
    BY DEF Counts
  <2> QED
    BY <2>2, <2>3
<1>2. CASE h # f
  <2>1. call'[h] = call[h] /\ kind'[h] = kind[h] /\ pc(h) \in Making
    BY <1>2 DEF Others, pc
  <2>2. /\ \A g \in Files \ {h} : pc(g) \in {"closed", "free"}
        /\ kind[h].write /\ ~kind[h].read
    BY <2>1 DEF Makers
  <2>3. ~i_pipe
    <3>1. \A g \in Files : pc(g) \notin Holding
      BY <2>1, <2>2, PcFacts DEF Making
    <3>2. Hd = {}
      BY <3>1 DEF Hd
    <3>3. files = 0
      BY <3>2, FS_EmptySet DEF Counts
    <3>4. i_pipe = (files > 0)
      BY DEF Counts
    <3>5. ~(files > 0)
      BY <3>3
    <3> QED
      BY <3>4, <3>5
  <2>4. call'[f].pc \in {"closed", "free"}
    <3>1. ~(\A g \in Files : pc(g) \in {"closed", "free"})
      BY <2>1 DEF Making
    <3>2. pc(f) \in {"closed", "free"}
      BY <1>2, <2>2
    <3> QED
      BY <1>1, <2>3, <3>1, <3>2
  <2> QED
    BY <1>2, <2>1, <2>2, <2>4 DEF Others, pc
<1>3. CASE h = f
  <2>1. CASE pc(f) \in Making /\ kind'[f] = kind[f]
    BY <1>3, <2>1 DEF Makers, Others, pc
  <2>2. CASE /\ \A g \in Files : pc(g) \in {"closed", "free"}
             /\ kind'[f].write /\ ~kind'[f].read
    BY <1>3, <2>2 DEF Others, pc
  <2> QED
    BY <1>1, <1>3, <2>1, <2>2
<1> QED
  BY <1>2, <1>3

-----------------------------------------------------------------------------
(* Who may be where *)

AllModes == \A f \in Files : Modes(f)

LEMMA ModePcs ==
    /\ \A p \in InMutex : p \in Registered /\ p \notin Waiting
    /\ \A p \in Waiting : p \in Registered /\ p \notin InMutex
    /\ \A p \in {"idle", "wakein", "wakeout", "close"} : p \notin InMutex /\ p \notin Waiting
BY PcFacts DEF InMutex, Waiting

LEMMA ModesStep ==
    ASSUME AllModes, NEW f \in Files, Others(f), \A g \in Files \ {f} : kind'[g] = kind[g],
           mutex' = mutex \/ (mutex \in {NULL, f} /\ mutex' \in {NULL, f}),
           asleep' \subseteq asleep \cup {f}, Modes(f)'
    PROVE  AllModes'
<1> SUFFICES ASSUME NEW h \in Files, h # f PROVE Modes(h)'
  BY DEF AllModes
<1>1. Modes(h)
  BY DEF AllModes
<1>2. call'[h] = call[h] /\ kind'[h] = kind[h]
  BY DEF Others
<1>3. mutex' = h <=> mutex = h
  BY NullNotFile
<1>4. h \in asleep' => h \in asleep
  OBVIOUS
<1> QED
  BY <1>1, <1>2, <1>3, <1>4 DEF Modes, pc

\* A file that is not registered has no mode.
LEMMA NoMode ==
    ASSUME NEW f \in Files, call'[f].pc \notin Registered \/ call'[f].pc \in {"idle", "wakein", "wakeout", "close"},
           mutex' # f, f \notin asleep'
    PROVE  Modes(f)'
<1>1. call'[f].pc \notin InMutex /\ call'[f].pc \notin Waiting
  BY ModePcs
<1>2. call'[f].pc \notin {"read", "rwait", "merge", "write", "wwait", "partner", "setsize"}
  BY <1>1 DEF InMutex, Waiting
<1> QED
  BY <1>1, <1>2 DEF Modes, pc

LEMMA ModesOutside ==
    ASSUME TypeOK, AllModes, NEW f \in Files, OutsideStep(f) \/ FreshStep(f)
    PROVE  AllModes'
<1>1. /\ Others(f) /\ (\A g \in Files \ {f} : kind'[g] = kind[g]) /\ mutex' = mutex /\ asleep' = asleep
      /\ pc(f) \notin Registered /\ call'[f].pc \notin Registered
  BY PcFacts DEF OutsideStep, FreshStep
<1>2. mutex # f /\ f \notin asleep
  BY <1>1, ModePcs DEF AllModes, Modes
<1> QED
  BY <1>1, <1>2, NoMode, ModesStep

LEMMA ModesJoin ==
    ASSUME TypeOK, AllModes, NEW f \in Files, JoinStep(f)
    PROVE  AllModes'
<1>1. /\ Others(f) /\ kind' = kind /\ mutex' = mutex /\ mutex = NULL /\ asleep' \subseteq asleep \cup {f}
      /\ pc(f) = "register" /\ call'[f].pc \in {"idle", "partner"}
  BY DEF JoinStep
<1>2. f \notin asleep /\ mutex' # f
  <2>1. "register" \notin Waiting
    BY DEF Waiting
  <2> QED
    BY <1>1, <2>1, NullNotFile DEF AllModes, Modes
<1>3. Modes(f)'
  <2>1. CASE call'[f].pc = "idle"
    <3>1. f \notin asleep'
      BY <1>2, <2>1 DEF JoinStep
    <3> QED
      BY <1>2, <2>1, <3>1, NoMode
  <2>2. CASE call'[f].pc = "partner"
    <3>1. kind'[f].read # kind'[f].write
      <4>1. kind[f].read \in BOOLEAN /\ kind[f].write \in BOOLEAN
        BY DEF TypeOK, KindRecord
      <4>2. (kind[f].read \/ kind[f].write) /\ ~(kind[f].read /\ kind[f].write)
        BY <2>2 DEF JoinStep
      <4> QED
        BY <1>1, <4>1, <4>2
    <3>2. "partner" \in Waiting /\ "partner" \notin InMutex
      BY DEF Waiting, InMutex
    <3> QED
      BY <1>2, <2>2, <3>1, <3>2 DEF Modes, pc
  <2> QED
    BY <1>1, <2>1, <2>2
<1> QED
  BY <1>1, <1>3, ModesStep

LEMMA ModesLeave ==
    ASSUME TypeOK, AllModes, NEW f \in Files, LeaveStep(f)
    PROVE  AllModes'
<1>1. /\ Others(f) /\ (\A g \in Files \ {f} : kind'[g] = kind[g]) /\ mutex' = mutex /\ mutex = NULL /\ asleep' \subseteq asleep
      /\ pc(f) \in {"partner", "idle", "close"} /\ call'[f].pc = "put"
  BY DEF LeaveStep
<1>2. f \notin asleep'
  BY <1>1, ModePcs DEF LeaveStep, AllModes, Modes
<1>3. call'[f].pc \notin Registered /\ mutex' # f
  BY <1>1, PcFacts, NullNotFile
<1> QED
  BY <1>1, <1>2, <1>3, NoMode, ModesStep

LEMMA ModesQuiet ==
    ASSUME TypeOK, AllModes, NEW f \in Files, QuietStep(f)
    PROVE  AllModes'
<1>1. Others(f) /\ kind' = kind /\ asleep' \subseteq asleep \cup {f} /\ Modes(f)
  BY DEF QuietStep, AllModes
<1>2. /\ mutex' = mutex \/ (mutex \in {NULL, f} /\ mutex' \in {NULL, f})
      /\ mutex' = f <=> call'[f].pc \in InMutex
  <2>1. CASE UNCHANGED <<mutex, call>>
    BY <1>1, <2>1 DEF Modes, pc
  <2>2. CASE mutex' = mutex /\ pc(f) \notin InMutex /\ call'[f].pc \notin InMutex
    BY <1>1, <2>2 DEF Modes
  <2>3. CASE mutex = NULL /\ mutex' = f /\ pc(f) \notin InMutex /\ call'[f].pc \in InMutex
    BY <2>3
  <2>4. CASE pc(f) = "setsize" /\ mutex' = NULL /\ call'[f].pc \notin InMutex
    BY <1>1, <2>4, NullNotFile DEF Modes, InMutex
  <2> QED
    BY <2>1, <2>2, <2>3, <2>4 DEF QuietStep
<1>3. f \in asleep' => call'[f].pc \in Waiting
  <2>1. f \in asleep => pc(f) \in Waiting
    BY <1>1 DEF Modes
  <2>2. {"poll", "polled", "partner"} \subseteq Waiting
    BY DEF Waiting
  <2> QED
    BY <2>1, <2>2 DEF QuietStep, pc
<1>4. /\ call'[f].pc \in {"read", "rwait"} => kind'[f].read
      /\ call'[f].pc \in {"merge", "write", "wwait"} => kind'[f].write
      /\ call'[f].pc \in {"merge", "setsize"} => ~call'[f].wake
      /\ call'[f].pc = "partner" => kind'[f].read # kind'[f].write
  BY <1>1 DEF QuietStep, Modes
<1>5. Modes(f)'
  BY <1>2, <1>3, <1>4 DEF Modes, pc
<1> QED
  BY <1>1, <1>2, <1>5, ModesStep

LEMMA ModesReadWrite ==
    ASSUME TypeOK, AllModes, NEW f \in Files, RWStep(f)
    PROVE  AllModes'
<1>1. Others(f) /\ kind' = kind /\ pc(f) \in {"read", "merge", "write"} /\ Modes(f)
  BY DEF RWStep, Common, AllModes
<1>2. mutex = f /\ f \notin asleep
  BY <1>1, ModePcs DEF Modes, InMutex
<1>3. asleep' \subseteq asleep \cup {f} /\ mutex' \in {NULL, f}
  BY <1>2 DEF RWStep, Stays, Ends, SleepsEmpty, SleepsFull, pipe_wait, WakeUp
<1>4. Modes(f)'
  <2>1. CASE Stays(f)
    <3>1. /\ mutex' = f /\ f \notin asleep' /\ call'[f].pc \in {"read", "write"}
          /\ call'[f].pc = "read" => kind'[f].read
          /\ call'[f].pc = "write" => kind'[f].write
      BY <1>1, <1>2, <2>1 DEF Stays, Modes
    <3> QED
      BY <3>1 DEF Modes, pc, InMutex
  <2>2. CASE Ends(f)
    BY <1>2, <2>2, NullNotFile, NoMode DEF Ends, WakeAt
  <2>3. CASE SleepsEmpty(f)
    <3>1. call'[f].pc = "rwait" /\ mutex' # f /\ kind'[f].read
      BY <1>1, <2>3, NullNotFile DEF SleepsEmpty, pipe_wait, Modes
    <3> QED
      BY <3>1 DEF Modes, pc, InMutex, Waiting
  <2>4. CASE SleepsFull(f)
    <3>1. call'[f].pc = "wwait" /\ mutex' # f /\ kind'[f].write
      BY <1>1, <2>4, NullNotFile DEF SleepsFull, pipe_wait, Modes
    <3> QED
      BY <3>1 DEF Modes, pc, InMutex, Waiting
  <2> QED
    BY <2>1, <2>2, <2>3, <2>4 DEF RWStep
<1> QED
  BY <1>1, <1>2, <1>3, <1>4, ModesStep

LEMMA ModesCreate ==
    ASSUME TypeOK, Makers, AllModes, NEW f \in Files, NEW g \in Files, CreateStep(f, g)
    PROVE  AllModes'
<1>1. \A h \in Files : pc(h) \notin Registered
  BY PcFacts DEF Makers, Making, CreateStep
<1>2. \A h \in Files : mutex' # h /\ h \notin asleep'
  BY <1>1, ModePcs DEF AllModes, Modes, CreateStep
<1>3. \A h \in Files : call'[h].pc \notin Registered \/ call'[h].pc \in {"idle", "wakein", "wakeout", "close"}
  BY <1>1 DEF CreateStep, pc
<1> QED
  BY <1>2, <1>3, NoMode DEF AllModes

\* A copy of a counter is still equal only as long as no partner came.
Current == \A f \in current : /\ pc(f) \in Registered
                              /\ kind[f].read => writers = 0
                              /\ kind[f].write => readers = 0

LEMMA CurrentOutside ==
    ASSUME TypeOK, Current, NEW f \in Files, OutsideStep(f) \/ FreshStep(f)
    PROVE  Current'
<1>1. /\ Others(f) /\ (\A g \in Files \ {f} : kind'[g] = kind[g]) /\ current' = current
      /\ readers' = readers /\ writers' = writers /\ pc(f) \notin Registered
  BY PcFacts DEF OutsideStep, FreshStep
<1> SUFFICES ASSUME NEW h \in current
             PROVE  /\ call'[h].pc \in Registered
                    /\ kind'[h].read => writers' = 0
                    /\ kind'[h].write => readers' = 0
  BY <1>1 DEF Current, pc
<1>2. h \in Files /\ h # f
  BY <1>1 DEF Current, TypeOK
<1> QED
  BY <1>1, <1>2 DEF Current, Others, pc

LEMMA CurrentJoin ==
    ASSUME TypeOK, Current, NEW f \in Files, JoinStep(f), TypeOK'
    PROVE  Current'
<1>1. f \notin current
  BY PcFacts DEF Current, JoinStep
<1> SUFFICES ASSUME NEW h \in Files, h \in current'
             PROVE  /\ call'[h].pc \in Registered
                    /\ kind'[h].read => writers' = 0
                    /\ kind'[h].write => readers' = 0
  <2>1. current' \subseteq Files
    BY DEF TypeOK
  <2> QED
    BY <2>1 DEF Current, pc
<1>2. CASE h = f
  <2>1. call'[f].pc \in Registered /\ kind' = kind
    BY PcFacts DEF JoinStep
  <2>2. \/ kind[f].read /\ ~kind[f].write /\ writers = 0
        \/ kind[f].write /\ ~kind[f].read /\ readers = 0
    BY <1>1, <1>2 DEF JoinStep
  <2> QED
    BY <1>2, <2>1, <2>2 DEF JoinStep
<1>3. CASE h # f
  <2>1. h \in current /\ (kind[f].read => ~kind[h].write) /\ (kind[f].write => ~kind[h].read)
        /\ call'[h] = call[h] /\ kind' = kind
    BY <1>3 DEF JoinStep, Others
  <2>2. pc(h) \in Registered /\ (kind[h].read => writers = 0) /\ (kind[h].write => readers = 0)
    BY <2>1 DEF Current
  <2> QED
    BY <2>1, <2>2 DEF JoinStep, pc
<1> QED
  BY <1>2, <1>3

LEMMA CurrentLeave ==
    ASSUME TypeOK, Counts, Current, NEW f \in Files, LeaveStep(f)
    PROVE  Current'
<1> SUFFICES ASSUME NEW h \in current', h \in current, h # f
             PROVE  /\ call'[h].pc \in Registered
                    /\ kind'[h].read => writers' = 0
                    /\ kind'[h].write => readers' = 0
  BY DEF Current, pc, LeaveStep
<1>1. h \in Files
  BY DEF TypeOK
<1>2. call'[h] = call[h] /\ kind'[h] = kind[h]
  BY <1>1 DEF LeaveStep, Others
<1>3. pc(h) \in Registered /\ (kind[h].read => writers = 0) /\ (kind[h].write => readers = 0)
  BY DEF Current
<1>4. pc(f) \in Registered
  BY PcFacts DEF LeaveStep
<1>5. (kind[f].read => readers > 0) /\ (kind[f].write => writers > 0)
  <2>1. (kind[f].read => f \in Rd) /\ (kind[f].write => f \in Wr)
    BY <1>4 DEF Rd, Wr
  <2> QED
    BY <2>1, CountTypes
<1> QED
  BY <1>2, <1>3, <1>5 DEF LeaveStep, pc

LEMMA CurrentQuiet ==
    ASSUME TypeOK, Current, NEW f \in Files, QuietStep(f) \/ RWStep(f)
    PROVE  Current'
<1>1. kind' = kind /\ current' = current /\ readers' = readers /\ writers' = writers /\ Others(f)
  BY DEF QuietStep, RWStep, Common, countVars
<1>2. call'[f].pc \in Registered
  <2>1. CASE QuietStep(f)
    BY <2>1 DEF QuietStep
  <2>2. CASE RWStep(f)
    <3>1. call'[f].pc \in {"read", "write", "wakein", "wakeout", "idle", "rwait", "wwait"}
      BY <2>2 DEF RWStep, Stays, Ends, SleepsEmpty, SleepsFull, WakeAt
    <3> QED
      BY <3>1, PcFacts
  <2> QED
    BY <2>1, <2>2
<1> SUFFICES ASSUME NEW h \in current PROVE call'[h].pc \in Registered
  BY <1>1 DEF Current, pc
<1>3. h \in Files
  BY DEF TypeOK
<1> QED
  BY <1>1, <1>2, <1>3 DEF Current, Others, pc

\* Before pipe() is done, and when the inode gets or loses its pipe, there is no user.
LEMMA NobodyCreates ==
    ASSUME TypeOK, Makers, AllModes, Current, Counts, NEW f \in Files, NEW g \in Files, CreateStep(f, g)
    PROVE  asleep = {} /\ current = {} /\ waiting_writers = 0
<1>1. \A h \in Files : pc(h) \notin Registered
  BY PcFacts DEF Makers, Making, CreateStep
<1>2. asleep = {}
  BY <1>1, ModePcs DEF AllModes, Modes, TypeOK
<1>3. current = {}
  BY <1>1 DEF Current, TypeOK
<1>4. Ww = {}
  BY <1>1, PcFacts DEF Ww
<1> QED
  BY <1>2, <1>3, <1>4, FS_EmptySet DEF Counts

LEMMA NobodyThere ==
    ASSUME TypeOK, AllModes, Counts, NEW f \in Files, FreshStep(f)
    PROVE  asleep = {} /\ waiting_writers = 0 /\ \A h \in Files : pc(h) \notin Registered
<1>1. \A h \in Files : pc(h) \notin Registered
  <2>0. Hd \in SUBSET Files /\ Hd \ {f} \in SUBSET Files /\ files = Cardinality(Hd)
    BY DEF Hd, Counts
  <2>1. pc(f) \notin Registered /\ (f \in Hd <=> pc(f) \in Holding)
    BY PcFacts DEF FreshStep, Hd
  <2>2. Hd \ {f} = {}
    <3>1. CASE pc(f) = "install" /\ ~i_pipe
      <4>1. ~(files > 0)
        BY <3>1, Zenon DEF Counts
      <4>2. files \in Nat
        BY CountTypes
      <4>3. files = 0
        BY <4>1, <4>2
      <4> QED
        BY <2>0, <4>3, Recount
    <3>2. CASE pc(f) = "put" /\ files = 1
      <4>1. f \in Hd
        BY <2>1, <3>2, PcFacts
      <4>2. Cardinality(Hd \ {f}) = Cardinality(Hd) - 1
        BY <2>0, <4>1, Recount
      <4>3. Cardinality(Hd \ {f}) = 0
        BY <2>0, <3>2, <4>2
      <4> QED
        BY <2>0, <4>3, Recount
    <3> QED
      BY <3>1, <3>2 DEF FreshStep
  <2> QED
    BY <2>1, <2>2, PcFacts DEF Hd
<1>2. asleep = {}
  BY <1>1, ModePcs DEF AllModes, Modes, TypeOK
<1>4. Ww = {}
  BY <1>1, PcFacts DEF Ww
<1> QED
  BY <1>1, <1>2, <1>4, FS_EmptySet DEF Counts

LEMMA CurrentCreate ==
    ASSUME TypeOK, Makers, AllModes, Current, Counts, NEW f \in Files, NEW g \in Files, CreateStep(f, g)
    PROVE  Current'
<1>1. current' = {}
  BY NobodyCreates DEF CreateStep
<1> QED
  BY <1>1 DEF Current

LEMMA MakersOutside ==
    ASSUME TypeOK, Counts, Makers, NEW f \in Files, OutsideStep(f), TypeOK'
    PROVE  Makers'
<1>1. call'[f].pc \in Pcs
  BY DEF TypeOK, CallRecord
<1>2. call'[f].pc \in {"closed", "free"} \/ call'[f].pc \in Making \/ call'[f].pc \in Holding
  BY <1>1, PcFacts DEF Pcs, Opening, Making, OutsideStep
<1>3. pc(f) \in {"closed", "free"} => pc(f) \notin Making /\ pc(f) \notin Holding
  BY PcFacts DEF Making
<1>4. is_pipe' = is_pipe /\ Others(f) /\ \A g \in Files \ {f} : kind'[g] = kind[g]
  BY DEF OutsideStep, inodeVars
<1>5. call'[f].pc \in Making => \/ pc(f) \in Making /\ kind'[f] = kind[f]
                                \/ ~i_pipe /\ (is_pipe => \E g \in Files : pc(g) = "idle")
                                \/ /\ \A g \in Files : pc(g) \in {"closed", "free"}
                                   /\ kind'[f].write /\ ~kind'[f].read
  BY DEF OutsideStep
<1>6. pc(f) \in {"closed", "free"} => \/ call'[f].pc \in {"closed", "free"}
                                      \/ i_pipe
                                      \/ ~i_pipe /\ (is_pipe => \E g \in Files : pc(g) = "idle")
                                      \/ \A g \in Files : pc(g) \in {"closed", "free"}
  <2>1. pc(f) \notin Holding /\ call'[f].pc \in Holding => i_pipe
    BY DEF OutsideStep
  <2> QED
    BY <1>2, <1>3, <1>5, <2>1
<1> QED
  BY <1>4, <1>5, <1>6, MakersKept

LEMMA MakersOthers ==
    ASSUME TypeOK, Counts, Makers, NEW f \in Files, FreshStep(f) \/ JoinStep(f) \/ LeaveStep(f) \/ QuietStep(f) \/ RWStep(f)
    PROVE  Makers'
<1>1. is_pipe' = is_pipe /\ Others(f) /\ \A g \in Files \ {f} : kind'[g] = kind[g]
  BY DEF FreshStep, JoinStep, LeaveStep, QuietStep, RWStep, Common, inodeVars
<1>2. call'[f].pc \notin Making
  <2>1. CASE FreshStep(f) \/ JoinStep(f) \/ LeaveStep(f)
    BY <2>1 DEF FreshStep, JoinStep, LeaveStep, Making
  <2>2. CASE QuietStep(f)
    BY <2>2, PcFacts DEF QuietStep, Making
  <2>3. CASE RWStep(f)
    <3>1. call'[f].pc \in {"read", "write", "wakein", "wakeout", "idle", "rwait", "wwait"}
      BY <2>3 DEF RWStep, Stays, Ends, SleepsEmpty, SleepsFull, WakeAt
    <3> QED
      BY <3>1 DEF Making
  <2> QED
    BY <2>1, <2>2, <2>3
<1>3. pc(f) \notin {"closed", "free"}
  BY PcFacts DEF FreshStep, JoinStep, LeaveStep, QuietStep, RWStep
<1> QED
  BY <1>1, <1>2, <1>3, MakersKept

LEMMA MakersCreate ==
    ASSUME TypeOK, Makers, NEW f \in Files, NEW g \in Files, CreateStep(f, g)
    PROVE  Makers'
<1>1. \A h \in Files : pc(h) \in Making => h = f
  BY DEF Makers, Making, CreateStep
<1>2. \A h \in Files : call'[h].pc \notin Making
  BY <1>1 DEF CreateStep, Making, pc
<1> QED
  BY <1>2 DEF Makers, pc

-----------------------------------------------------------------------------
(* Sleeping and waking *)

\* What f sleeps for has not come.
Patient(f) ==
    \/ pc(f) = "rwait" /\ pipe.nrbufs = 0 /\ writers > 0
    \/ pc(f) = "wwait" /\ pipe.nrbufs >= call[f].seen /\ readers > 0
    \/ pc(f) = "partner" /\ f \in current
    \/ pc(f) = "poll"
    \/ /\ pc(f) = "polled"
       /\ kind[f].read => pipe.nrbufs <= call[f].seen
       /\ kind[f].write => pipe.nrbufs >= call[f].seen

Sleepers == \A f \in asleep : WakePending(f) \/ Patient(f)

\* A step that h does not see.
Still(h) == call'[h] = call[h] /\ kind'[h] = kind[h]

\* A wake-up that is due by another file stays due.
LEMMA PendingKept ==
    ASSUME NEW f \in Files, Others(f), mutex' = mutex \/ (mutex \in {NULL, f} /\ mutex' \in {NULL, f}),
           NEW h, Still(h), NEW g \in Files, g # f, Pending(g), Wakes(g, h)
    PROVE  WakePending(h)'
<1>1. call'[g] = call[g] /\ (mutex = g => mutex' = g)
  BY NullNotFile DEF Others
<1>2. Pending(g)'
  BY <1>1 DEF Pending, pc
<1>3. Wakes(g, h)'
  BY <1>1 DEF Wakes, pc, Still
<1> QED
  BY <1>2, <1>3 DEF Pending, WakePending, WakePcs

LEMMA PendingNow ==
    ASSUME NEW h, WakePending(h)
    PROVE  \E g \in Files : Pending(g) /\ Wakes(g, h)
BY DEF WakePending, Pending, WakePcs

\* The same, when f has none to give.
LEMMA PendingStays ==
    ASSUME NEW f \in Files, Others(f), mutex' = mutex, ~Pending(f), NEW h, Still(h), WakePending(h)
    PROVE  WakePending(h)'
BY PendingNow, PendingKept

LEMMA SleepersOutside ==
    ASSUME TypeOK, AllModes, Sleepers, NEW f \in Files, OutsideStep(f)
    PROVE  Sleepers'
<1>1. /\ Others(f) /\ mutex' = mutex /\ asleep' = asleep /\ pipe' = pipe /\ readers' = readers /\ writers' = writers
      /\ current' = current /\ pc(f) \notin Registered /\ \A g \in Files \ {f} : kind'[g] = kind[g]
  BY DEF OutsideStep, ringVars
<1>2. f \notin asleep /\ ~Pending(f)
  BY <1>1, ModePcs, PcFacts DEF AllModes, Modes, Pending, WakePcs
<1> SUFFICES ASSUME NEW h \in asleep PROVE WakePending(h)' \/ Patient(h)'
  BY <1>1 DEF Sleepers
<1>3. h \in Files /\ h # f /\ Still(h)
  BY <1>1, <1>2 DEF TypeOK, Others, Still
<1>4. CASE WakePending(h)
  BY <1>1, <1>2, <1>3, <1>4, PendingStays
<1>5. CASE Patient(h)
  BY <1>1, <1>3, <1>5 DEF Patient, pc, Still
<1> QED
  BY <1>4, <1>5 DEF Sleepers

LEMMA SleepersJoin ==
    ASSUME TypeOK, Counts, AllModes, Current, Sleepers, NEW f \in Files, JoinStep(f), TypeOK'
    PROVE  Sleepers'
<1>1. /\ Others(f) /\ mutex' = mutex /\ mutex = NULL /\ pipe' = pipe /\ kind' = kind /\ pc(f) = "register"
      /\ asleep' \subseteq asleep \cup {f}
  BY DEF JoinStep, ringVars
<1>2. f \notin asleep /\ ~Pending(f)
  <2>1. "register" \notin Waiting /\ "register" \notin WakePcs
    BY DEF Waiting, WakePcs
  <2> QED
    BY <1>1, <2>1, NullNotFile DEF AllModes, Modes, Pending
<1>3. readers \in Nat /\ writers \in Nat /\ readers' >= readers /\ writers' >= writers
      /\ readers' \in Nat /\ writers' \in Nat
  <2>1. readers \in Nat /\ writers \in Nat
    BY CountTypes
  <2> QED
    BY <2>1 DEF JoinStep
<1> SUFFICES ASSUME NEW h \in asleep' PROVE WakePending(h)' \/ Patient(h)'
  BY DEF Sleepers
<1>4. CASE h = f
  BY <1>2, <1>4 DEF JoinStep, Patient, pc
<1>5. CASE h # f
  <2>1. h \in Files /\ h \in asleep /\ call'[h] = call[h] /\ Still(h)
    BY <1>1, <1>5 DEF TypeOK, Others, Still
  <2>2. CASE WakePending(h)
    BY <1>1, <1>2, <2>1, <2>2, PendingStays
  <2>3. CASE pc(h) = "rwait" /\ pipe.nrbufs = 0 /\ writers > 0
    BY <1>1, <1>3, <2>1, <2>3 DEF Patient, pc
  <2>4. CASE pc(h) = "wwait" /\ pipe.nrbufs >= call[h].seen /\ readers > 0
    BY <1>1, <1>3, <2>1, <2>4 DEF Patient, pc
  <2>5. CASE pc(h) = "partner" /\ h \in current
    <3>1. h \in current'
      <4>1. kind[h].read # kind[h].write /\ kind[h].read \in BOOLEAN /\ kind[h].write \in BOOLEAN
        BY <2>1, <2>5 DEF AllModes, Modes, TypeOK, KindRecord
      <4>2. (kind[h].read => writers = 0) /\ (kind[h].write => readers = 0)
        BY <2>5 DEF Current
      <4>3. ~(kind[f].read /\ readers = 0) /\ ~(kind[f].write /\ writers = 0)
        BY <1>5 DEF JoinStep
      <4>4. \/ h \in current'
            \/ kind[f].read /\ kind[h].write
            \/ kind[f].write /\ kind[h].read
            \/ kind[f].read /\ kind[f].write
        BY <1>5, <2>1, <2>5 DEF JoinStep
      <4> QED
        BY <4>1, <4>2, <4>3, <4>4
    <3> QED
      BY <2>1, <2>5, <3>1 DEF Patient, pc
  <2>6. CASE \/ pc(h) = "poll"
             \/ /\ pc(h) = "polled"
                /\ kind[h].read => pipe.nrbufs <= call[h].seen
                /\ kind[h].write => pipe.nrbufs >= call[h].seen
    BY <1>1, <2>1, <2>6 DEF Patient, pc
  <2> QED
    BY <2>1, <2>2, <2>3, <2>4, <2>5, <2>6 DEF Sleepers, Patient
<1> QED
  BY <1>4, <1>5

LEMMA SleepersLeave ==
    ASSUME TypeOK, Counts, AllModes, Sleepers, NEW f \in Files, LeaveStep(f), TypeOK', Counts', AllModes'
    PROVE  Sleepers'
<1>1. /\ Others(f) /\ mutex' = mutex /\ mutex = NULL /\ pipe' = pipe /\ pc(f) \in {"partner", "idle", "close"}
      /\ asleep' \subseteq asleep /\ (\A g \in Files \ {f} : kind'[g] = kind[g]) /\ current' = current \ {f}
      /\ call'[f].pc = "put"
  BY DEF LeaveStep, ringVars
<1>2. f \notin asleep' /\ ~Pending(f)
  <2>1. "put" \notin Waiting
    BY DEF Waiting
  <2>2. Modes(f)'
    BY DEF AllModes
  <2> QED
    BY <1>1, <2>1, <2>2, NullNotFile DEF Modes, Pending, pc, WakePcs
<1>3. /\ readers \in Nat /\ writers \in Nat /\ readers' \in Nat /\ writers' \in Nat
  <2>1. readers \in Nat /\ writers \in Nat
    BY CountTypes
  <2>2. readers' \in Nat /\ writers' \in Nat
    <3>1. Rd' \in SUBSET Files /\ Wr' \in SUBSET Files
      BY DEF Rd, Wr
    <3> QED
      BY <3>1, Recount DEF Counts
  <2> QED
    BY <2>1, <2>2
<1> SUFFICES ASSUME NEW h \in asleep' PROVE WakePending(h)' \/ Patient(h)'
  BY DEF Sleepers
<1>4. h \in Files /\ h \in asleep /\ h # f /\ call'[h] = call[h] /\ kind'[h] = kind[h] /\ Still(h)
  BY <1>1, <1>2 DEF TypeOK, Others, Still
<1>5. \/ readers' <= 0 /\ writers' <= 0
      \/ kind[f].read /\ ~kind[f].write /\ readers # 1
      \/ kind[f].write /\ ~kind[f].read /\ writers # 1
  BY DEF LeaveStep
<1>6. pc(h) \in Registered => (kind[h].read => readers' > 0) /\ (kind[h].write => writers' > 0)
  <2>1. Rd' \in SUBSET Files /\ Wr' \in SUBSET Files
    BY DEF Rd, Wr
  <2>2. pc(h) \in Registered => (kind[h].read => h \in Rd') /\ (kind[h].write => h \in Wr')
    BY <1>4 DEF Rd, Wr, pc
  <2> QED
    BY <1>4, <2>1, <2>2, Recount DEF Counts
<1>7. Modes(h)
  BY <1>4 DEF AllModes
<1>8. CASE WakePending(h)
  BY <1>1, <1>2, <1>4, <1>8, PendingStays
<1>9. CASE pc(h) = "rwait" /\ pipe.nrbufs = 0 /\ writers > 0
  <2>1. readers' > 0
    BY <1>6, <1>7, <1>9, PcFacts DEF Modes
  <2>2. writers' > 0
    BY <1>3, <1>5, <1>9, <2>1 DEF LeaveStep
  <2> QED
    BY <1>1, <1>4, <1>9, <2>2 DEF Patient, pc
<1>10. CASE pc(h) = "wwait" /\ pipe.nrbufs >= call[h].seen /\ readers > 0
  <2>1. writers' > 0
    BY <1>6, <1>7, <1>10, PcFacts DEF Modes
  <2>2. readers' > 0
    BY <1>3, <1>5, <1>10, <2>1 DEF LeaveStep
  <2> QED
    BY <1>1, <1>4, <1>10, <2>2 DEF Patient, pc
<1>11. CASE \/ pc(h) = "partner" /\ h \in current
            \/ pc(h) = "poll"
            \/ /\ pc(h) = "polled"
               /\ kind[h].read => pipe.nrbufs <= call[h].seen
               /\ kind[h].write => pipe.nrbufs >= call[h].seen
  BY <1>1, <1>4, <1>11 DEF Patient, pc
<1> QED
  BY <1>4, <1>8, <1>9, <1>10, <1>11 DEF Sleepers, Patient

\* Quiet steps and steps of f in the mutex keep the wake-up that is due, or wake.
LEMMA QuietPending ==
    ASSUME TypeOK, AllModes, NEW f \in Files, QuietStep(f), NEW h, call'[h] = call[h], WakePending(h)
    PROVE  WakePending(h)' \/ h \notin asleep'
<1>1. Others(f) /\ Modes(f) /\ Still(h)
  BY DEF QuietStep, AllModes, Still
<1>2. mutex' = mutex \/ (mutex \in {NULL, f} /\ mutex' \in {NULL, f})
  <2>1. pc(f) = "setsize" => mutex = f
    BY <1>1 DEF Modes, InMutex
  <2> QED
    BY <2>1 DEF QuietStep
<1>3. PICK g \in Files : Pending(g) /\ Wakes(g, h)
  BY PendingNow
<1>4. CASE g # f
  BY <1>1, <1>2, <1>3, <1>4, PendingKept
<1>5. CASE g = f
  <2>1. asleep' = WakeUp(f) \/ UNCHANGED <<mutex, call>>
    BY <1>3, <1>5 DEF QuietStep
  <2>2. CASE UNCHANGED <<mutex, call>>
    <3>1. kind' = kind
      BY DEF QuietStep
    <3> QED
      BY <2>2, <3>1 DEF WakePending, Wakes, pc
  <2>3. CASE asleep' = WakeUp(f)
    BY <1>3, <1>5, <2>3 DEF WakeUp
  <2> QED
    BY <2>1, <2>2, <2>3
<1> QED
  BY <1>4, <1>5

LEMMA SleepersQuiet ==
    ASSUME TypeOK, AllModes, Sleepers, NEW f \in Files, QuietStep(f), TypeOK'
    PROVE  Sleepers'
<1>1. /\ Others(f) /\ pipe'.nrbufs = pipe.nrbufs /\ readers' = readers /\ writers' = writers /\ current' = current
      /\ asleep' \subseteq asleep \cup {f} /\ kind' = kind
  BY DEF QuietStep, countVars
<1> SUFFICES ASSUME NEW h \in asleep' PROVE WakePending(h)' \/ Patient(h)'
  BY DEF Sleepers
<1>2. CASE h \in asleep /\ call'[h] = call[h]
  <2>1. CASE WakePending(h)
    BY <1>2, <2>1, QuietPending
  <2>2. CASE Patient(h)
    BY <1>1, <1>2, <2>2 DEF Patient, pc
  <2> QED
    BY <1>2, <2>1, <2>2 DEF Sleepers
<1>3. CASE h = f /\ ~(h \in asleep /\ call'[h] = call[h])
  <2>1. \/ call'[f].pc = "poll"
        \/ call'[f].pc = "polled" /\ call'[f].seen = pipe.nrbufs
        \/ call'[f].pc = "partner" /\ f \in current
    BY <1>3 DEF QuietStep
  <2>2. pipe.nrbufs \in Nat
    BY DEF TypeOK, Ring, Rings
  <2> QED
    BY <1>1, <1>3, <2>1, <2>2 DEF Patient, pc
<1> QED
  BY <1>1, <1>2, <1>3 DEF TypeOK, Others

\* A step of f in the mutex: every wake-up that is due stays due or comes, and
\* one is due when the ring or the spare page has changed.
LEMMA BusyPending ==
    ASSUME TypeOK, AllModes, NEW f \in Files, RWStep(f), NEW h \in Files, h # f,
           WakePending(h) \/ (Due(f) /\ Wakes(f, h))
    PROVE  WakePending(h)' \/ h \notin asleep'
<1>1. Others(f) /\ Modes(f) /\ pc(f) \in {"read", "merge", "write"} /\ kind' = kind
  BY DEF RWStep, Common, AllModes
<1>2. mutex = f /\ call'[h] = call[h] /\ Still(h)
  BY <1>1 DEF Modes, InMutex, Others, Still
<1>3. mutex' \in {NULL, f}
  BY <1>2 DEF RWStep, Stays, Ends, SleepsEmpty, SleepsFull, pipe_wait
<1>4. CASE \E g \in Files \ {f} : Pending(g) /\ Wakes(g, h)
  BY <1>1, <1>2, <1>3, <1>4, PendingKept
<1>5. CASE ~\E g \in Files \ {f} : Pending(g) /\ Wakes(g, h)
  <2>1. Due(f) /\ Wakes(f, h)
    <3>1. WakePending(h) => Pending(f) /\ Wakes(f, h)
      BY <1>5, PendingNow
    <3>2. Pending(f) => call[f].wake
      BY <1>1 DEF Pending, WakePcs
    <3> QED
      BY <3>1, <3>2 DEF Due
  <2>2. CASE Stays(f)
    <3>1. mutex' = f /\ call'[f].wake /\ call'[f].pc \in {"read", "write"}
          /\ (call'[f].pc = "read" <=> pc(f) = "read")
      BY <1>1, <1>2, <2>1, <2>2 DEF Stays
    <3>2. Wakes(f, h)'
      BY <1>1, <1>2, <2>1, <3>1 DEF Wakes, pc
    <3> QED
      BY <3>1, <3>2 DEF WakePending
  <2>3. CASE Ends(f)
    <3>1. call'[f].pc = WakeAt(f)
      BY <2>1, <2>3 DEF Ends
    <3>2. Wakes(f, h)'
      BY <1>1, <1>2, <2>1, <3>1 DEF Wakes, pc, WakeAt
    <3> QED
      BY <3>1, <3>2 DEF WakePending, pc, WakeAt
  <2>4. CASE SleepsEmpty(f) \/ SleepsFull(f)
    <3>1. pipe' = pipe /\ tmp_page' = tmp_page
      BY <2>4 DEF SleepsEmpty, SleepsFull, ringVars
    <3>2. call[f].wake
      BY <2>1, <3>1 DEF Due
    <3> QED
      BY <2>1, <2>4, <3>2 DEF SleepsEmpty, SleepsFull, pipe_wait, WakeUp
  <2> QED
    BY <2>2, <2>3, <2>4 DEF RWStep
<1> QED
  BY <1>4, <1>5

LEMMA SleepersReadWrite ==
    ASSUME TypeOK, Counts, AllModes, Sleepers, NEW f \in Files, RWStep(f), TypeOK'
    PROVE  Sleepers'
<1>1. /\ Others(f) /\ Modes(f) /\ pc(f) \in {"read", "merge", "write"}
      /\ readers' = readers /\ writers' = writers /\ current' = current /\ kind' = kind
  BY DEF RWStep, Common, AllModes, countVars
<1>2. f \notin asleep
  BY <1>1, ModePcs DEF Modes, InMutex
<1>3. asleep' \subseteq asleep \cup {f}
  BY DEF RWStep, Stays, Ends, SleepsEmpty, SleepsFull, pipe_wait, WakeUp
<1> SUFFICES ASSUME NEW h \in asleep' PROVE WakePending(h)' \/ Patient(h)'
  BY DEF Sleepers
<1>4. CASE h = f
  <2>1. SleepsEmpty(f) \/ SleepsFull(f)
    BY <1>2, <1>4 DEF RWStep, Stays, Ends
  <2>2. CASE SleepsEmpty(f)
    <3>1. writers \in Nat
      BY CountTypes
    <3>2. writers' > 0 /\ pipe'.nrbufs = 0 /\ call'[f].pc = "rwait"
      BY <1>1, <2>2, <3>1 DEF SleepsEmpty, ringVars
    <3> QED
      BY <1>4, <3>2 DEF Patient, pc
  <2>3. CASE SleepsFull(f)
    <3>1. pipe.nrbufs \in Nat
      BY DEF TypeOK, Ring, Rings
    <3>2. readers' > 0 /\ pipe'.nrbufs = call'[f].seen /\ pipe'.nrbufs \in Nat /\ call'[f].pc = "wwait"
      BY <1>1, <2>3, <3>1 DEF SleepsFull, ringVars
    <3>3. pipe'.nrbufs >= call'[f].seen
      BY <3>2
    <3> QED
      BY <1>4, <3>2, <3>3 DEF Patient, pc
  <2> QED
    BY <2>1, <2>2, <2>3
<1>5. CASE h # f
  <2>1. h \in Files /\ h \in asleep /\ call'[h] = call[h] /\ kind'[h] = kind[h]
    BY <1>1, <1>3, <1>5 DEF TypeOK, Others
  <2>2. CASE WakePending(h) \/ (Due(f) /\ Wakes(f, h))
    BY <1>5, <2>1, <2>2, BusyPending
  <2>3. CASE ~WakePending(h) /\ ~Due(f)
    <3>1. Patient(h) /\ pipe'.nrbufs = pipe.nrbufs
      BY <2>1, <2>3 DEF Sleepers, Due
    <3> QED
      BY <1>1, <2>1, <3>1 DEF Patient, pc
  <2>4. CASE ~WakePending(h) /\ ~Wakes(f, h)
    <3>1. pc(h) \in {"poll", "polled"} /\ IF pc(f) = "read" THEN ~kind[h].write ELSE ~kind[h].read
      BY <1>1, <2>4 DEF Wakes
    <3>2. CASE pc(h) = "poll"
      BY <2>1, <3>2 DEF Patient, pc
    <3>3. CASE pc(h) = "polled"
      <4>1. (kind[h].read => pipe.nrbufs <= call[h].seen) /\ (kind[h].write => pipe.nrbufs >= call[h].seen)
        BY <2>1, <2>4, <3>3 DEF Sleepers, Patient
      <4>2. IF pc(f) = "read" THEN pipe'.nrbufs <= pipe.nrbufs ELSE pipe'.nrbufs >= pipe.nrbufs
        BY DEF RWStep, Common, Turns
      <4>3. pipe.nrbufs \in Int /\ pipe'.nrbufs \in Int /\ call[h].seen \in Int
        BY <2>1 DEF TypeOK, Ring, Rings, CallRecord
      <4>4. (kind[h].read => pipe'.nrbufs <= call[h].seen) /\ (kind[h].write => pipe'.nrbufs >= call[h].seen)
        BY <3>1, <4>1, <4>2, <4>3
      <4> QED
        BY <2>1, <3>3, <4>4 DEF Patient, pc
    <3> QED
      BY <3>1, <3>2, <3>3
  <2> QED
    BY <2>2, <2>3, <2>4
<1> QED
  BY <1>4, <1>5

\* What Patient means for who polls.
LEMMA SleepersSuffice ==
    ASSUME TypeOK, Counts, Sleepers
    PROVE  NoLostWakeup
<1> SUFFICES ASSUME NEW f \in asleep, pc(f) = "polled", ~Ready(f, call[f].seen),
                    kind[f].read => pipe.nrbufs <= call[f].seen,
                    kind[f].write => pipe.nrbufs >= call[f].seen
             PROVE  /\ kind[f].read => pipe.nrbufs = 0 /\ (writers > 0 \/ f \in current)
                    /\ kind[f].write => pipe.nrbufs >= call[f].seen /\ readers > 0
  BY DEF Sleepers, NoLostWakeup, Patient
<1>1. pipe.nrbufs \in Nat /\ readers \in Nat /\ writers \in Nat /\ call[f].seen \in Int
  BY CountTypes DEF TypeOK, Ring, Rings, CallRecord
<1>2. /\ kind[f].read => ~(call[f].seen > 0) /\ (writers # 0 \/ f \in current)
      /\ kind[f].write => readers # 0
  BY DEF Ready
<1> QED
  BY <1>1, <1>2

-----------------------------------------------------------------------------
(* Readers that sleep although they should not *)

Hurried(f) == pc(f) = "rwait" /\ (kind[f].nonblock \/ call[f].got)

\* A writer is in the kernel.
Served == waiting_writers > 0 \/ (mutex # NULL /\ pc(mutex) = "write")

\* The next write needs a page from the kernel.
NoPage == pipe.nrbufs = 0 /\ ~tmp_page

Hurry == \A f \in asleep : Hurried(f) => WakePending(f) \/ Served \/ NoPage

LEMMA HurryOutside ==
    ASSUME TypeOK, AllModes, Hurry, NEW f \in Files, OutsideStep(f) \/ JoinStep(f) \/ LeaveStep(f), AllModes'
    PROVE  Hurry'
<1>1. /\ Others(f) /\ (\A g \in Files \ {f} : kind'[g] = kind[g]) /\ mutex' = mutex
      /\ tmp_page' = tmp_page /\ pipe' = pipe
      /\ waiting_writers' = waiting_writers /\ asleep' \subseteq asleep \cup {f}
  BY DEF OutsideStep, JoinStep, LeaveStep, ringVars
<1>2. ~Pending(f) /\ mutex # f /\ call'[f].pc # "rwait"
  <2>1. Modes(f) /\ pc(f) \notin InMutex /\ pc(f) \notin WakePcs /\ call'[f].pc # "rwait"
    <3>1. CASE OutsideStep(f)
      BY <3>1, PcFacts, ModePcs DEF OutsideStep, AllModes, WakePcs
    <3>2. CASE JoinStep(f) \/ LeaveStep(f)
      BY <3>2 DEF JoinStep, LeaveStep, AllModes, InMutex, WakePcs
    <3> QED
      BY <3>1, <3>2
  <2> QED
    BY <2>1 DEF Modes, Pending
<1> SUFFICES ASSUME NEW h \in asleep', Hurried(h)' PROVE WakePending(h)' \/ Served' \/ NoPage'
  BY DEF Hurry
<1>3. h # f /\ h \in asleep
  BY <1>1, <1>2 DEF Hurried, pc
<1>4. h \in Files /\ call'[h] = call[h] /\ kind'[h] = kind[h] /\ Still(h)
  BY <1>1, <1>3 DEF TypeOK, Others, Still
<1>5. Hurried(h)
  BY <1>4 DEF Hurried, pc
<1>6. CASE WakePending(h)
  BY <1>1, <1>2, <1>4, <1>6, PendingStays
<1>7. CASE Served
  <2>1. mutex # NULL => mutex \in Files /\ call'[mutex] = call[mutex]
    BY <1>1, <1>2 DEF TypeOK, Others
  <2> QED
    BY <1>1, <1>7, <2>1 DEF Served, pc
<1>8. CASE NoPage
  BY <1>1, <1>8 DEF NoPage
<1> QED
  BY <1>3, <1>5, <1>6, <1>7, <1>8 DEF Hurry

LEMMA HurryQuiet ==
    ASSUME TypeOK, Counts, AllModes, Hurry, NEW f \in Files, QuietStep(f), TypeOK'
    PROVE  Hurry'
<1>1. /\ Others(f) /\ Modes(f) /\ kind' = kind /\ tmp_page' = tmp_page /\ pipe'.nrbufs = pipe.nrbufs
      /\ asleep' \subseteq asleep \cup {f}
  BY DEF QuietStep, AllModes
<1> SUFFICES ASSUME NEW h \in asleep', Hurried(h)' PROVE WakePending(h)' \/ Served' \/ NoPage'
  BY DEF Hurry
<1>2. h \in asleep /\ Hurried(h) /\ call'[h] = call[h]
  <2>1. CASE h = f
    <3>1. call'[f].pc = "rwait"
      BY <2>1 DEF Hurried, pc
    <3>2. f \in asleep /\ call' = call
      BY <2>1, <3>1 DEF QuietStep
    <3> QED
      BY <1>1, <2>1, <3>2 DEF Hurried, pc
  <2>2. CASE h # f
    <3>1. h \in asleep /\ h \in Files /\ call'[h] = call[h]
      BY <1>1, <2>2 DEF TypeOK, Others
    <3> QED
      BY <1>1, <3>1 DEF Hurried, pc
  <2> QED
    BY <2>1, <2>2
<1>3. CASE WakePending(h)
  BY <1>2, <1>3, QuietPending
<1>4. CASE waiting_writers > 0
  <2>1. waiting_writers \in Nat
    BY CountTypes
  <2>2. waiting_writers' = waiting_writers \/ (call'[f].pc = "write" /\ mutex' = f)
    BY DEF QuietStep
  <2> QED
    BY <1>1, <1>4, <2>1, <2>2, NullNotFile DEF Served, pc
<1>5. CASE mutex # NULL /\ pc(mutex) = "write"
  <2>1. mutex \in Files /\ pc(mutex) \in InMutex
    BY <1>5 DEF TypeOK, InMutex
  <2>2. mutex' = mutex /\ call'[mutex] = call[mutex]
    <3>1. CASE mutex = f
      BY <1>5, <2>1, <3>1, NullNotFile DEF QuietStep
    <3>2. CASE mutex # f
      <4>1. pc(f) \notin InMutex
        BY <1>1, <3>2 DEF Modes
      <4>2. mutex' = mutex
        BY <1>5, <4>1 DEF QuietStep, InMutex
      <4> QED
        BY <1>1, <2>1, <3>2, <4>2 DEF Others
    <3> QED
      BY <3>1, <3>2
  <2> QED
    BY <1>1, <1>5, <2>2 DEF Served, pc
<1>6. CASE NoPage
  BY <1>1, <1>6 DEF NoPage
<1> QED
  BY <1>2, <1>3, <1>4, <1>5, <1>6 DEF Hurry, Served

LEMMA HurryReadWrite ==
    ASSUME TypeOK, Counts, AllModes, Sleepers, Hurry, NEW f \in Files, RWStep(f), TypeOK'
    PROVE  Hurry'
<1>1. /\ Others(f) /\ Modes(f) /\ pc(f) \in {"read", "merge", "write"} /\ kind' = kind
      /\ tmp_page \in BOOLEAN /\ tmp_page' \in BOOLEAN
  BY DEF RWStep, Common, AllModes, TypeOK
<1>2. f \notin asleep /\ mutex = f /\ f # NULL
  BY <1>1, ModePcs, NullNotFile DEF Modes, InMutex
<1>3. asleep' \subseteq asleep \cup {f}
  BY DEF RWStep, Stays, Ends, SleepsEmpty, SleepsFull, pipe_wait, WakeUp
<1>4. waiting_writers \in Nat
  BY CountTypes
<1> SUFFICES ASSUME NEW h \in asleep', Hurried(h)' PROVE WakePending(h)' \/ Served' \/ NoPage'
  BY DEF Hurry
<1>5. CASE h = f
  <2>1. call'[f].pc = "rwait"
    BY <1>5 DEF Hurried, pc
  <2>2. SleepsEmpty(f)
    BY <2>1 DEF RWStep, Stays, Ends, SleepsFull, WakeAt
  <2>3. kind[f].nonblock \/ call[f].got
    BY <1>1, <1>5, <2>2 DEF Hurried, SleepsEmpty
  <2>4. waiting_writers # 0 /\ waiting_writers' = waiting_writers
    BY <2>2, <2>3 DEF SleepsEmpty
  <2> QED
    BY <1>4, <2>4 DEF Served
<1>6. CASE h # f
  <2>1. h \in Files /\ h \in asleep /\ call'[h] = call[h]
    BY <1>1, <1>3, <1>6 DEF TypeOK, Others
  <2>2. Hurried(h) /\ pc(h) = "rwait"
    BY <1>1, <2>1 DEF Hurried, pc
  <2>3. CASE WakePending(h) \/ Due(f)
    <3>1. Wakes(f, h)
      BY <2>2 DEF Wakes
    <3> QED
      BY <1>6, <2>1, <2>3, <3>1, BusyPending
  <2>4. CASE ~WakePending(h) /\ ~Due(f)
    <3>1. pipe.nrbufs = 0 /\ pipe'.nrbufs = pipe.nrbufs /\ tmp_page' = tmp_page
      BY <2>1, <2>2, <2>4 DEF Sleepers, Patient, Due
    <3>2. readers > 0
      <4>1. h \in Rd
        BY <2>1, <2>2, PcFacts DEF Rd, AllModes, Modes
      <4> QED
        BY <2>1, <4>1, CountTypes
    <3>3. ~Full(pipe)
      BY <3>1 DEF Full, TypeOK, Ring
    <3>4. CASE NoPage
      BY <3>1, <3>4 DEF NoPage
    <3>5. CASE waiting_writers > 0
      <4>1. waiting_writers' = waiting_writers
        BY <3>3 DEF RWStep, Stays, Ends, SleepsEmpty, SleepsFull
      <4> QED
        BY <3>5, <4>1 DEF Served
    <3>6. CASE pc(f) = "write" /\ ~NoPage
      <4>1. CASE Stays(f)
        BY <1>2, <3>6, <4>1 DEF Stays, Served, pc
      <4>2. CASE Ends(f)
        <5>1. tmp_page
          BY <3>1, <3>6 DEF NoPage
        <5>2. readers # 0
          BY <3>2, CountTypes
        <5>3. call'[f].pc = WakeAt(f)
          BY <3>3, <3>6, <4>2, <5>1, <5>2 DEF Ends
        <5>4. Wakes(f, h)'
          BY <2>1, <2>2 DEF Wakes, pc
        <5> QED
          BY <5>3, <5>4 DEF WakePending, pc, WakeAt
      <4> QED
        BY <3>3, <3>6, <4>1, <4>2 DEF RWStep, SleepsEmpty, SleepsFull
    <3> QED
      BY <1>2, <2>1, <2>2, <2>4, <3>4, <3>5, <3>6 DEF Hurry, Served
  <2> QED
    BY <2>3, <2>4
<1> QED
  BY <1>5, <1>6

LEMMA HurrySuffices ==
    ASSUME Hurry, asleep \subseteq Files
    PROVE  NoReaderLockup
BY DEF Hurry, NoReaderLockup, LockedUp, Hurried, Served, NoPage

-----------------------------------------------------------------------------
(* The invariant *)

Inv ==
    /\ TypeOK /\ Content(pipe) = stream
    /\ Counts /\ Makers
    /\ AllModes /\ Current
    /\ Sleepers /\ Hurry

LEMMA ReadWriteTypes ==
    ASSUME TypeOK, NEW f \in Files, RWStep(f)
    PROVE  TypeOK' /\ Content(pipe') = stream'
<1>1. /\ UNCHANGED <<inodeVars, countVars, user_bufs, kind>>
      /\ call' \in [Files -> CallRecord] /\ Others(f) /\ signalled' \in SUBSET Files
      /\ Ring(pipe') /\ Content(pipe') = stream' /\ tmp_page' \in BOOLEAN
  BY DEF RWStep, Common, RingStep
<1>2. /\ mutex' \in Files \cup {NULL} /\ asleep' \in SUBSET Files /\ waiting_writers' \in Int
      /\ call'[f].pc \in {"read", "write", "wakein", "wakeout", "idle", "rwait", "wwait"}
  <2>1. mutex \in Files \cup {NULL} /\ asleep \in SUBSET Files /\ waiting_writers \in Int
    BY DEF TypeOK
  <2>2. CASE Stays(f) \/ Ends(f)
    BY <2>1, <2>2 DEF RWStep, Stays, Ends, WakeAt
  <2>3. CASE SleepsEmpty(f) \/ SleepsFull(f)
    BY <2>1, <2>3 DEF SleepsEmpty, SleepsFull, pipe_wait, WakeUp
  <2> QED
    BY <2>2, <2>3 DEF RWStep
<1>3. stream' \in Bytes
  BY <1>1, ContentType
<1>4. RestOK'
  BY <1>1, <1>2, <1>3 DEF RestOK, TypeOK, inodeVars, countVars
<1>5. CallOK(call'[f])
  BY <1>2 DEF CallOK
<1> QED
  BY <1>1, <1>4, <1>5, TypeStep

\* The kinds of steps there are.
LEMMA StepKinds ==
    ASSUME Next
    PROVE  \E f \in Files :
             \/ ReadWrite(f) \/ Quiet(f) \/ Outside(f)
             \/ (InstallPipe(f) /\ ~i_pipe) \/ (put_pipe_info(f) /\ files = 1)
             \/ OpenRead(f) \/ OpenWrite(f) \/ OpenBoth(f)
             \/ (NoPartner(f) /\ f \in signalled) \/ pipe_release(f)
             \/ \E g \in Files : CreatePipeFiles(f, g)
BY DEF Next, ReadWrite, Quiet, Outside

LEMMA InvReadWrite ==
    ASSUME Inv, NEW f \in Files, ReadWrite(f)
    PROVE  Inv'
<1>1. Start(f) /\ TypeOK
  BY DEF Inv, Start, AllModes, Modes
<1>2. RWStep(f)
  BY <1>1, ReadWriteStep
<1>3. TypeOK' /\ Content(pipe') = stream'
  BY <1>1, <1>2, ReadWriteTypes
<1>4. Counts' /\ Makers' /\ AllModes' /\ Current'
  BY <1>2, CountsReadWrite, MakersOthers, ModesReadWrite, CurrentQuiet DEF Inv
<1>5. Sleepers' /\ Hurry'
  BY <1>2, <1>3, SleepersReadWrite, HurryReadWrite DEF Inv
<1> QED
  BY <1>3, <1>4, <1>5 DEF Inv

LEMMA InvQuiet ==
    ASSUME Inv, NEW f \in Files, Quiet(f)
    PROVE  Inv'
<1>1. Start(f) /\ Modes(f) /\ TypeOK
  BY DEF Inv, Start, AllModes, Modes
<1>2. QuietStep(f) /\ TypeOK'
  BY <1>1, QuietSteps
<1>3. Content(pipe') = stream'
  BY <1>2 DEF QuietStep
<1>4. Counts' /\ Makers' /\ AllModes' /\ Current'
  BY <1>2, CountsQuiet, MakersOthers, ModesQuiet, CurrentQuiet DEF Inv
<1>5. Sleepers' /\ Hurry'
  BY <1>2, SleepersQuiet, HurryQuiet DEF Inv
<1> QED
  BY <1>2, <1>3, <1>4, <1>5 DEF Inv

LEMMA InvOutside ==
    ASSUME Inv, NEW f \in Files, Outside(f)
    PROVE  Inv'
<1>1. TypeOK
  BY DEF Inv
<1>2. OutsideStep(f) /\ TypeOK'
  BY <1>1, OutsideSteps
<1>3. Content(pipe') = stream'
  BY <1>2 DEF OutsideStep, ringVars, Inv
<1>4. Counts' /\ Makers' /\ AllModes' /\ Current'
  BY <1>2, CountsOutside, MakersOutside, ModesOutside, CurrentOutside DEF Inv
<1>5. Sleepers' /\ Hurry'
  BY <1>2, <1>4, SleepersOutside, HurryOutside DEF Inv
<1> QED
  BY <1>2, <1>3, <1>4, <1>5 DEF Inv

LEMMA InvFresh ==
    ASSUME Inv, NEW f \in Files, (InstallPipe(f) /\ ~i_pipe) \/ (put_pipe_info(f) /\ files = 1)
    PROVE  Inv'
<1>1. TypeOK
  BY DEF Inv
<1>2. FreshStep(f) /\ TypeOK'
  BY <1>1, FreshSteps
<1>3. Content(pipe') = stream'
  BY <1>2 DEF FreshStep
<1>4. Counts' /\ Makers' /\ AllModes' /\ Current'
  BY <1>2, CountsFresh, MakersOthers, ModesOutside, CurrentOutside DEF Inv
<1>5. asleep' = {} /\ waiting_writers' = 0
  BY <1>2, NobodyThere DEF Inv, FreshStep
<1>6. Sleepers' /\ Hurry'
  BY <1>5 DEF Sleepers, Hurry
<1> QED
  BY <1>2, <1>3, <1>4, <1>6 DEF Inv

LEMMA InvJoin ==
    ASSUME Inv, NEW f \in Files, OpenRead(f) \/ OpenWrite(f) \/ OpenBoth(f)
    PROVE  Inv'
<1>1. TypeOK
  BY DEF Inv
<1>2. JoinStep(f) /\ TypeOK'
  BY <1>1, JoinSteps
<1>3. Content(pipe') = stream'
  BY <1>2 DEF JoinStep, ringVars, Inv
<1>4. Counts' /\ Makers' /\ AllModes' /\ Current'
  BY <1>2, CountsJoin, MakersOthers, ModesJoin, CurrentJoin DEF Inv
<1>5. Sleepers' /\ Hurry'
  BY <1>2, <1>4, SleepersJoin, HurryOutside DEF Inv
<1> QED
  BY <1>2, <1>3, <1>4, <1>5 DEF Inv

LEMMA InvLeave ==
    ASSUME Inv, NEW f \in Files, (NoPartner(f) /\ f \in signalled) \/ pipe_release(f)
    PROVE  Inv'
<1>1. TypeOK /\ (pc(f) = "partner" => kind[f].read # kind[f].write)
  BY DEF Inv, AllModes, Modes
<1>2. LeaveStep(f) /\ TypeOK'
  BY <1>1, LeaveSteps
<1>3. Content(pipe') = stream'
  BY <1>2 DEF LeaveStep, ringVars, Inv
<1>4. Counts' /\ Makers' /\ AllModes' /\ Current'
  BY <1>2, CountsLeave, MakersOthers, ModesLeave, CurrentLeave DEF Inv
<1>5. Sleepers' /\ Hurry'
  BY <1>2, <1>4, SleepersLeave, HurryOutside DEF Inv
<1> QED
  BY <1>2, <1>3, <1>4, <1>5 DEF Inv

LEMMA InvCreate ==
    ASSUME Inv, NEW f \in Files, NEW g \in Files, CreatePipeFiles(f, g)
    PROVE  Inv'
<1>1. TypeOK
  BY DEF Inv
<1>2. CreateStep(f, g) /\ TypeOK'
  BY <1>1, CreateSteps
<1>3. Content(pipe') = stream'
  BY <1>2 DEF CreateStep
<1>4. Counts' /\ Makers' /\ AllModes' /\ Current'
  BY <1>2, CountsCreate, MakersCreate, ModesCreate, CurrentCreate DEF Inv
<1>5. asleep' = {} /\ waiting_writers' = 0
  BY <1>2, NobodyCreates DEF Inv, CreateStep
<1>6. Sleepers' /\ Hurry'
  BY <1>5 DEF Sleepers, Hurry
<1> QED
  BY <1>2, <1>3, <1>4, <1>6 DEF Inv

LEMMA InvInit == Init => Inv
<1> SUFFICES ASSUME Init
             PROVE  Inv
  OBVIOUS
<1>1. /\ Ring(pipe) /\ pipe.nrbufs = 0 /\ Content(pipe) = <<>>
      /\ stream = <<>> /\ stream \in Bytes
  BY EmptyRingOK, Sizes DEF Init, Bytes
<1>2. /\ is_pipe \in BOOLEAN /\ i_pipe \in BOOLEAN /\ tmp_page \in BOOLEAN
  <2>1. is_pipe \in BOOLEAN
    BY PipeConstants DEF Init
  <2>2. i_pipe = FALSE /\ tmp_page = FALSE
    BY DEF Init
  <2> QED
    BY <2>1, <2>2, Zenon
<1>3. /\ call \in [Files -> CallRecord] /\ kind \in [Files -> KindRecord]
      /\ \A f \in Files : call[f].pc = "closed"
  <2>1. "closed" \in Pcs
    BY DEF Pcs
  <2> HIDE DEF Pcs
  <2>2. NoCall("closed") \in CallRecord /\ NoCall("closed").pc = "closed"
    BY <2>1, NoCallType
  <2>3. call = [f \in Files |-> NoCall("closed")] /\ kind = [f \in Files |-> NoKind]
    BY DEF Init
  <2> QED
    BY <2>2, <2>3, KindsType
<1>4. /\ readers = 0 /\ writers = 0 /\ waiting_writers = 0 /\ files = 0 /\ user_bufs = 0
      /\ current = {} /\ asleep = {} /\ signalled = {} /\ mutex = NULL /\ i_pipe = FALSE
  BY DEF Init
<1>5. TypeOK
  BY <1>1, <1>2, <1>3, <1>4 DEF TypeOK, pc
<1>6. Rd = {} /\ Wr = {} /\ Ww = {} /\ Hd = {}
  BY <1>3 DEF Rd, Wr, Ww, Hd, pc, Registered, Holding
<1>7. Counts
  <2>1. Cardinality({}) = 0
    BY FS_EmptySet
  <2>2. ~(files > 0)
    BY <1>4
  <2>3. i_pipe = FALSE
    BY <1>4
  <2>4. (files > 0) = FALSE
    BY <2>2
  <2>5. i_pipe = (files > 0)
    BY <2>3, <2>4
  <2> QED
    BY <1>4, <1>6, <2>1, <2>5 DEF Counts
<1>8. Makers /\ AllModes
  <2>1. Makers
    BY <1>3 DEF Makers, Making, pc
  <2>2. ASSUME NEW f \in Files
        PROVE  Modes(f)
    BY <1>3, <1>4, NullNotFile DEF Modes, pc, InMutex
  <2> QED
    BY <2>1, <2>2 DEF AllModes
<1>9. Current /\ Sleepers /\ Hurry
  BY <1>4 DEF Current, Sleepers, Hurry
<1> QED
  BY <1>1, <1>5, <1>7, <1>8, <1>9 DEF Inv

LEMMA InvStutters ==
    ASSUME Inv, UNCHANGED vars
    PROVE  Inv'
<1>1. UNCHANGED <<is_pipe, i_pipe, pipe, tmp_page, stream, readers, writers, files, current,
                  waiting_writers, mutex, asleep, user_bufs, kind, call, signalled>>
  BY DEF vars, inodeVars, ringVars, countVars
<1>2. \A f \in Files : pc(f)' = pc(f)
  BY <1>1 DEF pc
<1>3. TypeOK' /\ (Content(pipe) = stream)'
  BY <1>1 DEF Inv, TypeOK, pc
<1>4. Counts' /\ Makers'
  BY <1>1 DEF Inv, Counts, Rd, Wr, Ww, Hd, Makers, pc
<1>5. AllModes' /\ Current'
  BY <1>1 DEF Inv, AllModes, Modes, Current, pc
<1>6. Sleepers' /\ Hurry'
  BY <1>1 DEF Inv, Sleepers, Patient, Hurry, Hurried, Served, NoPage, WakePending, Wakes, pc
<1> QED
  BY <1>3, <1>4, <1>5, <1>6 DEF Inv

LEMMA InvStep == Inv /\ [Next]_vars => Inv'
<1> SUFFICES ASSUME Inv, [Next]_vars
             PROVE  Inv'
  OBVIOUS
<1>1. CASE UNCHANGED vars
  BY <1>1, InvStutters
<1>2. CASE Next
  <2>1. PICK f \in Files :
             \/ ReadWrite(f) \/ Quiet(f) \/ Outside(f)
             \/ (InstallPipe(f) /\ ~i_pipe) \/ (put_pipe_info(f) /\ files = 1)
             \/ OpenRead(f) \/ OpenWrite(f) \/ OpenBoth(f)
             \/ (NoPartner(f) /\ f \in signalled) \/ pipe_release(f)
             \/ \E g \in Files : CreatePipeFiles(f, g)
    BY <1>2, StepKinds
  <2> QED
    BY <2>1, InvReadWrite, InvQuiet, InvOutside, InvFresh, InvJoin, InvLeave, InvCreate
<1> QED
  BY <1>1, <1>2

\* The invariant of fs/pipe.c, for any files, sizes and limits: the variables have
\* their types, the ring its shape, and every group of steps keeps all parts of Inv.
THEOREM PipeCorrect == Spec => []Inv
BY InvInit, InvStep, PTL DEF Spec

\* What is read from a pipe is what was written to it, in order, and no page is used
\* beyond its end (pipe_read, pipe_write, pipe_set_size): for rings of any size and
\* writes of any length, over merges, wrap-arounds, packets and changes of size.
THEOREM InOrderHolds == Spec => []InOrder
<1>1. Inv => InOrder
  <2> SUFFICES ASSUME Inv
               PROVE  InOrder
    OBVIOUS
  <2>1. Ring(pipe) /\ Content(pipe) = stream
    BY DEF Inv, TypeOK
  <2>2. DOMAIN pipe.bufs = 0 .. pipe.buffers - 1
    BY <2>1 DEF Ring, Rings
  <2> QED
    BY <2>1, <2>2 DEF InOrder, Ring
<1> QED
  BY <1>1, PipeCorrect, PTL

\* readers, writers, waiting_writers and files are the numbers of the files that are
\* open and of the callers that wait, whichever way fifo_open, pipe_write and
\* pipe_release end, and the inode has a pipe exactly as long as one is held.
THEOREM CountsExactHolds == Spec => []CountsExact
<1>1. Inv => CountsExact
  BY CountsSuffice DEF Inv
<1> QED
  BY <1>1, PipeCorrect, PTL

\* No caller sleeps on pipe->wait through what it waits for: whoever changes the ring
\* or the counts wakes those whom it concerns, at once or when its call ends.
THEOREM NoLostWakeupHolds == Spec => []NoLostWakeup
<1>1. Inv => NoLostWakeup
  BY SleepersSuffice DEF Inv
<1> QED
  BY <1>1, PipeCorrect, PTL

\* About the FIXME of pipe_write: a reader that has bytes to return, or that may not
\* block, sleeps only as long as a writer is in the kernel that will wake it, or
\* the pipe has no page at all, so that a write may fail before it wakes anyone.
THEOREM NoReaderLockupHolds == Spec => []NoReaderLockup
<1>1. Inv => NoReaderLockup
  BY HurrySuffices DEF Inv, TypeOK
<1> QED
  BY <1>1, PipeCorrect, PTL

-----------------------------------------------------------------------------
(* The pages the user is charged for *)

\* What a call adds to the pages of the pipe: those that are its own, and those that it
\* has charged and the pipe does not have yet.
Share(c, buffers) ==
    c.spare + (IF c.pc = "alloc" THEN DefaultBuffers ELSE
               IF c.pc = "check" THEN c.left ELSE
               IF c.pc = "setsize" THEN c.left - buffers ELSE 0)

Shares(calls, buffers) == [f \in Files |-> Share(calls[f], buffers)]
Base == IF i_pipe THEN pipe.buffers ELSE 0

Sparing == {"install", "discard", "free"}

Charges ==
    /\ \A f \in Files : call[f].spare # 0 => pc(f) \in Sparing
    /\ user_bufs = Base + Total(Shares(call, pipe.buffers), Files)

LEMMA ShareType ==
    ASSUME NEW c \in CallRecord, NEW n \in Nat
    PROVE  Share(c, n) \in Int
<1>1. c.spare \in Nat /\ c.left \in Nat /\ DefaultBuffers \in Nat
  BY Sizes DEF CallRecord
<1> QED
  BY <1>1 DEF Share

LEMMA SharesType ==
    ASSUME NEW calls \in [Files -> CallRecord], NEW n \in Nat
    PROVE  Shares(calls, n) \in [Files -> Int]
<1>1. \A f \in Files : Share(calls[f], n) \in Int
  BY ShareType
<1> QED
  BY <1>1 DEF Shares

LEMMA SpareType ==
    ASSUME TypeOK, NEW f \in Files
    PROVE  call[f] \in CallRecord /\ call[f].spare \in Nat /\ call[f].left \in Nat
<1>1. call[f] \in CallRecord
  BY DEF TypeOK
<1> QED
  BY <1>1 DEF CallRecord

\* One caller changes its share, and the charge changes with it.
LEMMA ChargesMove ==
    ASSUME TypeOK, TypeOK', Charges, NEW f \in Files,
           \A g \in Files \ {f} : Share(call'[g], pipe'.buffers) = Share(call[g], pipe.buffers),
           \A g \in Files : call'[g].spare # 0 => call'[g].pc \in Sparing,
           user_bufs' - Base' - Share(call'[f], pipe'.buffers) = user_bufs - Base - Share(call[f], pipe.buffers)
    PROVE  Charges'
<1> DEFINE h == Shares(call, pipe.buffers)
           k == Shares(call', pipe'.buffers)
<1>1. /\ Base \in Int /\ user_bufs \in Int /\ Base' \in Int /\ user_bufs' \in Int
      /\ h \in [Files -> Int] /\ k \in [Files -> Int]
  <2>1. pipe.buffers \in Nat /\ pipe'.buffers \in Nat /\ user_bufs \in Int /\ user_bufs' \in Int
    BY DEF TypeOK, Ring
  <2>2. call \in [Files -> CallRecord] /\ call' \in [Files -> CallRecord]
    BY DEF TypeOK
  <2> QED
    BY <2>1, <2>2, SharesType DEF Base
<1>2. h[f] = Share(call[f], pipe.buffers) /\ k[f] = Share(call'[f], pipe'.buffers)
  BY DEF Shares
<1>3. \A g \in Files \ {f} : k[g] = h[g]
  BY DEF Shares
<1> HIDE DEF h, k
<1>4. Total(h, Files) \in Int /\ Total(k, Files) = Total(h, Files) - h[f] + k[f]
  BY <1>1, <1>3, PipeConstants, TotalChange
<1>5. user_bufs = Base + Total(h, Files)
  BY DEF Charges, h
<1>6. h[f] \in Int /\ k[f] \in Int
  BY <1>1
<1>7. user_bufs' = Base' + Total(k, Files)
  BY <1>1, <1>2, <1>4, <1>5, <1>6
<1> QED
  BY <1>7 DEF Charges, k, pc

LEMMA ChargesStep ==
    ASSUME TypeOK, TypeOK', Charges, NEW f \in Files, Others(f),
           pipe'.buffers = pipe.buffers \/ \A g \in Files \ {f} : pc(g) # "setsize",
           call'[f].spare # 0 => call'[f].pc \in Sparing,
           user_bufs' - Base' - Share(call'[f], pipe'.buffers) = user_bufs - Base - Share(call[f], pipe.buffers)
    PROVE  Charges'
<1>1. ASSUME NEW g \in Files \ {f}
      PROVE  Share(call'[g], pipe'.buffers) = Share(call[g], pipe.buffers)
  <2>1. call'[g] = call[g] /\ (pipe'.buffers = pipe.buffers \/ call[g].pc # "setsize")
    BY DEF Others, pc
  <2> QED
    BY <2>1 DEF Share
<1>2. \A g \in Files : call'[g].spare # 0 => call'[g].pc \in Sparing
  BY DEF Charges, Others, pc
<1> QED
  BY <1>1, <1>2, ChargesMove

\* The steps that charge nothing and have no pages of their own.
LEMMA ChargesCalm ==
    ASSUME TypeOK, TypeOK', Charges, NEW f \in Files, Others(f),
           user_bufs' = user_bufs, i_pipe' = i_pipe, pipe'.buffers = pipe.buffers,
           call'[f].spare = 0 \/ call'[f].spare = call[f].spare,
           pc(f) \notin {"alloc", "check", "setsize"} \cup Sparing,
           call'[f].pc \notin {"alloc", "check", "setsize"}
    PROVE  Charges'
<1>1. call[f].spare = 0 /\ call'[f].spare = 0
  BY DEF Charges
<1>2. Share(call[f], pipe.buffers) = 0 /\ Share(call'[f], pipe'.buffers) = 0
  BY <1>1 DEF Share, pc
<1>3. Base' = Base
  BY DEF Base
<1> QED
  BY <1>1, <1>2, <1>3, ChargesStep

\* A call that ends, goes on or sleeps has no pages of its own afterwards that it did not have before.
KeepsSpare(f) == call'[f].spare = 0 \/ call'[f].spare = call[f].spare

LEMMA SpareReturns ==
    ASSUME TypeOK, NEW f \in Files, NEW at \in Pcs, Return(f, at) \/ Goto(f, at)
    PROVE  KeepsSpare(f)
BY ReturnStep, GotoStep DEF KeepsSpare

LEMMA SpareUnlocks ==
    ASSUME TypeOK, NEW f \in Files, NEW wake, Unlock(f, wake)
    PROVE  KeepsSpare(f)
<1>1. CASE wake
  <2> DEFINE c == [NoCall(WakeAt(f)) EXCEPT !.wake = TRUE]
  <2>1. call' = [call EXCEPT ![f] = c] /\ c.spare = 0
    BY <1>1 DEF Unlock, NoCall, WakeAt
  <2> HIDE DEF c
  <2> QED
    BY <2>1 DEF KeepsSpare, TypeOK
<1>2. CASE ~wake
  <2>1. Return(f, "idle")
    BY <1>2 DEF Unlock
  <2> QED
    BY <2>1, PcFacts, SpareReturns
<1> QED
  BY <1>1, <1>2

\* An assignment to other fields of a call.
LEMMA SpareStays ==
    ASSUME TypeOK, NEW f \in Files, NEW c, call' = [call EXCEPT ![f] = c], c.spare = 0 \/ c.spare = call[f].spare
    PROVE  KeepsSpare(f)
BY DEF KeepsSpare, TypeOK

LEMMA SpareReadWrite ==
    ASSUME TypeOK, NEW f \in Files, ReadWrite(f)
    PROVE  KeepsSpare(f)
<1>0. call[f] \in CallRecord /\ f \in DOMAIN call
  BY DEF TypeOK
<1>1. CASE ReadFault(f) \/ MergeFault(f) \/ WriteBroken(f) \/ WriteNoPage(f) \/ WriteFault(f)
  BY <1>1, SpareUnlocks DEF ReadFault, MergeFault, WriteBroken, WriteNoPage, WriteFault, Fails
<1>2. CASE ReadEmpty(f)
  BY <1>2, PcFacts, SpareUnlocks, SpareReturns DEF ReadEmpty
<1>3. CASE ReadBuffer(f)
  <2>1. \/ \E wake : Unlock(f, wake)
        \/ \E left, wake : call' = [call EXCEPT ![f].left = left, ![f].got = TRUE, ![f].wake = wake]
    BY <1>3 DEF ReadBuffer
  <2>2. ASSUME NEW left, NEW wake, call' = [call EXCEPT ![f].left = left, ![f].got = TRUE, ![f].wake = wake]
        PROVE  KeepsSpare(f)
    BY <1>0, <2>2 DEF KeepsSpare, CallRecord
  <2> QED
    BY <2>1, <2>2, SpareUnlocks
<1>4. CASE WriteMerge(f)
  <2>1. \/ \E wake : Unlock(f, wake)
        \/ Goto(f, "write")
        \/ \E left : call' = [call EXCEPT ![f].pc = "write", ![f].left = left, ![f].got = TRUE, ![f].wake = TRUE]
    BY <1>4 DEF WriteMerge
  <2>2. ASSUME NEW left, call' = [call EXCEPT ![f].pc = "write", ![f].left = left, ![f].got = TRUE, ![f].wake = TRUE]
        PROVE  KeepsSpare(f)
    BY <1>0, <2>2 DEF KeepsSpare, CallRecord
  <2> QED
    BY <2>1, <2>2, PcFacts, SpareUnlocks, SpareReturns
<1>5. CASE WriteBuffer(f)
  <2>1. \/ \E wake : Unlock(f, wake)
        \/ \E left : call' = [call EXCEPT ![f].left = left, ![f].got = TRUE, ![f].wake = TRUE]
    BY <1>5 DEF WriteBuffer
  <2>2. ASSUME NEW left, call' = [call EXCEPT ![f].left = left, ![f].got = TRUE, ![f].wake = TRUE]
        PROVE  KeepsSpare(f)
    BY <1>0, <2>2 DEF KeepsSpare, CallRecord
  <2> QED
    BY <2>1, <2>2, SpareUnlocks
<1>6. CASE WriteFull(f)
  <2>1. \/ \E wake : Unlock(f, wake)
        \/ \E seen : call' = [call EXCEPT ![f].pc = "wwait", ![f].wake = FALSE, ![f].seen = seen]
    BY <1>6 DEF WriteFull
  <2>2. ASSUME NEW seen, call' = [call EXCEPT ![f].pc = "wwait", ![f].wake = FALSE, ![f].seen = seen]
        PROVE  KeepsSpare(f)
    BY <1>0, <2>2 DEF KeepsSpare, CallRecord
  <2> QED
    BY <2>1, <2>2, SpareUnlocks
<1> QED
  BY <1>1, <1>2, <1>3, <1>4, <1>5, <1>6 DEF ReadWrite

LEMMA ChargesReadWrite ==
    ASSUME TypeOK, TypeOK', Charges, NEW f \in Files, ReadWrite(f), RWStep(f)
    PROVE  Charges'
<1>1. /\ user_bufs' = user_bufs /\ i_pipe' = i_pipe /\ pipe'.buffers = pipe.buffers /\ Others(f)
      /\ pc(f) \in {"read", "merge", "write"}
      /\ call'[f].pc \in {"read", "write", "wakein", "wakeout", "idle", "rwait", "wwait"}
  BY DEF RWStep, Common, RingStep, inodeVars, Stays, Ends, SleepsEmpty, SleepsFull, WakeAt
<1>2. KeepsSpare(f)
  BY SpareReadWrite
<1> QED
  BY <1>1, <1>2, ChargesCalm DEF KeepsSpare, Sparing

\* F_SETPIPE_SZ charges the pages it asks for at once, and gives up those it has or those it asked for.
LEMMA ChargesAsk ==
    ASSUME TypeOK, TypeOK', Charges, NEW f \in Files, NEW arg \in PageCounts, pipe_set_size(f, arg)
    PROVE  Charges'
<1> DEFINE n == roundup_pow_of_two(arg)
           charged == user_bufs - pipe.buffers + n
           c == [NoCall("setsize") EXCEPT !.left = n, !.seen = charged]
<1>1. /\ pc(f) = "idle" /\ user_bufs' = charged /\ call' = [call EXCEPT ![f] = c] /\ UNCHANGED <<i_pipe, pipe>>
  BY DEF pipe_set_size, Step, inodeVars, ringVars
<1>2. n \in Nat /\ user_bufs \in Int /\ pipe.buffers \in Nat
  <2>1. arg \in Nat \ {0}
    BY PipeConstants
  <2> QED
    BY <2>1, RoundupType DEF TypeOK, Ring
<1>3. c.pc = "setsize" /\ c.left = n /\ c.spare = 0
  BY DEF NoCall
<1> HIDE DEF c, n
<1>4. call'[f] = c /\ Others(f)
  BY <1>1 DEF TypeOK, Others
<1>5. Share(c, pipe.buffers) = n - pipe.buffers
  BY <1>2, <1>3 DEF Share
<1>6. call[f].spare = 0 /\ Share(call[f], pipe.buffers) = 0
  <2>1. call[f].spare = 0
    BY <1>1 DEF Charges, Sparing
  <2> QED
    BY <1>1, <2>1 DEF Share, pc
<1>7. Base' = Base /\ Base \in Int
  BY <1>1, <1>2 DEF Base
<1>8. user_bufs' - Base' - Share(call'[f], pipe'.buffers) = user_bufs - Base - Share(call[f], pipe.buffers)
  BY <1>1, <1>2, <1>4, <1>5, <1>6, <1>7
<1> QED
  BY <1>1, <1>3, <1>4, <1>8, ChargesStep

LEMMA ChargesResize ==
    ASSUME TypeOK, TypeOK', Charges, Counts, AllModes, NEW f \in Files, SetSize(f)
    PROVE  Charges'
<1> DEFINE n == call[f].left
<1>1. /\ pc(f) = "setsize" /\ Return(f, "idle") /\ i_pipe' = i_pipe
      /\ \/ pipe' = Resize(pipe, n) /\ user_bufs' = user_bufs
         \/ user_bufs' = user_bufs - n + pipe.buffers /\ pipe' = pipe
  BY DEF SetSize, Step, inodeVars
<1>2. n \in Nat /\ user_bufs \in Int /\ pipe.buffers \in Nat
  BY SpareType DEF TypeOK, Ring
<1>3. Others(f) /\ call'[f].pc = "idle" /\ call'[f].spare = 0
  BY <1>1, PcFacts, ReturnStep
<1>4. call[f].spare = 0
  BY <1>1 DEF Charges, Sparing
<1>5. Share(call[f], pipe.buffers) = n - pipe.buffers /\ Share(call'[f], pipe'.buffers) = 0
  BY <1>1, <1>2, <1>3, <1>4 DEF Share, pc
<1>6. i_pipe
  <2>1. f \in Hd
    BY <1>1, PcFacts DEF Hd
  <2>2. files > 0
    BY <2>1, CountTypes
  <2> QED
    BY <2>2, Zenon DEF Counts
<1>7. \A g \in Files \ {f} : pc(g) # "setsize"
  BY <1>1 DEF AllModes, Modes, InMutex
<1>8. user_bufs' - Base' - Share(call'[f], pipe'.buffers) = user_bufs - Base - Share(call[f], pipe.buffers)
  <2>1. Base = pipe.buffers /\ Base' = pipe'.buffers
    BY <1>1, <1>6 DEF Base
  <2>2. CASE pipe' = Resize(pipe, n) /\ user_bufs' = user_bufs
    <3>1. pipe'.buffers = n
      BY <2>2 DEF Resize
    <3> HIDE DEF n
    <3> QED
      BY <1>2, <1>5, <2>1, <2>2, <3>1
  <2>3. CASE user_bufs' = user_bufs - n + pipe.buffers /\ pipe' = pipe
    <3> HIDE DEF n
    <3> QED
      BY <1>2, <1>5, <2>1, <2>3
  <2> QED
    BY <1>1, <2>2, <2>3
<1> QED
  BY <1>3, <1>7, <1>8, ChargesStep

LEMMA ChargesQuiet ==
    ASSUME TypeOK, TypeOK', Charges, Counts, AllModes, NEW f \in Files, Quiet(f)
    PROVE  Charges'
<1>0. call[f] \in CallRecord /\ f \in DOMAIN call /\ call \in [Files -> CallRecord]
  BY DEF TypeOK
<1>1. CASE \E arg \in PageCounts : pipe_set_size(f, arg)
  BY <1>1, ChargesAsk
<1>2. CASE SetSize(f)
  BY <1>2, ChargesResize
<1>3. CASE PartnerCame(f) \/ WakeOthers(f) \/ PollReports(f) \/ Poll(f) \/ PollAgain(f)
  <2>1. /\ Return(f, "idle") \/ Goto(f, "poll")
        /\ pc(f) \in {"partner", "wakein", "wakeout", "polled", "idle"} /\ UNCHANGED <<user_bufs, i_pipe, pipe>>
    BY <1>3 DEF PartnerCame, WakeOthers, PollReports, Poll, PollAgain, Step, inodeVars, ringVars
  <2>2. KeepsSpare(f) /\ Others(f) /\ call'[f].pc \in {"idle", "poll"}
    BY <2>1, PcFacts, SpareReturns, ReturnStep, GotoStep
  <2> QED
    BY <2>1, <2>2, ChargesCalm DEF KeepsSpare, Sparing
<1>4. CASE \E n \in Lengths : Read(f, n) \/ Write(f, n)
  <2>1. PICK n \in Lengths, at \in {"read", "merge"} : Call(f, n, at)
    BY <1>4 DEF Read, Write
  <2> DEFINE c == [NoCall(at) EXCEPT !.left = n]
  <2>2. call' = [call EXCEPT ![f] = c] /\ pc(f) = "idle" /\ UNCHANGED <<user_bufs, i_pipe, pipe>>
    BY <2>1 DEF Call, Step, inodeVars, ringVars
  <2>3. c.pc = at /\ c.spare = 0
    BY DEF NoCall
  <2> HIDE DEF c
  <2>4. call'[f] = c /\ Others(f)
    BY <1>0, <2>2 DEF Others
  <2> QED
    BY <2>1, <2>2, <2>3, <2>4, ChargesCalm DEF Sparing
<1>5. CASE ReadAwake(f) \/ WriteAwake(f) \/ PollBuffers(f)
  <2>1. PICK to \in {"read", "write", "polled"}, seen \in Int : SetsSeen(f, to, seen)
    <3>1. 0 \in Int /\ pipe.nrbufs \in Int
      BY DEF TypeOK, Ring, Rings
    <3> QED
      BY <1>5, <3>1 DEF ReadAwake, WriteAwake, PollBuffers, Resume, SetsSeen
  <2>2. pc(f) \in {"rwait", "wwait", "poll"} /\ UNCHANGED <<user_bufs, i_pipe, pipe>>
    BY <1>5 DEF ReadAwake, WriteAwake, PollBuffers, Resume, Step, inodeVars, ringVars
  <2>3. call'[f].pc = to /\ Others(f)
    BY <2>1, PcFacts, PcAndSeen
  <2>4. call'[f].spare = call[f].spare
    BY <1>0, <2>1 DEF SetsSeen, CallRecord
  <2> QED
    BY <2>1, <2>2, <2>3, <2>4, ChargesCalm DEF Sparing
<1>6. CASE Signal(f) \/ (NoPartner(f) /\ f \notin signalled)
  <2>1. UNCHANGED <<call, user_bufs, i_pipe, pipe>>
    BY <1>6 DEF Signal, NoPartner, inodeVars, ringVars
  <2> QED
    BY <2>1 DEF Charges, Base, pc
<1> QED
  BY <1>1, <1>2, <1>3, <1>4, <1>5, <1>6 DEF Quiet

LEMMA ChargesJoin ==
    ASSUME TypeOK, TypeOK', Charges, NEW f \in Files, OpenRead(f) \/ OpenWrite(f) \/ OpenBoth(f)
    PROVE  Charges'
<1>1. /\ Return(f, "idle") \/ Goto(f, "partner")
      /\ pc(f) = "register" /\ UNCHANGED <<user_bufs, i_pipe, pipe>>
  BY DEF OpenRead, OpenWrite, OpenBoth, WaitForPartner, Step, inodeVars, ringVars
<1>2. KeepsSpare(f) /\ Others(f) /\ call'[f].pc \in {"idle", "partner"}
  BY <1>1, PcFacts, SpareReturns, ReturnStep, GotoStep
<1> QED
  BY <1>1, <1>2, ChargesCalm DEF KeepsSpare, Sparing

LEMMA ChargesLeave ==
    ASSUME TypeOK, TypeOK', Charges, NEW f \in Files, (NoPartner(f) /\ f \in signalled) \/ pipe_release(f)
    PROVE  Charges'
<1>1. Goto(f, "put") /\ pc(f) \in {"partner", "idle", "close"} /\ UNCHANGED <<user_bufs, i_pipe, pipe>>
  BY DEF NoPartner, pipe_release, Step, inodeVars, ringVars
<1>2. KeepsSpare(f) /\ Others(f) /\ call'[f].pc = "put"
  BY <1>1, PcFacts, SpareReturns, GotoStep
<1> QED
  BY <1>1, <1>2, ChargesCalm DEF KeepsSpare, Sparing

\* alloc_pipe_info charges first, and checks and takes back what was too much afterwards.
LEMMA ChargesAlloc ==
    ASSUME TypeOK, TypeOK', Charges, NEW f \in Files, AllocAccount(f) \/ AllocCheck(f) \/ AllocBuffers(f)
    PROVE  Charges'
<1>0. /\ call[f] \in CallRecord /\ f \in DOMAIN call /\ user_bufs \in Int /\ DefaultBuffers \in Nat
      /\ PIPE_MIN_DEF_BUFFERS \in Nat /\ Base \in Int
  BY Sizes DEF TypeOK, Ring, Base
<1>1. pc(f) \in {"account", "alloc", "check"} /\ UNCHANGED <<i_pipe, pipe>>
  BY DEF AllocAccount, AllocCheck, AllocBuffers, Step, inodeVars, ringVars
<1>2. Base' = Base /\ call[f].spare = 0
  BY <1>1 DEF Base, Charges, Sparing
<1>3. CASE AllocAccount(f)
  <2>1. pc(f) = "account" /\ Share(call[f], pipe.buffers) = 0
    BY <1>2, <1>3 DEF AllocAccount, Step, Share, pc
  <2>2. CASE /\ user_bufs' = user_bufs + DefaultBuffers
             /\ call' = [call EXCEPT ![f].pc = "alloc", ![f].seen = user_bufs + DefaultBuffers]
    <3> DEFINE n == user_bufs + DefaultBuffers
    <3>1. SetsSeen(f, "alloc", n) /\ n \in Int
      BY <1>0, <2>2 DEF SetsSeen
    <3> HIDE DEF n
    <3>2. Others(f) /\ call'[f].pc = "alloc"
      BY <3>1, PcFacts, PcAndSeen
    <3>3. call'[f].spare = call[f].spare
      BY <1>0, <3>1 DEF SetsSeen, CallRecord
    <3>4. Share(call'[f], pipe'.buffers) = DefaultBuffers
      BY <1>0, <1>2, <3>2, <3>3 DEF Share
    <3>5. user_bufs' - Base' - Share(call'[f], pipe'.buffers) = user_bufs - Base - Share(call[f], pipe.buffers)
      BY <1>0, <1>2, <2>1, <2>2, <3>4
    <3> QED
      BY <1>1, <1>2, <3>2, <3>3, <3>5, ChargesStep
  <2>3. CASE Return(f, "closed") /\ UNCHANGED user_bufs
    <3>1. Others(f) /\ call'[f].pc = "closed" /\ call'[f].spare = 0
      BY <2>3, PcFacts, ReturnStep
    <3> QED
      BY <1>1, <2>1, <2>3, <3>1, ChargesCalm DEF Sparing
  <2> QED
    BY <1>3, <2>2, <2>3 DEF AllocAccount
<1>4. CASE AllocCheck(f)
  <2>1. PICK n \in Nat \ {0} :
             /\ pc(f) = "alloc" /\ user_bufs' = user_bufs - DefaultBuffers + n
             /\ Others(f) /\ call'[f].pc = "check" /\ call'[f].left = n /\ call'[f].spare = call[f].spare
    BY <1>4, Corrected
  <2>2. Share(call[f], pipe.buffers) = DefaultBuffers /\ Share(call'[f], pipe'.buffers) = n
    BY <1>0, <1>2, <2>1 DEF Share, pc
  <2>3. user_bufs' - Base' - Share(call'[f], pipe'.buffers) = user_bufs - Base - Share(call[f], pipe.buffers)
    BY <1>0, <1>2, <2>1, <2>2
  <2> QED
    BY <1>1, <1>2, <2>1, <2>3, ChargesStep
<1>5. CASE AllocBuffers(f)
  <2> DEFINE n == call[f].left
  <2>1. pc(f) = "check" /\ n \in Nat /\ Share(call[f], pipe.buffers) = n
    <3>1. pc(f) = "check" /\ n \in Nat
      BY <1>5, SpareType DEF AllocBuffers, Step
    <3> QED
      BY <1>2, <3>1 DEF Share, pc
  <2>2. CASE /\ call' = [call EXCEPT ![f] = [NoCall("install") EXCEPT !.spare = n]]
             /\ UNCHANGED user_bufs
    <3>1. Others(f) /\ call'[f].pc = "install" /\ call'[f].spare = n
      BY <2>1, <2>2, Allocated
    <3> HIDE DEF n
    <3>2. Share(call'[f], pipe'.buffers) = n
      BY <2>1, <3>1 DEF Share
    <3>3. user_bufs' - Base' - Share(call'[f], pipe'.buffers) = user_bufs - Base - Share(call[f], pipe.buffers)
      BY <1>0, <1>2, <2>1, <2>2, <3>2
    <3> QED
      BY <1>1, <3>1, <3>3, ChargesStep DEF Sparing
  <2>3. CASE user_bufs' = user_bufs - n /\ Return(f, "closed")
    <3>1. Others(f) /\ call'[f].pc = "closed" /\ call'[f].spare = 0
      BY <2>3, PcFacts, ReturnStep
    <3>2. Share(call'[f], pipe'.buffers) = 0
      BY <3>1 DEF Share
    <3> HIDE DEF n
    <3>3. user_bufs' - Base' - Share(call'[f], pipe'.buffers) = user_bufs - Base - Share(call[f], pipe.buffers)
      BY <1>0, <1>2, <2>1, <2>3, <3>2
    <3> QED
      BY <1>1, <3>1, <3>3, ChargesStep
  <2> QED
    BY <1>5, <2>2, <2>3 DEF AllocBuffers
<1> QED
  BY <1>3, <1>4, <1>5

\* A pipe that is freed was its caller's own.
LEMMA ChargesFree ==
    ASSUME TypeOK, TypeOK', Charges, NEW f \in Files, DiscardPipe(f) \/ CreateFailed(f) \/ FreeLast(f)
    PROVE  Charges'
<1>1. /\ pc(f) \in Sparing /\ UNCHANGED <<i_pipe, pipe>> /\ user_bufs' = user_bufs - call[f].spare
  BY DEF DiscardPipe, CreateFailed, FreeLast, FreePipe, Step, Sparing, inodeVars, ringVars
<1>2. Others(f) /\ call'[f].spare = 0 /\ call'[f].pc \in {"register", "closed"}
  <2>1. CASE DiscardPipe(f)
    <3>1. call' = [call EXCEPT ![f].pc = "register", ![f].spare = 0]
      BY <2>1 DEF DiscardPipe
    <3> QED
      BY <3>1, PcFacts, PcAndSpare
  <2>2. CASE CreateFailed(f) \/ FreeLast(f)
    <3>1. Return(f, "closed")
      BY <2>2 DEF CreateFailed, FreeLast
    <3> QED
      BY <3>1, PcFacts, ReturnStep
  <2> QED
    BY <2>1, <2>2
<1>3. user_bufs \in Int /\ call[f].spare \in Nat /\ Base \in Int /\ Base' = Base
  BY <1>1, SpareType DEF TypeOK, Ring, Base
<1>4. Share(call[f], pipe.buffers) = call[f].spare /\ Share(call'[f], pipe'.buffers) = 0
  BY <1>1, <1>2, <1>3 DEF Share, Sparing, pc
<1>5. user_bufs' - Base' - Share(call'[f], pipe'.buffers) = user_bufs - Base - Share(call[f], pipe.buffers)
  BY <1>1, <1>3, <1>4
<1> QED
  BY <1>1, <1>2, <1>5, ChargesStep

LEMMA ChargesOutside ==
    ASSUME TypeOK, TypeOK', Charges, NEW f \in Files, Outside(f)
    PROVE  Charges'
<1>1. CASE AllocAccount(f) \/ AllocCheck(f) \/ AllocBuffers(f)
  BY <1>1, ChargesAlloc
<1>2. CASE DiscardPipe(f) \/ CreateFailed(f) \/ FreeLast(f)
  BY <1>2, ChargesFree
<1>3. CASE InstallPipe(f) /\ i_pipe
  <2>1. pc(f) = "install" /\ Goto(f, "discard") /\ UNCHANGED <<user_bufs, i_pipe, pipe>>
    BY <1>3 DEF InstallPipe, Step, inodeVars, ringVars
  <2>2. Others(f) /\ call'[f].pc = "discard" /\ call'[f].spare = call[f].spare
    BY <2>1, PcFacts, GotoStep
  <2>3. Share(call'[f], pipe'.buffers) = Share(call[f], pipe.buffers) /\ Base' = Base
    BY <2>1, <2>2 DEF Share, Base, pc
  <2> QED
    BY <2>1, <2>2, <2>3, ChargesStep DEF Sparing
<1>4. CASE \/ \E k \in Kinds : fifo_open(f, k) \/ sys_pipe(f, k)
           \/ OpenRefused(f) \/ (put_pipe_info(f) /\ files # 1)
  <2>1. /\ \E at \in {"register", "account", "put", "closed"} : Goto(f, at) \/ Return(f, at)
        /\ pc(f) \in {"closed", "register", "put"} /\ UNCHANGED <<user_bufs, i_pipe, pipe>>
    BY <1>4 DEF fifo_open, sys_pipe, OpenRefused, put_pipe_info, Step, inodeVars, ringVars
  <2>2. KeepsSpare(f) /\ Others(f) /\ call'[f].pc \in {"register", "account", "put", "closed"}
    BY <2>1, PcFacts, SpareReturns, ReturnStep, GotoStep
  <2> QED
    BY <2>1, <2>2, ChargesCalm DEF KeepsSpare, Sparing
<1> QED
  BY <1>1, <1>2, <1>3, <1>4 DEF Outside

\* The pages go from the caller to the inode, or back.
LEMMA ChargesFresh ==
    ASSUME TypeOK, TypeOK', Charges, Counts, AllModes, NEW f \in Files, FreshStep(f),
           (InstallPipe(f) /\ ~i_pipe) \/ (put_pipe_info(f) /\ files = 1)
    PROVE  Charges'
<1>0. user_bufs \in Int /\ call[f].spare \in Nat /\ pipe.buffers \in Nat
  BY SpareType DEF TypeOK, Ring
<1>1. \A g \in Files \ {f} : pc(g) # "setsize"
  BY NobodyThere, PcFacts DEF FreshStep
<1>2. CASE InstallPipe(f) /\ ~i_pipe
  <2>1. /\ pc(f) = "install" /\ i_pipe' = TRUE /\ user_bufs' = user_bufs /\ pipe' = EmptyRing(call[f].spare)
        /\ call' = [call EXCEPT ![f].pc = "register", ![f].spare = 0]
    BY <1>2 DEF InstallPipe, NewPipe, Step
  <2>2. Others(f) /\ call'[f].pc = "register" /\ call'[f].spare = 0
    BY <2>1, PcFacts, PcAndSpare
  <2>3. Share(call[f], pipe.buffers) = call[f].spare /\ Share(call'[f], pipe'.buffers) = 0
    BY <1>0, <2>1, <2>2 DEF Share, pc
  <2>4. Base = 0 /\ Base' = call[f].spare
    BY <1>2, <2>1 DEF Base, EmptyRing
  <2>5. user_bufs' - Base' - Share(call'[f], pipe'.buffers) = user_bufs - Base - Share(call[f], pipe.buffers)
    BY <1>0, <2>1, <2>3, <2>4
  <2> QED
    BY <1>1, <2>2, <2>5, ChargesStep
<1>3. CASE put_pipe_info(f) /\ files = 1
  <2> DEFINE c == [NoCall("free") EXCEPT !.spare = pipe.buffers]
  <2>1. pc(f) = "put" /\ i_pipe' = FALSE /\ user_bufs' = user_bufs /\ call' = [call EXCEPT ![f] = c]
    BY <1>3 DEF put_pipe_info, Step
  <2>2. c.pc = "free" /\ c.spare = pipe.buffers
    BY DEF NoCall
  <2> HIDE DEF c
  <2>3. Others(f) /\ call'[f] = c
    BY <2>1 DEF Others, TypeOK
  <2>4. i_pipe
    <3>1. files > 0
      BY <1>3
    <3> QED
      BY <3>1, Zenon DEF Counts
  <2>5. call[f].spare = 0
    BY <2>1 DEF Charges, Sparing
  <2>6. Share(call[f], pipe.buffers) = 0 /\ Share(call'[f], pipe'.buffers) = pipe.buffers
    BY <1>0, <2>1, <2>2, <2>3, <2>5 DEF Share, pc
  <2>7. Base = pipe.buffers /\ Base' = 0
    BY <2>1, <2>4 DEF Base
  <2>8. user_bufs' - Base' - Share(call'[f], pipe'.buffers) = user_bufs - Base - Share(call[f], pipe.buffers)
    BY <1>0, <2>1, <2>6, <2>7
  <2> QED
    BY <1>1, <2>2, <2>3, <2>8, ChargesStep DEF Sparing
<1> QED
  BY <1>2, <1>3

\* pipe() gives its pages to the inode, and has a second file.
LEMMA ChargesCreate ==
    ASSUME TypeOK, TypeOK', Charges, Makers, Counts, NEW f \in Files, NEW g \in Files, CreatePipeFiles(f, g)
    PROVE  Charges'
<1>1. /\ pc(f) = "install" /\ pc(g) = "closed" /\ is_pipe /\ i_pipe' = TRUE /\ user_bufs' = user_bufs
      /\ pipe' = EmptyRing(call[f].spare)
  BY DEF CreatePipeFiles, NewPipe, Step
<1>2. PICK at \in {"idle", "close"} : call' = [call EXCEPT ![f] = NoCall(at), ![g] = NoCall(at)]
  BY DEF CreatePipeFiles
<1>3. NoCall(at).pc = at /\ NoCall(at).spare = 0
  BY DEF NoCall
<1>4. f # g /\ call'[f] = NoCall(at) /\ call'[g] = NoCall(at) /\ \A h \in Files \ {f, g} : call'[h] = call[h]
  <2>1. f # g
    BY <1>1
  <2> QED
    BY <1>2, <2>1 DEF TypeOK
<1>5. \A h \in Files \ {f} : pc(h) \in {"closed", "free"}
  BY <1>1 DEF Makers, Making
<1>6. ~i_pipe
  <2>1. Hd = {}
    BY <1>1, <1>5, PcFacts DEF Hd
  <2>2. files = 0
    BY <2>1, FS_EmptySet DEF Counts
  <2>3. ~(files > 0)
    BY <2>2
  <2> QED
    BY <2>3, Zenon DEF Counts
<1>7. user_bufs \in Int /\ call[f].spare \in Nat
  BY SpareType DEF TypeOK
<1>8. call[g].spare = 0
  BY <1>1 DEF Charges, Sparing
<1>9. ASSUME NEW h \in Files \ {f}
      PROVE  Share(call'[h], pipe'.buffers) = Share(call[h], pipe.buffers)
  <2>1. CASE h = g
    BY <1>1, <1>2, <1>3, <1>4, <1>8, <2>1 DEF Share, pc
  <2>2. CASE h # g
    BY <1>4, <1>5, <2>2 DEF Share, pc
  <2> QED
    BY <2>1, <2>2
<1>10. \A h \in Files : call'[h].spare # 0 => call'[h].pc \in Sparing
  BY <1>3, <1>4 DEF Charges, pc
<1>11. Share(call[f], pipe.buffers) = call[f].spare /\ Share(call'[f], pipe'.buffers) = 0
  BY <1>1, <1>2, <1>3, <1>4, <1>7 DEF Share, pc
<1>12. Base = 0 /\ Base' = call[f].spare
  BY <1>1, <1>6 DEF Base, EmptyRing
<1>13. user_bufs' - Base' - Share(call'[f], pipe'.buffers) = user_bufs - Base - Share(call[f], pipe.buffers)
  BY <1>1, <1>7, <1>11, <1>12
<1> QED
  BY <1>9, <1>10, <1>13, ChargesMove

LEMMA ChargesInit == Init => Charges
<1> SUFFICES ASSUME Init
             PROVE  Charges
  OBVIOUS
<1>1. call = [f \in Files |-> NoCall("closed")] /\ i_pipe = FALSE /\ user_bufs = 0
  BY DEF Init
<1>2. \A f \in Files : call[f].spare = 0 /\ call[f].pc = "closed"
  BY <1>1 DEF NoCall
<1>3. Shares(call, pipe.buffers) = [f \in Files |-> 0]
  BY <1>2 DEF Shares, Share
<1>4. Total(Shares(call, pipe.buffers), Files) = 0
  BY <1>3, PipeConstants, TotalZero
<1>5. Base = 0
  BY <1>1 DEF Base
<1> QED
  BY <1>1, <1>2, <1>4, <1>5 DEF Charges

LEMMA ChargesNext == Inv /\ Inv' /\ Charges /\ [Next]_vars => Charges'
<1> SUFFICES ASSUME Inv, Inv', Charges, [Next]_vars
             PROVE  Charges'
  OBVIOUS
<1>0. TypeOK /\ TypeOK' /\ Counts /\ Makers /\ AllModes
  BY DEF Inv
<1>1. CASE UNCHANGED vars
  <2>1. UNCHANGED <<call, pipe, i_pipe, user_bufs>>
    BY <1>1 DEF vars, inodeVars, ringVars
  <2> QED
    BY <2>1 DEF Charges, Base, pc
<1>2. CASE Next
  <2>1. PICK f \in Files :
             \/ ReadWrite(f) \/ Quiet(f) \/ Outside(f)
             \/ (InstallPipe(f) /\ ~i_pipe) \/ (put_pipe_info(f) /\ files = 1)
             \/ OpenRead(f) \/ OpenWrite(f) \/ OpenBoth(f)
             \/ (NoPartner(f) /\ f \in signalled) \/ pipe_release(f)
             \/ \E g \in Files : CreatePipeFiles(f, g)
    BY <1>2, StepKinds
  <2>2. CASE ReadWrite(f)
    <3>1. RWStep(f)
      BY <2>2, ReadWriteStep DEF Inv, Start, AllModes, Modes
    <3> QED
      BY <1>0, <2>2, <3>1, ChargesReadWrite
  <2>3. CASE (InstallPipe(f) /\ ~i_pipe) \/ (put_pipe_info(f) /\ files = 1)
    <3>1. FreshStep(f)
      BY <1>0, <2>3, FreshSteps
    <3> QED
      BY <1>0, <2>3, <3>1, ChargesFresh
  <2> QED
    BY <1>0, <2>1, <2>2, <2>3, ChargesQuiet, ChargesOutside, ChargesJoin, ChargesLeave, ChargesCreate
<1> QED
  BY <1>1, <1>2

\* Only the holder of the mutex changes the size, so its pages are the only ones counted twice.
LEMMA ChargesSuffice ==
    ASSUME TypeOK, AllModes, Charges
    PROVE  ChargesExact
<1> DEFINE spare == [f \in Files |-> call[f].spare]
           asked == [f \in Files |-> CASE pc(f) = "alloc" -> DefaultBuffers
                                       [] pc(f) \in {"check", "setsize"} -> call[f].left
                                       [] OTHER -> 0]
           both == [f \in Files |-> spare[f] + asked[f]]
           kept == IF mutex # NULL /\ pc(mutex) = "setsize" THEN pipe.buffers ELSE 0
           shares == Shares(call, pipe.buffers)
<1>1. /\ pipe.buffers \in Nat /\ user_bufs \in Int /\ Base \in Int /\ DefaultBuffers \in Nat
      /\ call \in [Files -> CallRecord]
  BY Sizes DEF TypeOK, Ring, Base
<1>2. ASSUME NEW f \in Files
      PROVE  /\ spare[f] = call[f].spare /\ spare[f] \in Int
             /\ asked[f] = IF pc(f) = "alloc" THEN DefaultBuffers ELSE
                          IF pc(f) \in {"check", "setsize"} THEN call[f].left ELSE 0
             /\ asked[f] \in Int
  BY <1>1, SpareType
<1>3. \A f \in Files : shares[f] = Share(call[f], pipe.buffers)
  BY DEF Shares
<1>4. shares \in [Files -> Int]
  BY <1>1, SharesType
<1>5. spare \in [Files -> Int] /\ asked \in [Files -> Int]
  BY <1>2
<1>6. both \in [Files -> Int] /\ \A f \in Files : both[f] = spare[f] + asked[f]
  BY <1>2
<1>7. PipePages = Base + Total(spare, Files)
  BY DEF PipePages, Base, Total
<1>8. user_bufs = Base + Total(shares, Files)
  BY DEF Charges
<1>9. ChargesExact <=> user_bufs + kept = PipePages + Total(asked, Files)
  BY DEF ChargesExact, Total
<1> HIDE DEF spare, asked, both, shares
<1>10. /\ Total(spare, Files) \in Int /\ Total(asked, Files) \in Int
       /\ Total(both, Files) = Total(spare, Files) + Total(asked, Files)
  BY <1>5, <1>6, PipeConstants, TotalAdd
<1>11. \A f \in Files : shares[f] = both[f] - (IF pc(f) = "setsize" THEN pipe.buffers ELSE 0)
  <2> TAKE f \in Files
  <2>1. call[f].spare \in Nat /\ call[f].left \in Nat
    BY SpareType
  <2> QED
    BY <1>1, <1>2, <1>3, <1>6, <2>1 DEF Share, pc
<1>12. Total(shares, Files) = Total(both, Files) - kept
  <2>1. CASE \A f \in Files : pc(f) # "setsize"
    <3>1. kept = 0
      BY <2>1 DEF TypeOK
    <3>2. \A f \in Files : shares[f] = both[f]
      BY <1>6, <1>11, <2>1
    <3>3. shares = both
      BY <1>4, <1>6, <3>2
    <3> QED
      BY <1>10, <3>1, <3>3
  <2>2. ASSUME NEW f \in Files, pc(f) = "setsize"
        PROVE  Total(shares, Files) = Total(both, Files) - kept
    <3>1. mutex = f
      BY <2>2 DEF AllModes, Modes, InMutex
    <3>2. kept = pipe.buffers
      BY <2>2, <3>1, NullNotFile
    <3>3. \A g \in Files \ {f} : pc(g) # "setsize"
      BY <3>1 DEF AllModes, Modes, InMutex
    <3>4. \A g \in Files \ {f} : shares[g] = both[g]
      BY <1>6, <1>11, <3>3
    <3>5. shares[f] = both[f] - pipe.buffers /\ both[f] \in Int
      BY <1>6, <1>11, <2>2
    <3>6. Total(both, Files) \in Int /\ Total(shares, Files) = Total(both, Files) - both[f] + shares[f]
      BY <1>4, <1>6, <3>4, PipeConstants, TotalChange
    <3> HIDE DEF kept
    <3> QED
      BY <1>1, <3>2, <3>5, <3>6
  <2> QED
    BY <2>1, <2>2
<1>13. kept \in Int
  BY <1>1
<1> HIDE DEF kept
<1> QED
  BY <1>1, <1>7, <1>8, <1>9, <1>10, <1>12, <1>13

\* user->pipe_bufs is exactly what the pipes have and what is being asked for, however
\* alloc_pipe_info, pipe_set_size and free_pipe_info overlap: a charge that is refused is taken
\* back in full, and none is lost when two openers make a pipe for one inode.
THEOREM ChargesExactHolds == Spec => []ChargesExact
<1>1. Spec => [](Inv /\ Charges)
  BY InvInit, InvStep, ChargesInit, ChargesNext, PTL DEF Spec
<1>2. Inv /\ Charges => ChargesExact
  BY ChargesSuffice DEF Inv
<1> QED
  BY <1>1, <1>2, PTL
=============================================================================
