----------------------------- MODULE FiniteSums -----------------------------
(***************************************************************************)
(* The least element of a set of naturals, and sums over finite sets.      *)
(***************************************************************************)
EXTENDS Integers, FiniteSets, FiniteSetsExt, FiniteSetTheorems, WellFoundedInduction, TLAPS

\* A set of naturals that is not empty has a least element.
LEMMA LeastNatural ==
    ASSUME NEW S \in SUBSET Nat, S # {}
    PROVE  \E n \in S : \A k \in S : n <= k
<1> DEFINE R == OpToRel(<, Nat)
<1>1. IsWellFoundedOn(R, Nat)
  BY NatLessThanWellFounded
<1>2. \A x, y \in Nat : x < y => <<x, y>> \in R
  BY DEF OpToRel
<1> HIDE DEF R
<1>3. PICK n \in S : \A k \in S : ~(<<k, n>> \in R)
  BY <1>1, WFMin
<1>4. \A k \in S : ~(k < n)
  BY <1>2, <1>3
<1> QED
  BY <1>4

Pick(s) == CHOOSE x \in s : TRUE
AddNext(h, f, s) == IF s = {} THEN 0 ELSE h[Pick(s)] + f[s \ {Pick(s)}]
UpTo(S, n) == {s \in SUBSET S : Cardinality(s) <= n}
Total(h, S) == MapThenSumSet(LAMBDA x : h[x], S)

\* What is left of a set without one of its members.
LEMMA OneLess ==
    ASSUME NEW S, IsFiniteSet(S), NEW s \in SUBSET S
    PROVE  /\ IsFiniteSet(s) /\ Cardinality(s) \in Nat
           /\ \A x \in s : /\ s \ {x} \in SUBSET S /\ IsFiniteSet(s \ {x})
                           /\ Cardinality(s \ {x}) = Cardinality(s) - 1 /\ Cardinality(s) >= 1
<1>1. IsFiniteSet(s) /\ Cardinality(s) \in Nat
  BY FS_Subset, FS_CardinalityType
<1>2. ASSUME NEW x \in s
      PROVE  /\ s \ {x} \in SUBSET S /\ IsFiniteSet(s \ {x})
             /\ Cardinality(s \ {x}) = Cardinality(s) - 1 /\ Cardinality(s) >= 1
  <2>1. IsFiniteSet(s \ {x}) /\ Cardinality(s \ {x}) = Cardinality(s) - 1
    BY <1>1, FS_RemoveElement
  <2>2. Cardinality(s \ {x}) \in Nat
    BY <2>1, FS_CardinalityType
  <2> QED
    BY <1>1, <2>1, <2>2
<1> QED
  BY <1>1, <1>2

\* Induction over the subsets of a finite set.
LEMMA BySubsets ==
    ASSUME NEW S, IsFiniteSet(S), NEW G,
           \A s \in SUBSET S : (\A r \in SUBSET s : r # s => r \in G) => s \in G
    PROVE  \A s \in SUBSET S : s \in G
<1> DEFINE Bad == {Cardinality(s) : s \in (SUBSET S) \ G}
<1> SUFFICES ASSUME Bad # {} PROVE FALSE
  OBVIOUS
<1>1. Bad \in SUBSET Nat
  <2>1. \A s \in SUBSET S : Cardinality(s) \in Nat
    BY OneLess
  <2> QED
    BY <2>1
<1>2. PICK m \in Bad : \A k \in Bad : m <= k
  <2> HIDE DEF Bad
  <2> QED
    BY <1>1, LeastNatural
<1>3. PICK s \in (SUBSET S) \ G : m = Cardinality(s)
  BY <1>2
<1>4. PICK r \in SUBSET s : r # s /\ r \notin G
  BY <1>3
<1>5. r \in SUBSET S /\ IsFiniteSet(s) /\ Cardinality(s) \in Nat
  BY OneLess
<1>6. Cardinality(r) < Cardinality(s) /\ Cardinality(r) \in Nat
  BY <1>4, <1>5, FS_Subset, FS_CardinalityType
<1>7. Cardinality(r) \in Bad
  BY <1>4, <1>5
<1> HIDE DEF Bad
<1> QED
  BY <1>2, <1>3, <1>5, <1>6, <1>7

LEMMA SumExists ==
    ASSUME NEW h, NEW S, IsFiniteSet(S)
    PROVE  \E f : f = [s \in SUBSET S |-> AddNext(h, f, s)]
<1> DEFINE Is(f, n) == f = [s \in UpTo(S, n) |-> AddNext(h, f, s)]
           Bad == {n \in Nat : ~\E f : Is(f, n)}
<1>1. CASE Bad = {}
  <2>1. Cardinality(S) \in Nat
    BY FS_CardinalityType
  <2>2. PICK f : Is(f, Cardinality(S))
    BY <1>1, <2>1
  <2>3. UpTo(S, Cardinality(S)) = SUBSET S
    BY FS_Subset DEF UpTo
  <2> QED
    BY <2>2, <2>3
<1>2. CASE Bad # {}
  <2>1. PICK m \in Bad : \A k \in Bad : m <= k
    <3>1. Bad \in SUBSET Nat
      OBVIOUS
    <3> HIDE DEF Bad
    <3> QED
      BY <1>2, <3>1, LeastNatural
  <2>2. m # 0
    <3> SUFFICES ASSUME m = 0 PROVE FALSE
      OBVIOUS
    <3>1. \A s \in UpTo(S, 0) : s = {}
      <4> SUFFICES ASSUME NEW s \in UpTo(S, 0), NEW x \in s PROVE FALSE
        OBVIOUS
      <4>1. s \in SUBSET S /\ Cardinality(s) <= 0
        BY DEF UpTo
      <4>2. Cardinality(s) >= 1 /\ Cardinality(s) \in Nat
        BY <4>1, OneLess
      <4> QED
        BY <4>1, <4>2
    <3>2. [s \in UpTo(S, 0) |-> 0] = [s \in UpTo(S, 0) |-> AddNext(h, [r \in UpTo(S, 0) |-> 0], s)]
      BY <3>1 DEF AddNext
    <3>3. \E f : Is(f, 0)
      BY <3>2
    <3> QED
      BY <3>3
  <2>3. m - 1 \in Nat /\ m - 1 \notin Bad /\ m \in Nat
    BY <2>1, <2>2
  <2>4. PICK g : Is(g, m - 1)
    BY <2>3
  <2> DEFINE f == [s \in UpTo(S, m) |-> AddNext(h, g, s)]
  <2>5. ASSUME NEW s \in UpTo(S, m), s # {}
        PROVE  s \ {Pick(s)} \in UpTo(S, m - 1) /\ s \ {Pick(s)} \in UpTo(S, m)
    <3>1. Pick(s) \in s
      BY <2>5 DEF Pick
    <3>2. s \in SUBSET S /\ Cardinality(s) <= m
      BY DEF UpTo
    <3>3. /\ s \ {Pick(s)} \in SUBSET S /\ Cardinality(s) \in Nat
          /\ Cardinality(s \ {Pick(s)}) = Cardinality(s) - 1
      BY <3>1, <3>2, OneLess
    <3>4. Cardinality(s \ {Pick(s)}) <= m - 1 /\ Cardinality(s \ {Pick(s)}) <= m
      BY <2>3, <3>2, <3>3
    <3> QED
      BY <3>3, <3>4 DEF UpTo
  <2>6. ASSUME NEW s \in UpTo(S, m - 1)
        PROVE  s \in UpTo(S, m) /\ f[s] = g[s]
    <3>1. s \in UpTo(S, m)
      <4>1. s \in SUBSET S /\ Cardinality(s) \in Nat /\ Cardinality(s) <= m - 1
        BY OneLess DEF UpTo
      <4> QED
        BY <2>3, <4>1 DEF UpTo
    <3> QED
      BY <2>4, <3>1
  <2>7. ASSUME NEW s \in UpTo(S, m)
        PROVE  f[s] = AddNext(h, f, s)
    <3>1. CASE s = {}
      BY <3>1 DEF AddNext
    <3>2. CASE s # {}
      <4>1. f[s \ {Pick(s)}] = g[s \ {Pick(s)}]
        BY <2>5, <2>6, <3>2
      <4>2. f[s] = AddNext(h, g, s)
        OBVIOUS
      <4> HIDE DEF f
      <4> QED
        BY <4>1, <4>2 DEF AddNext
    <3> QED
      BY <3>1, <3>2
  <2>8. f = [s \in UpTo(S, m) |-> f[s]]
    OBVIOUS
  <2> HIDE DEF f
  <2>9. Is(f, m)
    BY <2>7, <2>8
  <2> QED
    BY <2>1, <2>9
<1> QED
  BY <1>1, <1>2

\* f[s] is the sum over s, in whichever order its members are picked.
Adds(h, S, f) ==
    f[{}] = 0 /\ \A s \in SUBSET S : f[s] \in Int /\ \A x \in s : f[s] = h[x] + f[s \ {x}]

LEMMA SumAny ==
    ASSUME NEW S, IsFiniteSet(S), NEW h, \A x \in S : h[x] \in Int,
           NEW f, f = [s \in SUBSET S |-> AddNext(h, f, s)]
    PROVE  Adds(h, S, f)
<1> DEFINE G == {s \in SUBSET S : f[s] \in Int /\ \A x \in s : f[s] = h[x] + f[s \ {x}]}
<1>1. f[{}] = 0
  BY DEF AddNext
<1>2. ASSUME NEW s \in SUBSET S, s # {}
      PROVE  Pick(s) \in s /\ f[s] = h[Pick(s)] + f[s \ {Pick(s)}]
  BY <1>2 DEF AddNext, Pick
<1>3. ASSUME NEW s \in SUBSET S, \A r \in SUBSET s : r # s => r \in G
      PROVE  s \in G
  <2>1. CASE s = {}
    BY <1>1, <2>1
  <2>2. CASE s # {}
    <3> DEFINE y == Pick(s)
    <3>1. y \in s /\ f[s] = h[y] + f[s \ {y}] /\ h[y] \in Int
      BY <1>2, <2>2
    <3> HIDE DEF y
    <3>2. \A x \in s : s \ {x} \in G
      BY <1>3
    <3>3. f[s] \in Int
      <4>1. f[s \ {y}] \in Int
        BY <3>1, <3>2
      <4> QED
        BY <3>1, <4>1
    <3>4. ASSUME NEW x \in s, x # y
          PROVE  f[s] = h[x] + f[s \ {x}]
      <4>1. (s \ {y}) \ {x} = (s \ {x}) \ {y} /\ (s \ {x}) \ {y} \in G
        BY <1>3, <3>1
      <4>2. f[s \ {y}] = h[x] + f[(s \ {y}) \ {x}] /\ f[s \ {x}] = h[y] + f[(s \ {x}) \ {y}]
        BY <3>1, <3>2, <3>4
      <4>3. h[x] \in Int /\ f[(s \ {x}) \ {y}] \in Int
        BY <4>1
      <4> DEFINE rest == f[(s \ {x}) \ {y}]
      <4>4. /\ f[s \ {y}] = h[x] + rest /\ f[s \ {x}] = h[y] + rest /\ rest \in Int
        BY <4>1, <4>2, <4>3
      <4> HIDE DEF G, rest
      <4> QED
        BY <3>1, <4>3, <4>4
    <3> QED
      BY <3>1, <3>3, <3>4
  <2> QED
    BY <2>1, <2>2
<1>4. \A s \in SUBSET S : s \in G
  <2> HIDE DEF G
  <2> QED
    BY <1>3, BySubsets
<1> QED
  BY <1>1, <1>4 DEF Adds

LEMMA TotalIs ==
    ASSUME NEW S, IsFiniteSet(S), NEW h, \A x \in S : h[x] \in Int
    PROVE  \E f : Total(h, S) = f[S] /\ Adds(h, S, f)
<1> DEFINE F == CHOOSE f : f = [s \in SUBSET S |-> AddNext(h, f, s)]
<1>1. F = [s \in SUBSET S |-> AddNext(h, F, s)]
  BY SumExists
<1>2. Total(h, S) = F[S]
  BY DEF Total, MapThenSumSet, MapThenFoldSet, AddNext, Pick
<1> HIDE DEF F
<1>3. Adds(h, S, F)
  BY <1>1, SumAny
<1> QED
  BY <1>2, <1>3

\* Two sums over the same members are the same.
LEMMA AddsAgree ==
    ASSUME NEW S, NEW T, NEW h, NEW k, NEW f, NEW g, Adds(h, S, f), Adds(k, T, g),
           NEW R, IsFiniteSet(R), R \subseteq S, R \subseteq T, \A x \in R : h[x] = k[x]
    PROVE  f[R] = g[R]
<1> DEFINE G == {s \in SUBSET R : f[s] = g[s]}
<1>1. ASSUME NEW s \in SUBSET R, \A r \in SUBSET s : r # s => r \in G
      PROVE  s \in G
  <2>1. CASE s = {}
    BY <2>1 DEF Adds
  <2>2. CASE s # {}
    <3>1. PICK y \in s : TRUE
      BY <2>2
    <3>2. s \in SUBSET S /\ s \in SUBSET T /\ s \ {y} \in G /\ h[y] = k[y]
      BY <1>1
    <3>3. f[s] = h[y] + f[s \ {y}] /\ g[s] = k[y] + g[s \ {y}]
      BY <3>2 DEF Adds
    <3> QED
      BY <3>2, <3>3
  <2> QED
    BY <2>1, <2>2
<1> HIDE DEF G
<1>2. \A s \in SUBSET R : s \in G
  BY <1>1, BySubsets
<1> QED
  BY <1>2 DEF G

\* Two sums that differ at one place.
LEMMA TotalChange ==
    ASSUME NEW S, IsFiniteSet(S), NEW h \in [S -> Int], NEW k \in [S -> Int], NEW x \in S,
           \A y \in S \ {x} : k[y] = h[y]
    PROVE  Total(h, S) \in Int /\ Total(k, S) = Total(h, S) - h[x] + k[x]
<1>1. PICK f : Total(h, S) = f[S] /\ Adds(h, S, f)
  BY TotalIs
<1>2. PICK g : Total(k, S) = g[S] /\ Adds(k, S, g)
  BY TotalIs
<1>3. IsFiniteSet(S \ {x})
  BY FS_RemoveElement
<1>4. f[S \ {x}] = g[S \ {x}]
  BY <1>1, <1>2, <1>3, AddsAgree
<1>5. f[S] = h[x] + f[S \ {x}] /\ g[S] = k[x] + g[S \ {x}] /\ f[S \ {x}] \in Int
  BY <1>1, <1>2 DEF Adds
<1>6. h[x] \in Int /\ k[x] \in Int
  OBVIOUS
<1> QED
  BY <1>1, <1>2, <1>4, <1>5, <1>6

\* Two sums of the same numbers.
LEMMA TotalSame ==
    ASSUME NEW S, IsFiniteSet(S), NEW h, NEW k, \A x \in S : h[x] \in Int /\ k[x] = h[x]
    PROVE  Total(h, S) \in Int /\ Total(k, S) = Total(h, S)
<1>1. PICK f : Total(h, S) = f[S] /\ Adds(h, S, f)
  BY TotalIs
<1>2. PICK g : Total(k, S) = g[S] /\ Adds(k, S, g)
  BY TotalIs
<1>3. f[S] = g[S]
  BY <1>1, <1>2, AddsAgree
<1> QED
  BY <1>1, <1>2, <1>3 DEF Adds

\* One number more.
LEMMA TotalInsert ==
    ASSUME NEW S, IsFiniteSet(S), NEW x, x \notin S, NEW h, \A y \in S \cup {x} : h[y] \in Int
    PROVE  Total(h, S) \in Int /\ Total(h, S \cup {x}) = Total(h, S) + h[x]
<1> DEFINE T == S \cup {x}
<1>1. IsFiniteSet(T)
  BY FS_AddElement
<1>2. PICK f : Total(h, S) = f[S] /\ Adds(h, S, f)
  BY TotalIs
<1>3. PICK g : Total(h, T) = g[T] /\ Adds(h, T, g)
  <2>1. \A y \in T : h[y] \in Int
    OBVIOUS
  <2> HIDE DEF T
  <2> QED
    BY <1>1, <2>1, TotalIs
<1>4. f[S] = g[S]
  BY <1>2, <1>3, AddsAgree
<1>5. g[T] = h[x] + g[T \ {x}] /\ T \ {x} = S
  BY <1>3 DEF Adds
<1>6. f[S] \in Int /\ h[x] \in Int
  BY <1>2 DEF Adds
<1>7. g[T] = h[x] + g[S]
  BY <1>5
<1>8. Total(h, T) = Total(h, S) + h[x] /\ Total(h, S) \in Int
  <2> HIDE DEF T
  <2> QED
    BY <1>2, <1>3, <1>4, <1>6, <1>7
<1> QED
  BY <1>8

\* A sum of equal numbers.
LEMMA TotalEqual ==
    ASSUME NEW S, IsFiniteSet(S), NEW c \in Int, NEW h, \A x \in S : h[x] = c
    PROVE  Total(h, S) = Cardinality(S) * c
<1>1. PICK f : Total(h, S) = f[S] /\ Adds(h, S, f)
  BY TotalIs
<1> DEFINE G == {s \in SUBSET S : f[s] = Cardinality(s) * c}
<1>2. ASSUME NEW s \in SUBSET S, \A r \in SUBSET s : r # s => r \in G
      PROVE  s \in G
  <2>1. CASE s = {}
    <3>1. f[s] = 0 /\ Cardinality(s) = 0 /\ 0 * c = 0
      BY <1>1, <2>1, FS_EmptySet DEF Adds
    <3> QED
      BY <3>1
  <2>2. CASE s # {}
    <3>1. PICK y \in s : TRUE
      BY <2>2
    <3>2. s \ {y} \in G /\ h[y] = c /\ Cardinality(s \ {y}) = Cardinality(s) - 1 /\ Cardinality(s) \in Nat
      BY <1>2, <3>1, OneLess
    <3>3. f[s] = h[y] + f[s \ {y}] /\ f[s \ {y}] = Cardinality(s \ {y}) * c
      BY <1>1, <3>2 DEF Adds
    <3>4. \A n \in Nat : c + (n - 1) * c = n * c
      OBVIOUS
    <3>5. f[s] = Cardinality(s) * c
      BY <3>2, <3>3, <3>4
    <3> QED
      BY <3>5
  <2> QED
    BY <2>1, <2>2
<1> HIDE DEF G
<1>3. \A s \in SUBSET S : s \in G
  BY <1>2, BySubsets
<1> QED
  BY <1>1, <1>3 DEF G

\* The sum of sums.
LEMMA TotalAdd ==
    ASSUME NEW S, IsFiniteSet(S), NEW a \in [S -> Int], NEW b \in [S -> Int], NEW c \in [S -> Int],
           \A x \in S : c[x] = a[x] + b[x]
    PROVE  Total(a, S) \in Int /\ Total(b, S) \in Int /\ Total(c, S) = Total(a, S) + Total(b, S)
<1>1. PICK f : Total(a, S) = f[S] /\ Adds(a, S, f)
  BY TotalIs
<1>2. PICK g : Total(b, S) = g[S] /\ Adds(b, S, g)
  BY TotalIs
<1>3. PICK e : Total(c, S) = e[S] /\ Adds(c, S, e)
  BY TotalIs
<1> DEFINE G == {s \in SUBSET S : e[s] = f[s] + g[s]}
<1>4. ASSUME NEW s \in SUBSET S, \A r \in SUBSET s : r # s => r \in G
      PROVE  s \in G
  <2>1. CASE s = {}
    BY <1>1, <1>2, <1>3, <2>1 DEF Adds
  <2>2. CASE s # {}
    <3>1. PICK y \in s : TRUE
      BY <2>2
    <3>2. /\ s \ {y} \in SUBSET S /\ s \ {y} \in G /\ c[y] = a[y] + b[y]
          /\ a[y] \in Int /\ b[y] \in Int
      BY <1>4
    <3>3. e[s] = c[y] + e[s \ {y}] /\ f[s] = a[y] + f[s \ {y}] /\ g[s] = b[y] + g[s \ {y}]
      BY <1>1, <1>2, <1>3 DEF Adds
    <3>4. f[s \ {y}] \in Int /\ g[s \ {y}] \in Int
      BY <1>1, <1>2, <3>2 DEF Adds
    <3> QED
      BY <3>2, <3>3, <3>4
  <2> QED
    BY <2>1, <2>2
<1>5. S \in G
  <2> HIDE DEF G
  <2>1. \A s \in SUBSET S : s \in G
    BY <1>4, BySubsets
  <2> QED
    BY <2>1
<1>6. f[S] \in Int /\ g[S] \in Int
  BY <1>1, <1>2 DEF Adds
<1> QED
  BY <1>1, <1>2, <1>3, <1>5, <1>6

\* The sum of noughts.
LEMMA TotalZero ==
    ASSUME NEW S, IsFiniteSet(S)
    PROVE  Total([x \in S |-> 0], S) = 0
<1> DEFINE z == [x \in S |-> 0]
<1>1. z \in [S -> Int] /\ \A x \in S : z[x] = z[x] + z[x]
  OBVIOUS
<1> HIDE DEF z
<1>2. Total(z, S) \in Int /\ Total(z, S) = Total(z, S) + Total(z, S)
  BY <1>1, TotalAdd
<1>3. \A n \in Int : n = n + n => n = 0
  OBVIOUS
<1>4. Total(z, S) = 0
  BY <1>2, <1>3
<1> QED
  BY <1>4 DEF z

=============================================================================
