----------------------------- MODULE DataLemmas -----------------------------
(***************************************************************************)
(* Facts about numbers and sequences that the proofs of several components *)
(* rest on.  Induction is by the least counterexample: a set of naturals   *)
(* has a least element, because the finite sets are well-founded under     *)
(* strict inclusion.                                                       *)
(***************************************************************************)
EXTENDS Integers, Sequences, SequencesExt, FiniteSetsExt, FiniteSetTheorems,
        WellFoundedInduction, TLAPS

\* A set of naturals has a least element.
LEMMA LeastNat ==
  ASSUME NEW T \in SUBSET Nat, T # {}
  PROVE  \E m \in T : \A k \in T : m <= k
<1> DEFINE F == {0..k : k \in T}
<1>1. F \subseteq FiniteSubsetsOf(Nat)
  <2> SUFFICES ASSUME NEW k \in T PROVE 0..k \in SUBSET Nat /\ IsFiniteSet(0..k)
    BY DEF FiniteSubsetsOf
  <2> QED
    BY FS_Interval
<1>2. F # {}
  OBVIOUS
<1>3. IsWellFoundedOn(StrictSubsetOrdering(Nat), FiniteSubsetsOf(Nat))
  BY FS_StrictSubsetOrderingWellFounded
<1> HIDE DEF F
<1>4. PICK x \in F : \A y \in F : <<y, x>> \notin StrictSubsetOrdering(Nat)
  BY <1>1, <1>2, <1>3, WFMin
<1>5. PICK m \in T : x = 0..m
  BY DEF F
<1>6. ASSUME NEW k \in T PROVE m <= k
  <2> SUFFICES ASSUME k < m PROVE FALSE
    OBVIOUS
  <2>1. 0..k \in SUBSET Nat /\ 0..m \in SUBSET Nat /\ 0..k \subseteq 0..m /\ m \in 0..m /\ m \notin 0..k
    OBVIOUS
  <2>2. <<0..k, 0..m>> \in StrictSubsetOrdering(Nat)
    BY <2>1 DEF StrictSubsetOrdering
  <2> QED
    BY <1>4, <1>5, <2>2 DEF F
<1> QED
  BY <1>6

\* Maxima and minima of bounded sets of integers.
LEMMA MaxIs ==
  ASSUME NEW b \in Int, NEW S \in SUBSET Int, S # {}, \A x \in S : x <= b
  PROVE  Max(S) \in S /\ \A y \in S : Max(S) >= y
<1> DEFINE T == {b - x : x \in S}
<1>1. T \in SUBSET Nat /\ T # {}
  <2>1. \A x \in S : b - x \in Nat
    OBVIOUS
  <2> QED
    BY <2>1
<1>2. PICK m \in T : \A k \in T : m <= k
  BY <1>1, LeastNat
<1>3. PICK x \in S : m = b - x
  OBVIOUS
<1>4. ASSUME NEW y \in S PROVE x >= y
  <2>1. b - y \in T
    OBVIOUS
  <2>2. m <= b - y
    BY <1>2, <2>1
  <2> QED
    BY <1>3, <2>2
<1> QED
  BY <1>4 DEF Max

LEMMA MinIs ==
  ASSUME NEW a \in Int, NEW S \in SUBSET Int, S # {}, \A x \in S : a <= x
  PROVE  Min(S) \in S /\ \A y \in S : Min(S) <= y
<1> DEFINE T == {x - a : x \in S}
<1>1. T \in SUBSET Nat /\ T # {}
  <2>1. \A x \in S : x - a \in Nat
    OBVIOUS
  <2> QED
    BY <2>1
<1>2. PICK m \in T : \A k \in T : m <= k
  BY <1>1, LeastNat
<1>3. PICK x \in S : m = x - a
  OBVIOUS
<1>4. ASSUME NEW y \in S PROVE x <= y
  <2>1. y - a \in T
    OBVIOUS
  <2>2. m <= y - a
    BY <1>2, <2>1
  <2> QED
    BY <1>3, <2>2
<1> QED
  BY <1>4 DEF Min

LEMMA MinOfTwo ==
  ASSUME NEW x \in Int, NEW y \in Int
  PROVE  Min({x, y}) = IF x <= y THEN x ELSE y
BY DEF Min

LEMMA MaxOfTwo ==
  ASSUME NEW x \in Int, NEW y \in Int
  PROVE  Max({x, y}) = IF x >= y THEN x ELSE y
BY DEF Max

-----------------------------------------------------------------------------
\* The recursive function FlattenSeq builds exists, up to every length.
LEMMA FlattenExists ==
  ASSUME NEW ss, NEW n \in Nat
  PROVE  \E g : g = [i \in 1..n |-> IF i = 1 THEN ss[i] ELSE g[i - 1] \o ss[i]]
<1> DEFINE Is(g, k) == g = [i \in 1..k |-> IF i = 1 THEN ss[i] ELSE g[i - 1] \o ss[i]]
           T == {k \in Nat : ~\E g : Is(g, k)}
<1> SUFFICES ASSUME T # {} PROVE FALSE
  OBVIOUS
<1>1. PICK m \in T : \A k \in T : m <= k
  BY LeastNat
<1>2. m \in Nat /\ ~\E g : Is(g, m)
  OBVIOUS
<1>3. CASE m = 0
  <2> DEFINE e == [i \in 1..0 |-> 0]
  <2>1. Is(e, 0)
    OBVIOUS
  <2> QED
    BY <1>2, <1>3, <2>1
<1>4. CASE m # 0
  <2>1. m - 1 \in Nat
    BY <1>2, <1>4
  <2>2. m - 1 \notin T
    <3> SUFFICES ASSUME m - 1 \in T PROVE FALSE
      OBVIOUS
    <3>1. m <= m - 1
      BY <1>1
    <3> QED
      BY <1>2, <3>1
  <2>3. PICK h : Is(h, m - 1)
    BY <2>1, <2>2
  <2> DEFINE g == [i \in 1..m |-> IF i < m THEN h[i]
                                  ELSE IF m = 1 THEN ss[m] ELSE h[m - 1] \o ss[m]]
  <2>4. \A i \in 1..m : g[i] = IF i = 1 THEN ss[i] ELSE g[i - 1] \o ss[i]
    <3> SUFFICES ASSUME NEW i \in 1..m
                 PROVE  g[i] = IF i = 1 THEN ss[i] ELSE g[i - 1] \o ss[i]
      OBVIOUS
    <3>1. CASE i < m
      <4>1. i \in 1..m - 1 /\ g[i] = h[i]
        BY <1>2, <3>1
      <4>2. h[i] = IF i = 1 THEN ss[i] ELSE h[i - 1] \o ss[i]
        BY <2>3, <4>1
      <4>3. i # 1 => g[i - 1] = h[i - 1]
        BY <1>2, <3>1
      <4> QED
        BY <4>1, <4>2, <4>3
    <3>2. CASE i = m
      <4>1. i # 1 => g[i - 1] = h[i - 1]
        BY <1>2, <3>2
      <4> QED
        BY <1>2, <3>2, <4>1
    <3> QED
      BY <1>2, <3>1, <3>2
  <2>5. Is(g, m)
    BY <2>4
  <2> QED
    BY <1>2, <2>5
<1> QED
  BY <1>2, <1>3, <1>4

\* Flattening a sequence of sequences yields a sequence of their elements.
LEMMA FlattenType ==
  ASSUME NEW S, NEW ss \in Seq(Seq(S))
  PROVE  FlattenSeq(ss) \in Seq(S)
<1> DEFINE n == Len(ss)
<1>1. n \in Nat /\ \A i \in 1..n : ss[i] \in Seq(S)
  OBVIOUS
<1>2. CASE n = 0
  <2>1. ss = <<>>
    BY <1>2
  <2> QED
    BY <1>2, <2>1 DEF FlattenSeq
<1>3. CASE n # 0
  <2> DEFINE Is(g) == g = [i \in 1..n |-> IF i = 1 THEN ss[i] ELSE g[i - 1] \o ss[i]]
             f == CHOOSE g : Is(g)
  <2>1. FlattenSeq(ss) = f[n]
    BY <1>3 DEF FlattenSeq
  <2>2. Is(f)
    BY <1>1, FlattenExists
  <2>3. \A i \in 1..n : f[i] = IF i = 1 THEN ss[i] ELSE f[i - 1] \o ss[i]
    BY <2>2
  <2> HIDE DEF f, n, Is
  <2> DEFINE T == {i \in 1..n : f[i] \notin Seq(S)}
  <2>4. T = {}
    <3> SUFFICES ASSUME T # {} PROVE FALSE
      OBVIOUS
    <3>1. PICK m \in T : \A k \in T : m <= k
      <4>1. T \in SUBSET Nat
        BY <1>1
      <4> QED
        BY <4>1, LeastNat
    <3>2. m \in 1..n /\ f[m] \notin Seq(S)
      OBVIOUS
    <3>3. m # 1
      BY <1>1, <2>3, <3>2
    <3>4. m - 1 \in 1..n /\ m - 1 \notin T
      BY <1>1, <3>1, <3>2, <3>3
    <3>5. f[m - 1] \in Seq(S) /\ ss[m] \in Seq(S)
      BY <1>1, <3>2, <3>4
    <3>6. f[m] = f[m - 1] \o ss[m]
      BY <2>3, <3>2, <3>3
    <3> QED
      BY <3>2, <3>5, <3>6
  <2> QED
    BY <1>1, <1>3, <2>1, <2>4
<1> QED
  BY <1>2, <1>3

-----------------------------------------------------------------------------
\* The recursive function that sums a sequence exists, up to every length.
LEMMA SumExists ==
  ASSUME NEW s, NEW n \in Nat
  PROVE  \E g : g = [i \in 0..n |-> IF i = 0 THEN 0 ELSE g[i - 1] + s[i]]
<1> DEFINE Is(g, k) == g = [i \in 0..k |-> IF i = 0 THEN 0 ELSE g[i - 1] + s[i]]
           T == {k \in Nat : ~\E g : Is(g, k)}
<1> SUFFICES ASSUME T # {} PROVE FALSE
  OBVIOUS
<1>1. PICK m \in T : \A k \in T : m <= k
  BY LeastNat
<1>2. m \in Nat /\ ~\E g : Is(g, m)
  OBVIOUS
<1>3. CASE m = 0
  <2> DEFINE e == [i \in 0..0 |-> 0]
  <2>1. Is(e, 0)
    OBVIOUS
  <2> QED
    BY <1>2, <1>3, <2>1
<1>4. CASE m # 0
  <2>1. m - 1 \in Nat
    BY <1>2, <1>4
  <2>2. m - 1 \notin T
    <3> SUFFICES ASSUME m - 1 \in T PROVE FALSE
      OBVIOUS
    <3>1. m <= m - 1
      BY <1>1
    <3> QED
      BY <1>2, <3>1
  <2>3. PICK h : Is(h, m - 1)
    BY <2>1, <2>2
  <2> DEFINE g == [i \in 0..m |-> IF i < m THEN h[i] ELSE h[m - 1] + s[m]]
  <2>4. \A i \in 0..m : g[i] = IF i = 0 THEN 0 ELSE g[i - 1] + s[i]
    <3> SUFFICES ASSUME NEW i \in 0..m
                 PROVE  g[i] = IF i = 0 THEN 0 ELSE g[i - 1] + s[i]
      OBVIOUS
    <3>1. CASE i < m
      <4>1. i \in 0..m - 1 /\ g[i] = h[i]
        BY <1>2, <3>1
      <4>2. h[i] = IF i = 0 THEN 0 ELSE h[i - 1] + s[i]
        BY <2>3, <4>1
      <4>3. i # 0 => g[i - 1] = h[i - 1]
        BY <1>2, <3>1
      <4> QED
        BY <4>1, <4>2, <4>3
    <3>2. CASE i = m
      <4>1. i # 0 /\ g[i - 1] = h[i - 1] /\ g[i] = h[m - 1] + s[m]
        BY <1>2, <1>4, <3>2
      <4> QED
        BY <3>2, <4>1
    <3> QED
      BY <1>2, <3>1, <3>2
  <2>5. Is(g, m)
    BY <2>4
  <2> QED
    BY <1>2, <2>5
<1> QED
  BY <1>3, <1>4
-----------------------------------------------------------------------------
(* The place an element of a set of numbers has among them *)

Rank(S, i) == Cardinality({j \in S : j <= i})

LEMMA RanksAre ==
  ASSUME NEW n \in Nat, NEW S \in SUBSET (1..n)
  PROVE  /\ IsFiniteSet(S) /\ Cardinality(S) \in Nat
         /\ \A i \in S : Rank(S, i) \in 1..Cardinality(S)
         /\ \A i, j \in S : i < j => Rank(S, i) < Rank(S, j)
<1>1. IsFiniteSet(S) /\ Cardinality(S) \in Nat
  <2>1. IsFiniteSet(1..n)
    BY FS_Interval
  <2>2. IsFiniteSet(S)
    BY <2>1, FS_Subset
  <2> QED
    BY <2>2, FS_CardinalityType
<1> DEFINE U(i) == {j \in S : j <= i}
<1>2. ASSUME NEW i \in S
      PROVE  i \in U(i) /\ IsFiniteSet(U(i)) /\ Cardinality(U(i)) \in 1..Cardinality(S)
  <2>1. U(i) \in SUBSET S /\ i \in U(i)
    OBVIOUS
  <2>2. IsFiniteSet(U(i)) /\ Cardinality(U(i)) <= Cardinality(S)
    BY <1>1, <2>1, FS_Subset
  <2>3. Cardinality(U(i)) \in Nat /\ Cardinality(U(i)) # 0
    BY <2>1, <2>2, FS_CardinalityType, FS_EmptySet
  <2> QED
    BY <1>1, <2>1, <2>2, <2>3
<1>3. ASSUME NEW i \in S, NEW j \in S, i < j
      PROVE  Cardinality(U(i)) < Cardinality(U(j))
  <2>0. S \subseteq Int /\ i \in Int /\ j \in Int
    OBVIOUS
  <2>1. U(i) \in SUBSET U(j) /\ j \notin U(i)
    <3>1. \A x \in S : x <= i => x <= j
      BY <1>3, <2>0
    <3>2. ~(j <= i)
      BY <1>3, <2>0
    <3> QED
      BY <3>1, <3>2
  <2>2. /\ Cardinality(U(i)) <= Cardinality(U(j))
        /\ Cardinality(U(j)) = Cardinality(U(i)) => U(j) = U(i)
    BY <1>2, <2>1, FS_Subset
  <2>3. Cardinality(U(i)) # Cardinality(U(j))
    BY <1>2, <2>1, <2>2
  <2>4. Cardinality(U(i)) \in Int /\ Cardinality(U(j)) \in Int
    BY <1>1, <1>2
  <2> QED
    BY <2>2, <2>3, <2>4
<1> QED
  BY <1>1, <1>2, <1>3 DEF Rank

\* Different places have different ranks.
LEMMA RankTells ==
  ASSUME NEW n \in Nat, NEW S \in SUBSET (1..n), NEW i \in S, NEW j \in S,
         Rank(S, i) = Rank(S, j)
  PROVE  i = j
<1>1. i \in Int /\ j \in Int /\ Rank(S, i) \in Int /\ Rank(S, j) \in Int
  <2>1. Cardinality(S) \in Nat /\ \A x \in S : Rank(S, x) \in 1..Cardinality(S)
    BY RanksAre
  <2>2. Rank(S, i) \in 1..Cardinality(S) /\ Rank(S, j) \in 1..Cardinality(S)
    BY <2>1
  <2> QED
    BY <2>1, <2>2
<1> SUFFICES ASSUME i # j PROVE FALSE
  OBVIOUS
<1>2. i < j \/ j < i
  BY <1>1
<1> QED
  BY <1>1, <1>2, RanksAre, SMTT(30)

\* Flattening goes through the sequences one after the other.
LEMMA FlattenGoes ==
  ASSUME NEW X, NEW ss \in Seq(Seq(X)), Len(ss) # 0
  PROVE  \E f : /\ FlattenSeq(ss) = f[Len(ss)] /\ f[1] = ss[1]
                /\ \A i \in 2..Len(ss) : f[i] = f[i - 1] \o ss[i]
                /\ \A i \in 1..Len(ss) : f[i] \in Seq(X)
<1> DEFINE n == Len(ss)
           Is(g) == g = [i \in 1..n |-> IF i = 1 THEN ss[i] ELSE g[i - 1] \o ss[i]]
           f == CHOOSE g : Is(g)
<1>1. n \in Nat /\ \A i \in 1..n : ss[i] \in Seq(X)
  OBVIOUS
<1>2. FlattenSeq(ss) = f[n]
  BY DEF FlattenSeq
<1>3. Is(f)
  BY <1>1, FlattenExists
<1>4. \A i \in 1..n : f[i] = IF i = 1 THEN ss[i] ELSE f[i - 1] \o ss[i]
  BY <1>3
<1> HIDE DEF f, n, Is
<1> DEFINE T == {i \in 1..n : f[i] \notin Seq(X)}
<1>5. T = {}
  <2> SUFFICES ASSUME T # {} PROVE FALSE
    OBVIOUS
  <2>1. PICK m \in T : \A k \in T : m <= k
    <3>1. T \in SUBSET Nat
      BY <1>1
    <3> QED
      BY <3>1, LeastNat
  <2>2. m \in 1..n /\ f[m] \notin Seq(X)
    OBVIOUS
  <2>3. m # 1
    BY <1>1, <1>4, <2>2
  <2>4. m - 1 \in 1..n /\ m - 1 \notin T
    BY <1>1, <2>1, <2>2, <2>3
  <2>5. f[m - 1] \in Seq(X) /\ ss[m] \in Seq(X)
    BY <1>1, <2>2, <2>4
  <2>6. f[m] = f[m - 1] \o ss[m]
    BY <1>4, <2>2, <2>3
  <2> QED
    BY <2>2, <2>5, <2>6
<1>6. f[1] = ss[1] /\ \A i \in 2..n : f[i] = f[i - 1] \o ss[i]
  <2>1. n # 0 /\ 1 \in 1..n
    BY <1>1 DEF n
  <2>2. ASSUME NEW i \in 2..n PROVE f[i] = f[i - 1] \o ss[i]
    <3>1. i \in 1..n /\ i # 1
      BY <1>1
    <3> QED
      BY <1>4, <3>1
  <2> QED
    BY <1>4, <2>1, <2>2
<1>7. \A i \in 1..n : f[i] \in Seq(X)
  BY <1>5
<1> QED
  BY <1>2, <1>6, <1>7 DEF n

\* Places in what two sequences make together.
LEMMA PlacesJoin ==
  ASSUME NEW p \in Nat, NEW q \in Nat
  PROVE  /\ \A j \in 1..p : j \in 1..p + q
         /\ \A j \in 1..q : p + j \in 1..p + q
         /\ \A k \in 1..p + q : k > p => k - p \in 1..q /\ p + (k - p) = k
OBVIOUS

\* What flattening yields are the elements of the sequences, and all of them.
LEMMA FlattenHolds ==
  ASSUME NEW X, NEW ss \in Seq(Seq(X))
  PROVE  /\ \A k \in 1..Len(FlattenSeq(ss)) :
              \E i \in 1..Len(ss) : \E j \in 1..Len(ss[i]) : FlattenSeq(ss)[k] = ss[i][j]
         /\ \A i \in 1..Len(ss) : \A j \in 1..Len(ss[i]) :
              \E k \in 1..Len(FlattenSeq(ss)) : FlattenSeq(ss)[k] = ss[i][j]
<1> DEFINE n == Len(ss)
<1>1. n \in Nat /\ \A i \in 1..n : ss[i] \in Seq(X)
  OBVIOUS
<1>2. CASE n = 0
  <2>1. FlattenSeq(ss) = ss
    BY <1>2 DEF FlattenSeq
  <2> QED
    BY <1>2, <2>1
<1>3. CASE n # 0
  <2>1. PICK f : /\ FlattenSeq(ss) = f[n] /\ f[1] = ss[1]
                 /\ \A i \in 2..n : f[i] = f[i - 1] \o ss[i]
                 /\ \A i \in 1..n : f[i] \in Seq(X)
    BY <1>3, FlattenGoes
  <2> HIDE DEF n
  <2> DEFINE From(m) == \A k \in 1..Len(f[m]) : \E i \in 1..m : \E j \in 1..Len(ss[i]) : f[m][k] = ss[i][j]
             All(m)  == \A i \in 1..m : \A j \in 1..Len(ss[i]) : \E k \in 1..Len(f[m]) : f[m][k] = ss[i][j]
             T == {m \in 1..n : ~(From(m) /\ All(m))}
  <2>2. T = {}
    <3> SUFFICES ASSUME T # {} PROVE FALSE
      OBVIOUS
    <3>1. T \in SUBSET Nat
      BY <1>1
    <3>2. PICK m \in T : \A k \in T : m <= k
      BY <3>1, LeastNat
    <3>3. m \in 1..n /\ ~(From(m) /\ All(m))
      OBVIOUS
    <3>4. m # 1
      <4> SUFFICES ASSUME m = 1 PROVE FALSE
        OBVIOUS
      <4>1. f[m] = ss[m] /\ \A i \in 1..m : i = m
        BY <2>1
      <4> QED
        BY <3>3, <4>1
    <3>a. m \in 2..n /\ m - 1 \in 1..n /\ m \in Nat
      BY <1>1, <3>3, <3>4
    <3>b. m - 1 \notin T
      <4> SUFFICES ASSUME m - 1 \in T PROVE FALSE
        OBVIOUS
      <4>1. m <= m - 1
        BY <3>2
      <4> QED
        BY <3>a, <4>1
    <3>5. m \in 2..n /\ m - 1 \in 1..n /\ m - 1 \notin T
      BY <3>a, <3>b
    <3>6. From(m - 1) /\ All(m - 1)
      BY <3>5
    <3>7. f[m] = f[m - 1] \o ss[m] /\ f[m - 1] \in Seq(X) /\ ss[m] \in Seq(X)
      BY <1>1, <2>1, <3>5
    <3> DEFINE a == f[m - 1]
               b == ss[m]
    <3>8. /\ Len(f[m]) = Len(a) + Len(b) /\ Len(a) \in Nat /\ Len(b) \in Nat
          /\ \A k \in 1..Len(a) : f[m][k] = a[k]
          /\ \A k \in 1..Len(b) : f[m][Len(a) + k] = b[k]
      <4> HIDE DEF a, b
      <4>1. f[m] = a \o b /\ a \in Seq(X) /\ b \in Seq(X)
        BY <3>7 DEF a, b
      <4>2. Len(f[m]) = Len(a) + Len(b) /\ Len(a) \in Nat /\ Len(b) \in Nat
        BY <4>1
      <4>3. ASSUME NEW k \in 1..Len(b) PROVE f[m][Len(a) + k] = b[k]
        <5>1. Len(a) + k \in 1..Len(a) + Len(b) /\ Len(a) + k > Len(a)
          BY <4>2
        <5> QED
          BY <4>1, <4>2, <5>1
      <4> QED
        BY <4>1, <4>2, <4>3
    <3>9. From(m)
      <4> SUFFICES ASSUME NEW k \in 1..Len(f[m])
                   PROVE  \E i \in 1..m : \E j \in 1..Len(ss[i]) : f[m][k] = ss[i][j]
        OBVIOUS
      <4>1. CASE k <= Len(a)
        <5>1. k \in 1..Len(a)
          BY <3>8, <4>1
        <5>2. PICK i \in 1..m - 1 : \E j \in 1..Len(ss[i]) : a[k] = ss[i][j]
          BY <3>6, <5>1
        <5>3. i \in 1..m
          BY <1>1, <3>5
        <5> QED
          BY <3>8, <5>1, <5>2, <5>3
      <4>2. CASE k > Len(a)
        <5> DEFINE p == Len(a)
                   q == Len(b)
        <5>a. p \in Nat /\ q \in Nat /\ k \in 1..p + q /\ k > p
          BY <3>8, <4>2
        <5>b. k - p \in 1..q /\ p + (k - p) = k
          <6> HIDE DEF p, q
          <6> QED
            BY <5>a, PlacesJoin
        <5>1. k - Len(a) \in 1..Len(b) /\ Len(a) + (k - Len(a)) = k
          BY <5>b
        <5>2. f[m][k] = b[k - Len(a)]
          BY <3>8, <5>1
        <5>3. m \in 1..m
          BY <1>1, <3>5
        <5> QED
          BY <5>1, <5>2, <5>3
      <4>3. k <= Len(a) \/ k > Len(a)
        BY <3>8
      <4> QED
        BY <4>1, <4>2, <4>3
    <3>10. All(m)
      <4> SUFFICES ASSUME NEW i \in 1..m, NEW j \in 1..Len(ss[i])
                   PROVE  \E k \in 1..Len(f[m]) : f[m][k] = ss[i][j]
        OBVIOUS
      <4>1. CASE i = m
        <5>1. j \in 1..Len(b) /\ b[j] = ss[i][j]
          BY <4>1
        <5>2. Len(a) + j \in 1..Len(f[m])
          <6> DEFINE p == Len(a)
                     q == Len(b)
          <6>1. p \in Nat /\ q \in Nat /\ j \in 1..q
            BY <3>8, <5>1
          <6> HIDE DEF p, q
          <6>2. p + j \in 1..p + q
            BY <6>1, PlacesJoin
          <6> QED
            BY <3>8, <6>2 DEF p, q
        <5> QED
          BY <3>8, <5>1, <5>2
      <4>2. CASE i # m
        <5>1. i \in 1..m - 1
          BY <1>1, <3>5, <4>2
        <5>2. PICK k \in 1..Len(a) : a[k] = ss[i][j]
          BY <3>6, <5>1
        <5>3. k \in 1..Len(f[m])
          <6> DEFINE p == Len(a)
                     q == Len(b)
          <6>1. p \in Nat /\ q \in Nat /\ k \in 1..p
            BY <3>8
          <6> HIDE DEF p, q
          <6>2. k \in 1..p + q
            BY <6>1, PlacesJoin
          <6> QED
            BY <3>8, <6>2 DEF p, q
        <5> QED
          BY <3>8, <5>2, <5>3
      <4> QED
        BY <4>1, <4>2
    <3> QED
      BY <3>3, <3>9, <3>10
  <2>3. n \in 1..n
    BY <1>1, <1>3
  <2>4. From(n) /\ All(n)
    BY <2>2, <2>3
  <2> QED
    BY <2>1, <2>4 DEF n
<1> QED
  BY <1>2, <1>3
=============================================================================
