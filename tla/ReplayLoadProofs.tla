-------------------------- MODULE ReplayLoadProofs --------------------------
(***************************************************************************)
(* What comes out of the decoder is what the agent saw, for every roster,  *)
(* every number of lines and whatever happens in the match: the encoder    *)
(* and the decoder keep the same last full frame and the same tables, and  *)
(* an index names one entity for good.  On that rest the kill feed and the *)
(* ticket analysis: every death is one row, whoever is named as a killer   *)
(* did hit the victim, and the losses have the causes that were seen.      *)
(***************************************************************************)
EXTENDS ReplayLoad, DataLemmas

-----------------------------------------------------------------------------
(* The n-th of a set of places *)

LEMMA NthOfRank ==
  ASSUME NEW n \in Nat, NEW S \in SUBSET (1..n), NEW i \in S
  PROVE  NthOf(S, Rank(S, i)) = i
<1>1. \A j \in S : Rank(S, j) = Rank(S, i) => j = i
  BY RankTells
<1> QED
  BY <1>1 DEF NthOf, Rank

\* The ranks of n places are the numbers up to n.
LEMMA NthOfIs ==
  ASSUME NEW n \in Nat, NEW S \in SUBSET (1..n), NEW m \in 1..Cardinality(S)
  PROVE  NthOf(S, m) \in S /\ Rank(S, NthOf(S, m)) = m
<1> DEFINE c == Cardinality(S)
           rank == [i \in S |-> Rank(S, i)]
<1>1. c \in Nat /\ IsFiniteSet(1..c) /\ Cardinality(1..c) = c
  <2>1. c \in Nat
    BY RanksAre
  <2> QED
    BY <2>1, FS_Interval
<1>2. rank \in [S -> 1..c]
  BY RanksAre
<1>3. rank \in Injection(S, 1..c)
  BY <1>2, RankTells DEF Injection, IsInjective
<1>4. rank \in Surjection(S, 1..c)
  BY <1>1, <1>3, FS_Injection
<1>5. \E i \in S : Rank(S, i) = m
  BY <1>4 DEF Surjection
<1> QED
  BY <1>5 DEF NthOf, Rank

\* All places in order are the places.
LEMMA NthOfAll ==
  ASSUME NEW n \in Nat
  PROVE  Cardinality(1..n) = n /\ \A i \in 1..n : NthOf(1..n, i) = i
<1>1. Cardinality(1..n) = n
  BY FS_Interval
<1>2. ASSUME NEW i \in 1..n PROVE NthOf(1..n, i) = i
  <2>1. {j \in 1..n : j <= i} = 1..i
    OBVIOUS
  <2>2. Cardinality(1..i) = i
    BY FS_Interval
  <2>3. Rank(1..n, i) = i
    BY <2>1, <2>2 DEF Rank
  <2> QED
    BY <2>3, NthOfRank
<1> QED
  BY <1>1, <1>2

-----------------------------------------------------------------------------
(* The index of the encoder *)

\* What the encoder is given: a sequence of entities, none of them without
\* any field.
IsFn(f) == f = [x \in DOMAIN f |-> f[x]]
Entities(arr) ==
  /\ Len(arr) \in Nat /\ arr = [i \in 1..Len(arr) |-> arr[i]]
  /\ \A i \in 1..Len(arr) : IsFn(arr[i]) /\ DOMAIN arr[i] # {}

\* An index gives each id it knows a number of its own.
Coded(index) ==
  /\ IsFiniteSet(DOMAIN index)
  /\ \A x \in DOMAIN index : index[x] \in 0..Cardinality(DOMAIN index) - 1
  /\ \A x, y \in DOMAIN index : index[x] = index[y] => x = y

LEMMA TrackedTells ==
  ASSUME NEW k, NEW arr, Len(arr) \in Nat
  PROVE  /\ Tracked(k, arr) \in SUBSET (1..Len(arr))
         /\ \A i, j \in Tracked(k, arr) : IdIn(k, arr[i]) = IdIn(k, arr[j]) => i = j
<1> DEFINE T == Tracked(k, arr)
<1>1. T \in SUBSET (1..Len(arr))
  BY DEF Tracked
<1>2. ASSUME NEW i \in T, NEW j \in T, IdIn(k, arr[i]) = IdIn(k, arr[j]) PROVE i = j
  <2>1. i \in 1..Len(arr) /\ j \in 1..Len(arr)
    BY <1>1
  <2>2. ~(i < j) /\ ~(j < i)
    <3>1. /\ \A m \in 1..i - 1 : IdIn(k, arr[m]) # IdIn(k, arr[i])
          /\ \A m \in 1..j - 1 : IdIn(k, arr[m]) # IdIn(k, arr[j])
      BY DEF Tracked
    <3>2. i < j => i \in 1..j - 1
      BY <2>1
    <3>3. j < i => j \in 1..i - 1
      BY <2>1
    <3> QED
      BY <1>2, <3>1, <3>2, <3>3
  <2> QED
    BY <2>1, <2>2
<1> QED
  BY <1>1, <1>2

LEMMA BelowIsRank ==
  ASSUME NEW n \in Nat, NEW S \in SUBSET (1..n), NEW i \in S
  PROVE  Cardinality({j \in S : j < i}) = Rank(S, i) - 1
<1> DEFINE B == {j \in S : j < i}
<1>0. S \subseteq Int /\ i \in Int
  OBVIOUS
<1>1. B \in SUBSET S /\ i \notin B /\ B \cup {i} = {j \in S : j <= i}
  <2>1. \A j \in S : j <= i <=> j < i \/ j = i
    BY <1>0
  <2>2. ~(i < i)
    BY <1>0
  <2> QED
    BY <2>1, <2>2
<1>2. IsFiniteSet(B)
  BY <1>1, RanksAre, FS_Subset
<1>3. Cardinality(B) \in Nat /\ Cardinality(B \cup {i}) = Cardinality(B) + 1
  BY <1>1, <1>2, FS_CardinalityType, FS_AddElement
<1> QED
  BY <1>1, <1>3 DEF Rank

-----------------------------------------------------------------------------
LEMMA IndexedIs ==
  ASSUME NEW k, NEW arr, Len(arr) \in Nat, NEW index, Coded(index)
  PROVE  /\ Coded(Indexed(index, k, arr))
         /\ \A i \in Tracked(k, arr) : IdIn(k, arr[i]) \in DOMAIN Indexed(index, k, arr)
<1> DEFINE T == Tracked(k, arr)
           New == NewPlaces(index, k, arr)
           c == Cardinality(DOMAIN index)
           m == Cardinality(New)
           ids == {IdIn(k, arr[i]) : i \in New}
           idx == Indexed(index, k, arr)
           Place(id) == CHOOSE i \in New : IdIn(k, arr[i]) = id
<1>1. /\ New \in SUBSET (1..Len(arr)) /\ New \subseteq T
      /\ \A i \in New : IdIn(k, arr[i]) \notin DOMAIN index
      /\ \A i \in T : i \notin New => IdIn(k, arr[i]) \in DOMAIN index
      /\ \A i, j \in New : IdIn(k, arr[i]) = IdIn(k, arr[j]) => i = j
  BY TrackedTells DEF NewPlaces
<1>2. c \in Nat /\ m \in Nat /\ IsFiniteSet(New)
  BY <1>1, RanksAre, FS_CardinalityType DEF Coded
<1>3. IsFiniteSet(ids) /\ Cardinality(ids) = m
  <2> DEFINE f == [i \in New |-> IdIn(k, arr[i])]
  <2>1. f \in Bijection(New, ids)
    BY <1>1 DEF Bijection, Injection, IsInjective, Surjection
  <2>2. ExistsBijection(New, ids)
    BY <2>1 DEF ExistsBijection
  <2> QED
    BY <1>2, <2>2, FS_Bijection
<1>4. ids \cap DOMAIN index = {}
  BY <1>1
<1>5. IsFiniteSet(DOMAIN index \cup ids) /\ Cardinality(DOMAIN index \cup ids) = c + m
  <2>1. Cardinality(ids \cap DOMAIN index) = 0
    BY <1>4, FS_EmptySet
  <2>2. IsFiniteSet(DOMAIN index)
    BY DEF Coded
  <2> HIDE DEF ids
  <2>3. /\ IsFiniteSet(ids \cup DOMAIN index)
        /\ Cardinality(ids \cup DOMAIN index) =
             Cardinality(ids) + Cardinality(DOMAIN index) - Cardinality(ids \cap DOMAIN index)
    BY <1>3, <2>2, FS_Union
  <2>4. ids \cup DOMAIN index = DOMAIN index \cup ids
    OBVIOUS
  <2>5. Cardinality(DOMAIN index \cup ids) = m + c - 0
    BY <1>3, <2>1, <2>3, <2>4
  <2>6. m + c - 0 = c + m
    BY <1>2
  <2> QED
    BY <2>3, <2>4, <2>5, <2>6
<1>6. /\ DOMAIN idx = DOMAIN index \cup ids
      /\ \A x \in DOMAIN index : idx[x] = index[x]
      /\ \A x \in ids : idx[x] = c + Cardinality({j \in New : j < Place(x)})
  BY <1>4 DEF Indexed, Overlay
<1>7. ASSUME NEW i \in New
      PROVE  /\ IdIn(k, arr[i]) \in ids
             /\ idx[IdIn(k, arr[i])] = c + (Rank(New, i) - 1)
  <2>1. Place(IdIn(k, arr[i])) = i
    BY <1>1
  <2>2. Cardinality({j \in New : j < i}) = Rank(New, i) - 1
    BY <1>1, BelowIsRank
  <2> QED
    BY <1>6, <2>1, <2>2
<1>8. \A i \in New : Rank(New, i) \in 1..m
  BY <1>1, RanksAre
<1>9. \A x \in ids : \E i \in New : x = IdIn(k, arr[i])
  OBVIOUS
<1> HIDE DEF ids, idx, New, c, m, T
<1>10. \A x \in DOMAIN index : idx[x] \in 0..c - 1
  BY <1>6 DEF Coded, c
<1>11. \A x \in ids : idx[x] \in c..c + m - 1
  <2> SUFFICES ASSUME NEW x \in ids PROVE idx[x] \in c..c + m - 1
    OBVIOUS
  <2>1. PICK i \in New : x = IdIn(k, arr[i])
    BY <1>9
  <2>2. PICK r \in 1..m : r = Rank(New, i)
    BY <1>8
  <2>3. idx[x] = c + (r - 1)
    BY <1>7, <2>1, <2>2
  <2> QED
    BY <1>2, <2>3
<1>12. \A x \in DOMAIN idx : idx[x] \in 0..(c + m) - 1
  BY <1>2, <1>6, <1>10, <1>11
<1>13. ASSUME NEW x \in DOMAIN idx, NEW y \in DOMAIN idx, idx[x] = idx[y]
       PROVE  x = y
  <2>1. CASE x \in DOMAIN index /\ y \in DOMAIN index
    BY <1>6, <1>13, <2>1 DEF Coded
  <2>2. CASE x \in ids /\ y \in ids
    <3>1. PICK i \in New : x = IdIn(k, arr[i])
      BY <1>9, <2>2
    <3>2. PICK j \in New : y = IdIn(k, arr[j])
      BY <1>9, <2>2
    <3>3. PICK r \in 1..m : r = Rank(New, i)
      BY <1>8
    <3>4. PICK s \in 1..m : s = Rank(New, j)
      BY <1>8
    <3>5. c + (r - 1) = c + (s - 1)
      BY <1>7, <1>13, <3>1, <3>2, <3>3, <3>4
    <3>6. r = s
      BY <1>2, <3>5
    <3>7. i = j
      BY <1>1, <3>3, <3>4, <3>6, RankTells
    <3> QED
      BY <3>1, <3>2, <3>7
  <2>3. CASE x \in DOMAIN index /\ y \in ids
    BY <1>2, <1>10, <1>11, <1>13, <2>3
  <2>4. CASE x \in ids /\ y \in DOMAIN index
    BY <1>2, <1>10, <1>11, <1>13, <2>4
  <2> QED
    BY <1>6, <2>1, <2>2, <2>3, <2>4
<1>14. IsFiniteSet(DOMAIN idx) /\ Cardinality(DOMAIN idx) = c + m
  BY <1>5, <1>6
<1>15. Coded(idx)
  BY <1>12, <1>13, <1>14 DEF Coded
<1>16. \A i \in T : IdIn(k, arr[i]) \in DOMAIN idx
  BY <1>1, <1>6, <1>7
<1> QED
  BY <1>15, <1>16 DEF idx, T

-----------------------------------------------------------------------------
(* One array there and back *)

\* A patch of what changed gives the new object; all of a new object is new.
LEMMA PatchOfChanges ==
  ASSUME NEW old, NEW new, IsFn(new)
  PROVE  /\ Patch(Changes(old, new).gone, Changes(old, new).set, old) = new
         /\ Changes(Empty, new).set = new
<1>1. Changes(Empty, new).set = new
  BY DEF Changes, Empty, Restrict, IsFn
<1> DEFINE c == Changes(old, new)
           p == Patch(c.gone, c.set, old)
<1>2. /\ DOMAIN p = DOMAIN new
      /\ \A x \in DOMAIN new : p[x] = new[x]
      /\ p = [x \in DOMAIN p |-> p[x]]
  BY DEF Changes, Patch, Overlay, Restrict
<1>3. p = new
  <2> HIDE DEF p
  <2> QED
    BY <1>2 DEF IsFn
<1> QED
  BY <1>1, <1>3

\* The index of the entity at a place of the array, and what the table has
\* for it.
AtOf(index, k, arr, i) == Indexed(index, k, arr)[IdIn(k, arr[i])]
OldOf(index, table, k, arr, i) ==
  IF AtOf(index, k, arr, i) \in DOMAIN table THEN table[AtOf(index, k, arr, i)] ELSE Empty

LEMMA AtTells ==
  ASSUME NEW k, NEW arr, Len(arr) \in Nat, NEW index, Coded(index)
  PROVE  \A i \in Tracked(k, arr) :
           /\ AtOf(index, k, arr, i) \in Nat
           /\ \A j \in Tracked(k, arr) : AtOf(index, k, arr, i) = AtOf(index, k, arr, j) => i = j
<1> DEFINE idx == Indexed(index, k, arr)
           T == Tracked(k, arr)
<1>1. /\ Coded(idx)
      /\ \A i \in T : IdIn(k, arr[i]) \in DOMAIN idx
      /\ \A i, j \in T : IdIn(k, arr[i]) = IdIn(k, arr[j]) => i = j
  BY IndexedIs, TrackedTells
<1> HIDE DEF idx, T
<1>2. \A x \in DOMAIN idx : idx[x] \in Nat
  BY <1>1 DEF Coded
<1>3. \A x, y \in DOMAIN idx : idx[x] = idx[y] => x = y
  BY <1>1 DEF Coded
<1>4. \A i \in T : AtOf(index, k, arr, i) = idx[IdIn(k, arr[i])]
  BY DEF AtOf, idx
<1>5. \A i \in T : AtOf(index, k, arr, i) \in Nat
  BY <1>1, <1>2, <1>4
<1>6. \A i, j \in T : AtOf(index, k, arr, i) = AtOf(index, k, arr, j) => i = j
  BY <1>1, <1>3, <1>4
<1> QED
  BY <1>5, <1>6 DEF T

\* The table after the frame: what it has at the index of an entity is the
\* entity.
TableFollows(new, index, table, k, arr) ==
  /\ DOMAIN new = {AtOf(index, k, arr, i) : i \in Tracked(k, arr)} \cup DOMAIN table
  /\ \A i \in Tracked(k, arr) : new[AtOf(index, k, arr, i)] = arr[i]
  /\ \A n \in DOMAIN table :
       (\A i \in Tracked(k, arr) : AtOf(index, k, arr, i) # n) => new[n] = table[n]
  /\ new = [n \in DOMAIN new |-> new[n]]

LEMMA EncodedTable ==
  ASSUME NEW k, NEW arr, Len(arr) \in Nat, NEW index, Coded(index), NEW table
  PROVE  TableFollows(EncodeArray(index, table, k, arr).table, index, table, k, arr)
<1> DEFINE T == Tracked(k, arr)
           At(i) == AtOf(index, k, arr, i)
           f == [n \in {At(i) : i \in T} |-> arr[CHOOSE i \in T : At(i) = n]]
           new == EncodeArray(index, table, k, arr).table
<1>1. new = Overlay(f, table)
  BY DEF EncodeArray, AtOf
<1>2. \A i, j \in T : At(i) = At(j) => i = j
  BY AtTells
<1> HIDE DEF T, At
<1>3. \A i \in T : f[At(i)] = arr[i]
  BY <1>2
<1>4. DOMAIN f = {At(i) : i \in T}
  OBVIOUS
<1> HIDE DEF f, new
<1>5. /\ DOMAIN new = DOMAIN f \cup DOMAIN table
      /\ \A x \in DOMAIN f : new[x] = f[x]
      /\ \A x \in DOMAIN table \ DOMAIN f : new[x] = table[x]
      /\ new = [x \in DOMAIN new |-> new[x]]
  BY <1>1 DEF Overlay
<1>6. \A i \in T : At(i) \in DOMAIN f
  BY <1>4
<1>7. \A n \in DOMAIN table : (\A i \in T : At(i) # n) => n \notin DOMAIN f
  BY <1>4
<1> QED
  BY <1>3, <1>4, <1>5, <1>6, <1>7 DEF T, At, new, TableFollows

\* The updates bring a decoder's table to where the encoder's is.
LEMMA TablesAgree ==
  ASSUME NEW k, NEW arr, Entities(arr), NEW index, Coded(index), NEW table
  PROVE  UpdateTable(table, EncodeArray(index, table, k, arr).enc.u)
           = EncodeArray(index, table, k, arr).table
<1> DEFINE T == Tracked(k, arr)
           At(i) == AtOf(index, k, arr, i)
           Old(i) == OldOf(index, table, k, arr, i)
           C == {j \in T : arr[j] # Old(j)}
           u == {<<At(i), Changes(Old(i), arr[i])>> : i \in C}
           new == EncodeArray(index, table, k, arr).table
           upd == UpdateTable(table, u)
<1>1. EncodeArray(index, table, k, arr).enc.u = u
  BY DEF EncodeArray, AtOf, OldOf
<1>2. \A i, j \in T : At(i) = At(j) => i = j
  BY AtTells DEF Entities
<1>3. /\ T \in SUBSET (1..Len(arr))
      /\ \A i \in T : IsFn(arr[i]) /\ DOMAIN arr[i] # {}
  BY TrackedTells DEF Entities
<1>4. \A i \in T : At(i) \notin DOMAIN table => Old(i) = Empty
  BY DEF OldOf
<1>5. \A i \in T : At(i) \in DOMAIN table => Old(i) = table[At(i)]
  BY DEF OldOf
<1>6. \A i \in T : arr[i] # Empty
  BY <1>3 DEF Empty
<1>7. /\ DOMAIN new = {At(i) : i \in T} \cup DOMAIN table
      /\ \A i \in T : new[At(i)] = arr[i]
      /\ \A n \in DOMAIN table : (\A i \in T : At(i) # n) => new[n] = table[n]
      /\ new = [n \in DOMAIN new |-> new[n]]
  <2>1. Len(arr) \in Nat
    BY DEF Entities
  <2>2. TableFollows(new, index, table, k, arr)
    BY <2>1, EncodedTable
  <2> HIDE DEF new
  <2> QED
    BY <2>2 DEF TableFollows
<1> HIDE DEF T, At, Old, new
<1> DEFINE V(n) == LET c == (CHOOSE x \in u : x[1] = n)[2]
                   IN  IF n \in DOMAIN table THEN Patch(c.gone, c.set, table[n]) ELSE c.set
<1>8. /\ DOMAIN upd = {x[1] : x \in u} \cup DOMAIN table
      /\ \A n \in {x[1] : x \in u} : upd[n] = V(n)
      /\ \A n \in DOMAIN table : n \notin {x[1] : x \in u} => upd[n] = table[n]
      /\ upd = [n \in DOMAIN upd |-> upd[n]]
  BY SMTT(30) DEF UpdateTable, Overlay
<1>9. \A i \in C : At(i) \in {x[1] : x \in u}
  <2> SUFFICES ASSUME NEW i \in C PROVE At(i) \in {x[1] : x \in u}
    OBVIOUS
  <2>1. PICK x \in u : x = <<At(i), Changes(Old(i), arr[i])>>
    OBVIOUS
  <2>2. x[1] = At(i)
    BY <2>1
  <2> HIDE DEF u
  <2> QED
    BY <2>2
<1>10. ASSUME NEW i \in C
       PROVE  (CHOOSE x \in u : x[1] = At(i)) = <<At(i), Changes(Old(i), arr[i])>>
  <2>1. <<At(i), Changes(Old(i), arr[i])>> \in u
    OBVIOUS
  <2>2. \A x \in u : x[1] = At(i) => x = <<At(i), Changes(Old(i), arr[i])>>
    <3> SUFFICES ASSUME NEW j \in C, At(j) = At(i)
                 PROVE  j = i
      OBVIOUS
    <3> QED
      BY <1>2
  <2> QED
    BY <2>1, <2>2
<1>11. ASSUME NEW i \in C PROVE upd[At(i)] = arr[i]
  <2> DEFINE c == Changes(Old(i), arr[i])
  <2>1. (CHOOSE x \in u : x[1] = At(i))[2] = c
    <3> HIDE DEF u, c
    <3>1. (CHOOSE x \in u : x[1] = At(i)) = <<At(i), c>>
      BY <1>10 DEF c
    <3>2. <<At(i), c>>[2] = c
      OBVIOUS
    <3> QED
      BY <3>1, <3>2, Zenon
  <2>2. upd[At(i)] = IF At(i) \in DOMAIN table THEN Patch(c.gone, c.set, table[At(i)]) ELSE c.set
    BY <1>8, <1>9, <2>1
  <2>3. Patch(c.gone, c.set, Old(i)) = arr[i] /\ Changes(Empty, arr[i]).set = arr[i]
    BY <1>3, PatchOfChanges
  <2> QED
    BY <1>4, <1>5, <2>2, <2>3
<1>12. \A x \in u : \E i \in C : x[1] = At(i)
  OBVIOUS
<1>13. ASSUME NEW i \in T, i \notin C PROVE At(i) \in DOMAIN table /\ upd[At(i)] = arr[i]
  <2>1. At(i) \in DOMAIN table /\ table[At(i)] = arr[i]
    BY <1>4, <1>5, <1>6, <1>13
  <2>2. At(i) \notin {x[1] : x \in u}
    BY <1>2, <1>12, <1>13
  <2> QED
    BY <1>8, <2>1, <2>2
<1>14. \A i \in T : At(i) \in DOMAIN upd /\ upd[At(i)] = arr[i]
  BY <1>8, <1>9, <1>11, <1>13
<1>15. \A n \in DOMAIN table : (\A i \in T : At(i) # n) => n \in DOMAIN upd /\ upd[n] = table[n]
  BY <1>8, <1>12
<1>16. \A n \in DOMAIN upd : n \in DOMAIN table \/ \E i \in T : n = At(i)
  BY <1>8, <1>12
<1> HIDE DEF upd, C
<1>17. DOMAIN upd = DOMAIN new
  <2>1. DOMAIN table \subseteq DOMAIN upd
    BY <1>8
  <2> QED
    BY <1>7, <1>14, <1>16, <2>1
<1>18. \A n \in DOMAIN upd : upd[n] = new[n]
  BY <1>7, <1>14, <1>15, <1>16
<1>19. upd = new
  BY <1>7, <1>8, <1>17, <1>18
<1> QED
  BY <1>1, <1>19 DEF upd, new

\* The order and the verbatim entries give the array back.
LEMMA ArraysAgree ==
  ASSUME NEW k, NEW arr, Entities(arr), NEW index, Coded(index), NEW table
  PROVE  LET e == EncodeArray(index, table, k, arr)
         IN  Arrange(e.table, e.enc.o, e.enc.b) = arr
<1> DEFINE n == Len(arr)
           T == Tracked(k, arr)
           Rest == (1..n) \ T
           At(i) == AtOf(index, k, arr, i)
           new == EncodeArray(index, table, k, arr).table
           o == [i \in 1..n |-> IF i \in T THEN At(i) ELSE -1]
           b == [m \in 1..Cardinality(Rest) |-> arr[NthOf(Rest, m)]]
<1>1. EncodeArray(index, table, k, arr).enc.o = o /\ EncodeArray(index, table, k, arr).enc.b = b
  BY DEF EncodeArray, AtOf, AtPlaces
<1>2. n \in Nat /\ arr = [i \in 1..n |-> arr[i]]
  BY DEF Entities
<1>3. T \in SUBSET (1..n) /\ \A i \in T : At(i) \in Nat
  BY <1>2, TrackedTells, AtTells
<1>4. \A i \in T : At(i) \in DOMAIN new /\ new[At(i)] = arr[i]
  <2>1. TableFollows(new, index, table, k, arr)
    BY <1>2, EncodedTable
  <2> HIDE DEF new
  <2> QED
    BY <2>1 DEF TableFollows
<1> HIDE DEF n, T, At, new
<1>5. \A i \in 1..n : o[i] = -1 <=> i \in Rest
  BY <1>3
<1>6. Rest \in SUBSET (1..n) /\ Cardinality(Rest) \in Nat
  BY <1>2, RanksAre
<1>7. Len(o) = n /\ Len(b) = Cardinality(Rest)
  <2>1. o \in Seq(Int)
    BY <1>2, <1>3
  <2> QED
    BY <1>2, <1>6, <2>1
<1> DEFINE Nth(i) == Cardinality({j \in 1..i : o[j] = -1})
           Kept == {i \in 1..Len(o) : IF o[i] = -1 THEN Nth(i) <= Len(b)
                                      ELSE o[i] \in DOMAIN new}
           Value(i) == IF o[i] = -1 THEN b[Nth(i)] ELSE new[o[i]]
<1>8. \A i \in 1..n : i \in Rest => Nth(i) = Rank(Rest, i)
  <2> SUFFICES ASSUME NEW i \in 1..n PROVE {j \in 1..i : o[j] = -1} = {j \in Rest : j <= i}
    BY DEF Rank
  <2>1. \A j \in 1..i : j \in 1..n /\ j <= i
    BY <1>2
  <2>2. \A j \in 1..n : j <= i => j \in 1..i
    BY <1>2
  <2>3. \A j \in Rest : j \in 1..n
    OBVIOUS
  <2> HIDE DEF o, Rest
  <2> QED
    BY <1>5, <2>1, <2>2, <2>3
<1>9. \A i \in Rest : Rank(Rest, i) \in 1..Cardinality(Rest) /\ NthOf(Rest, Rank(Rest, i)) = i
  BY <1>2, <1>6, RanksAre, NthOfRank
<1>10. ASSUME NEW i \in 1..n PROVE i \in Kept /\ Value(i) = arr[i]
  <2>1. CASE i \in Rest
    <3>1. o[i] = -1 /\ Nth(i) \in 1..Len(b) /\ b[Nth(i)] = arr[i]
      BY <1>5, <1>7, <1>8, <1>9, <2>1
    <3>2. Nth(i) <= Len(b)
      BY <1>6, <1>7, <3>1
    <3> QED
      BY <1>7, <3>1, <3>2
  <2>2. CASE i \in T
    <3>1. o[i] = At(i) /\ o[i] # -1
      BY <1>3, <2>2
    <3> QED
      BY <1>4, <1>7, <2>2, <3>1
  <2> QED
    BY <2>1, <2>2
<1>11. Kept = 1..n
  BY <1>7, <1>10
<1>12. Cardinality(1..n) = n /\ \A i \in 1..n : NthOf(1..n, i) = i
  BY <1>2, NthOfAll
<1>13. Arrange(new, o, b) = [m \in 1..Cardinality(Kept) |-> Value(NthOf(Kept, m))]
  BY DEF Arrange
<1> HIDE DEF Kept, Value, o, b
<1>14. Arrange(new, o, b) = [m \in 1..n |-> Value(m)]
  BY <1>11, <1>12, <1>13
<1>15. Arrange(new, o, b) = arr
  BY <1>2, <1>10, <1>14
<1> QED
  BY <1>1, <1>15 DEF new

-----------------------------------------------------------------------------
(* One full frame there and back *)

\* Encoder and decoder have the same last full frame and the same tables.
Synced(e, d) ==
  /\ d.prev = e.prev /\ d.ents = e.table
  /\ DOMAIN e.index = Keyed /\ \A k \in Keyed : Coded(e.index[k])

FrameOk(f) == IsFn(f) /\ \A k \in Keyed \cap DOMAIN f : Entities(f[k])

LEMMA FrameComesBack ==
  ASSUME NEW e, NEW d, Synced(e, d), NEW f, FrameOk(f)
  PROVE  /\ UnpackDiff(d, EncodeFull(e, f).line).frame = f
         /\ Synced(EncodeFull(e, f).e, UnpackDiff(d, EncodeFull(e, f).line).d)
<1> DEFINE Diff == {k \in DOMAIN f : k \notin DOMAIN e.prev \/ e.prev[k] # f[k]}
           K == Diff \cap Keyed
           A == [k \in K |-> EncodeArray(e.index[k], e.table[k], k, f[k])]
           c == EncodeFull(e, f)
           line == c.line
           ents == Overlay([k \in DOMAIN line.ents |->
                              UpdateTable(d.ents[k], line.ents[k].u)], d.ents)
           arrays == [k \in DOMAIN line.ents |->
                        Arrange(ents[k], line.ents[k].o, line.ents[k].b)]
           base == Patch(line.gone, line.set, d.prev)
           frame == Overlay(arrays, base)
<1>1. /\ c.e.prev = f
      /\ c.e.index = Overlay([k \in K |-> A[k].index], e.index)
      /\ c.e.table = Overlay([k \in K |-> A[k].table], e.table)
      /\ line.ents = [k \in K |-> A[k].enc]
      /\ line.gone = DOMAIN e.prev \ DOMAIN f
      /\ line.set = Restrict(f, Diff \ Keyed)
  BY DEF EncodeFull
<1>2. UnpackDiff(d, line) = [d |-> [prev |-> frame, ents |-> ents], frame |-> frame]
  BY DEF UnpackDiff
<1> HIDE DEF c, line
<1>3. d.prev = e.prev /\ d.ents = e.table /\ DOMAIN e.index = Keyed
  BY DEF Synced
<1>4. ASSUME NEW k \in K
      PROVE  /\ A[k].index = Indexed(e.index[k], k, f[k])
             /\ Coded(Indexed(e.index[k], k, f[k]))
             /\ UpdateTable(e.table[k], A[k].enc.u) = A[k].table
             /\ Arrange(A[k].table, A[k].enc.o, A[k].enc.b) = f[k]
  <2>1. k \in Keyed /\ Coded(e.index[k])
    BY DEF Synced
  <2>2. Entities(f[k])
    BY DEF FrameOk
  <2>3. Len(f[k]) \in Nat
    BY <2>2 DEF Entities
  <2>4. A[k] = EncodeArray(e.index[k], e.table[k], k, f[k])
    OBVIOUS
  <2>5. EncodeArray(e.index[k], e.table[k], k, f[k]).index = Indexed(e.index[k], k, f[k])
    BY DEF EncodeArray
  <2> HIDE DEF A
  <2>6. Coded(Indexed(e.index[k], k, f[k]))
    BY <2>1, <2>3, IndexedIs
  <2>7. UpdateTable(e.table[k], A[k].enc.u) = A[k].table
    BY <2>1, <2>2, <2>4, TablesAgree
  <2>8. Arrange(A[k].table, A[k].enc.o, A[k].enc.b) = f[k]
    BY <2>1, <2>2, <2>4, ArraysAgree
  <2> QED
    BY <2>4, <2>5, <2>6, <2>7, <2>8
<1>5. DOMAIN A = K
  OBVIOUS
<1> HIDE DEF A
<1>6. ents = c.e.table
  <2>1. [k \in DOMAIN line.ents |-> UpdateTable(d.ents[k], line.ents[k].u)] = [k \in K |-> A[k].table]
    BY <1>1, <1>3, <1>4
  <2> QED
    BY <1>1, <1>3, <2>1
<1>7. \A k \in K : ents[k] = A[k].table
  BY <1>1, <1>6, ZenonT(40) DEF Overlay
<1> HIDE DEF ents
<1>8. arrays = [k \in K |-> f[k]]
  BY <1>1, <1>4, <1>7
<1> HIDE DEF arrays
<1>9. /\ DOMAIN base = (Diff \ Keyed) \cup (DOMAIN e.prev \cap DOMAIN f)
      /\ \A x \in Diff \ Keyed : base[x] = f[x]
      /\ \A x \in (DOMAIN e.prev \cap DOMAIN f) \ (Diff \ Keyed) : base[x] = e.prev[x]
  <2> DEFINE set == Restrict(f, Diff \ Keyed)
             rest == Restrict(e.prev, DOMAIN e.prev \ (DOMAIN e.prev \ DOMAIN f))
  <2>1. base = Overlay(set, rest)
    BY <1>1, <1>3 DEF Patch
  <2>2. /\ DOMAIN set = Diff \ Keyed
        /\ \A x \in Diff \ Keyed : set[x] = f[x]
        /\ DOMAIN rest = DOMAIN e.prev \cap DOMAIN f
        /\ \A x \in DOMAIN e.prev \cap DOMAIN f : rest[x] = e.prev[x]
    BY DEF Restrict
  <2>3. /\ DOMAIN base = DOMAIN set \cup DOMAIN rest
        /\ \A x \in DOMAIN set : base[x] = set[x]
        /\ \A x \in DOMAIN rest \ DOMAIN set : base[x] = rest[x]
    <3> HIDE DEF set, rest, base, Diff
    <3> QED
      BY <2>1 DEF Overlay
  <2> HIDE DEF set, rest, base, Diff
  <2> QED
    BY <2>2, <2>3
<1> HIDE DEF base
<1>10. /\ DOMAIN frame = K \cup DOMAIN base
       /\ \A x \in K : frame[x] = f[x]
       /\ \A x \in DOMAIN base \ K : frame[x] = base[x]
       /\ frame = [x \in DOMAIN frame |-> frame[x]]
  BY <1>8 DEF Overlay
<1> HIDE DEF frame
<1>11. \A x \in DOMAIN f : x \notin Diff => x \in DOMAIN e.prev /\ e.prev[x] = f[x]
  OBVIOUS
<1>12. Diff \subseteq DOMAIN f
  OBVIOUS
<1>13. frame = f
  <2> HIDE DEF Diff
  <2>1. DOMAIN frame = DOMAIN f
    BY <1>9, <1>10, <1>11, <1>12
  <2>2. \A x \in DOMAIN f : frame[x] = f[x]
    BY <1>9, <1>10, <1>11, <1>12
  <2> QED
    BY <1>10, <2>1, <2>2 DEF FrameOk, IsFn
<1>14. DOMAIN c.e.index = Keyed /\ \A k \in Keyed : Coded(c.e.index[k])
  <2>1. /\ DOMAIN c.e.index = K \cup DOMAIN e.index
        /\ \A k \in K : c.e.index[k] = A[k].index
        /\ \A k \in DOMAIN e.index \ K : c.e.index[k] = e.index[k]
    BY <1>1 DEF Overlay
  <2>2. \A k \in Keyed : Coded(e.index[k])
    BY DEF Synced
  <2> QED
    BY <1>3, <1>4, <2>1, <2>2
<1>15. Synced(c.e, [prev |-> frame, ents |-> ents])
  BY <1>1, <1>6, <1>13, <1>14 DEF Synced
<1> QED
  BY <1>2, <1>13, <1>15 DEF c, line

-----------------------------------------------------------------------------
(* Sums *)

LEMMA SumIs ==
  ASSUME NEW s, Len(s) \in Nat, \A i \in 1..Len(s) : s[i] \in Int
  PROVE  \E sum \in [0..Len(s) -> Int] :
           /\ sum[0] = 0 /\ \A i \in 1..Len(s) : sum[i] = sum[i - 1] + s[i]
           /\ SumSeqOf(s) = sum[Len(s)]
<1> DEFINE n == Len(s)
           Is(g) == g = [i \in 0..n |-> IF i = 0 THEN 0 ELSE g[i - 1] + s[i]]
           sum == CHOOSE g : Is(g)
<1>1. Is(sum)
  BY SumExists
<1>2. SumSeqOf(s) = sum[n]
  BY DEF SumSeqOf
<1> HIDE DEF sum, n
<1>3. n \in Nat /\ \A i \in 1..n : s[i] \in Int
  BY DEF n
<1>4. \A i \in 0..n : sum[i] = IF i = 0 THEN 0 ELSE sum[i - 1] + s[i]
  BY <1>1
<1>5. DOMAIN sum = 0..n /\ sum = [i \in 0..n |-> sum[i]]
  BY <1>1
<1> DEFINE T == {i \in 0..n : sum[i] \notin Int}
<1>6. T = {}
  <2> SUFFICES ASSUME T # {} PROVE FALSE
    OBVIOUS
  <2>1. PICK m \in T : \A k \in T : m <= k
    <3>1. T \in SUBSET Nat
      BY <1>3
    <3> QED
      BY <3>1, LeastNat
  <2>2. m \in 0..n /\ sum[m] \notin Int
    OBVIOUS
  <2>3. m # 0
    BY <1>3, <1>4, <2>2
  <2>4. m - 1 \in 0..n /\ m \in 1..n /\ m - 1 \notin T
    BY <1>3, <2>1, <2>2, <2>3
  <2>5. sum[m - 1] \in Int /\ s[m] \in Int
    BY <1>3, <2>4
  <2>6. sum[m] = sum[m - 1] + s[m]
    BY <1>4, <2>2, <2>3
  <2> QED
    BY <2>2, <2>5, <2>6
<1>7. sum \in [0..n -> Int]
  BY <1>5, <1>6
<1>8. sum[0] = 0 /\ \A i \in 1..n : sum[i] = sum[i - 1] + s[i]
  BY <1>3, <1>4
<1> QED
  BY <1>2, <1>7, <1>8 DEF n

LEMMA SumSmall ==
  ASSUME NEW s, Len(s) \in {0, 1}, \A i \in 1..Len(s) : s[i] \in Int
  PROVE  SumSeqOf(s) = IF Len(s) = 0 THEN 0 ELSE s[1]
<1>1. PICK sum \in [0..Len(s) -> Int] :
        /\ sum[0] = 0 /\ \A i \in 1..Len(s) : sum[i] = sum[i - 1] + s[i]
        /\ SumSeqOf(s) = sum[Len(s)]
  BY SumIs
<1>2. CASE Len(s) = 0
  BY <1>1, <1>2
<1>3. CASE Len(s) = 1
  <2>1. 1 \in 1..Len(s) /\ s[1] \in Int
    BY <1>3
  <2>2. sum[1] = sum[1 - 1] + s[1]
    BY <1>1, <2>1
  <2> QED
    BY <1>1, <1>3, <2>1, <2>2
<1> QED
  BY <1>2, <1>3

\* A sum is no smaller when no entry is.
LEMMA SumGrows ==
  ASSUME NEW s, Len(s) \in Nat, \A i \in 1..Len(s) : s[i] \in Int,
         NEW u, Len(u) = Len(s), \A i \in 1..Len(s) : u[i] \in Int /\ s[i] <= u[i]
  PROVE  SumSeqOf(s) \in Int /\ SumSeqOf(u) \in Int /\ SumSeqOf(s) <= SumSeqOf(u)
<1> DEFINE n == Len(s)
<1>1. PICK f \in [0..n -> Int] :
        /\ f[0] = 0 /\ \A i \in 1..n : f[i] = f[i - 1] + s[i]
        /\ SumSeqOf(s) = f[n]
  BY SumIs
<1>2. PICK g \in [0..n -> Int] :
        /\ g[0] = 0 /\ \A i \in 1..n : g[i] = g[i - 1] + u[i]
        /\ SumSeqOf(u) = g[n]
  BY SumIs
<1> HIDE DEF n
<1>3. n \in Nat /\ \A i \in 1..n : s[i] \in Int /\ u[i] \in Int /\ s[i] <= u[i]
  BY DEF n
<1> DEFINE T == {i \in 0..n : ~(f[i] <= g[i])}
<1>4. T = {}
  <2> SUFFICES ASSUME T # {} PROVE FALSE
    OBVIOUS
  <2>1. PICK m \in T : \A k \in T : m <= k
    <3>1. T \in SUBSET Nat
      BY <1>3
    <3> QED
      BY <3>1, LeastNat
  <2>2. m \in 0..n /\ ~(f[m] <= g[m])
    OBVIOUS
  <2>3. m # 0
    BY <1>1, <1>2, <2>2
  <2>4. m - 1 \in 0..n /\ m \in 1..n /\ m - 1 \notin T
    BY <1>3, <2>1, <2>2, <2>3
  <2>5. f[m - 1] <= g[m - 1]
    BY <2>4
  <2>6. f[m] = f[m - 1] + s[m] /\ g[m] = g[m - 1] + u[m]
    BY <1>1, <1>2, <2>4
  <2>7. f[m - 1] \in Int /\ g[m - 1] \in Int /\ s[m] \in Int /\ u[m] \in Int /\ s[m] <= u[m]
    BY <1>3, <2>4
  <2> QED
    BY <2>2, <2>5, <2>6, <2>7
<1>5. n \in 0..n
  BY <1>3
<1>6. f[n] <= g[n] /\ f[n] \in Int /\ g[n] \in Int
  BY <1>4, <1>5
<1> QED
  BY <1>1, <1>2, <1>6


-----------------------------------------------------------------------------
(* The match *)

WorldOk(w) ==
  /\ w.here \in SUBSET People /\ w.where \in {0, 1} /\ w.full \in Nat
  /\ w.deaths \in [People -> Nat] /\ w.tickets \in [TicketTeams -> Int]
  /\ w.car \in {"runs", "wreck", "gone"} /\ w.phase \in {"InProgress", "Post"}
  /\ People \ {Leaver} \subseteq w.here
  /\ DOMAIN w = DOMAIN World0 /\ IsFn(w)

\* What happens: these die, and then nobody comes or goes.
After(w, v, dead) ==
  /\ WorldOk(v) /\ v.full = w.full
  /\ \A p \in People : v.deaths[p] = w.deaths[p] + (IF p \in dead THEN 1 ELSE 0)
  /\ dead # {} => v.here = w.here

LEMMA PeopleFinite == IsFiniteSet(People)
<1> DEFINE n == Len(Roster)
<1>1. n \in Nat /\ Roster \in [1..n -> People]
  BY ReplayAssumption DEF People
<1>2. Roster \in Surjection(1..n, People)
  BY <1>1 DEF Surjection, People, Range
<1>3. IsFiniteSet(1..n)
  BY <1>1, FS_Interval
<1> QED
  BY <1>2, <1>3, FS_Surjection

\* One part of the match after another.
With(w, part, val) == [w EXCEPT ![part] = val]

LEMMA WithKeeps ==
  ASSUME NEW w, WorldOk(w), NEW part, part \notin {"here", "where", "full", "deaths"},
         NEW val, part = "tickets" => val \in [TicketTeams -> Int],
         part = "car" => val \in {"runs", "wreck", "gone"},
         part = "phase" => val \in {"InProgress", "Post"}
  PROVE  After(w, With(w, part, val), {}) /\ With(w, part, val).here = w.here
<1> DEFINE v == With(w, part, val)
<1>1. DOMAIN v = DOMAIN w /\ IsFn(v)
  BY DEF With, IsFn, WorldOk
<1>2. \A f \in {"here", "where", "full", "deaths", "tickets", "car", "phase"} :
        v[f] = IF f = part THEN val ELSE w[f]
  BY DEF With, WorldOk, World0
<1> HIDE DEF v
<1>3. v.here = w.here /\ v.where = w.where /\ v.full = w.full /\ v.deaths = w.deaths
  BY <1>2
<1>4. v.tickets \in [TicketTeams -> Int]
  <2>1. v.tickets = IF "tickets" = part THEN val ELSE w.tickets
    BY <1>2
  <2> QED
    BY <2>1 DEF WorldOk
<1>5. v.car \in {"runs", "wreck", "gone"}
  <2>1. v.car = IF "car" = part THEN val ELSE w.car
    BY <1>2
  <2> QED
    BY <2>1 DEF WorldOk
<1>6. \A p \in People : v.deaths[p] = w.deaths[p] + 0
  <2>1. \A p \in People : w.deaths[p] \in Nat
    BY DEF WorldOk
  <2> QED
    BY <1>3, <2>1
<1>7. v.phase \in {"InProgress", "Post"}
  <2>1. v.phase = IF "phase" = part THEN val ELSE w.phase
    BY <1>2
  <2> QED
    BY <2>1 DEF WorldOk
<1>8. WorldOk(v)
  BY <1>1, <1>3, <1>4, <1>5, <1>7 DEF WorldOk
<1> QED
  BY <1>3, <1>6, <1>8 DEF After, v

LEMMA AfterAfter ==
  ASSUME NEW u, NEW v, NEW w, NEW dead, WorldOk(u), After(u, v, dead), After(v, w, {}),
         w.here = v.here
  PROVE  After(u, w, dead)
<1>1. \A p \in People : u.deaths[p] \in Nat /\ v.deaths[p] \in Nat /\ w.deaths[p] \in Nat
  BY DEF After, WorldOk
<1>2. \A p \in People : w.deaths[p] = v.deaths[p] + 0
  BY DEF After
<1>3. \A p \in People : w.deaths[p] = v.deaths[p]
  BY <1>1, <1>2
<1> QED
  BY <1>3 DEF After

LEMMA RespawnedKeeps ==
  ASSUME NEW w, WorldOk(w)
  PROVE  /\ WorldOk(Respawned(w)) /\ Respawned(w).full = w.full + 1
         /\ Respawned(w).deaths = w.deaths /\ Respawned(w).here = w.here
<1> DEFINE v == Respawned(w)
<1>0. DOMAIN w = DOMAIN World0
  BY DEF WorldOk
<1>1. DOMAIN v = DOMAIN w /\ IsFn(v)
  BY DEF Respawned, IsFn, WorldOk
<1>2. /\ v.here = w.here /\ v.where = w.where /\ v.full = w.full + 1
      /\ v.deaths = w.deaths /\ v.tickets = w.tickets /\ v.car = w.car
      /\ v.phase = w.phase
  BY <1>0 DEF Respawned, World0
<1> HIDE DEF v
<1>3. v.full \in Nat
  BY <1>2 DEF WorldOk
<1>4. WorldOk(v)
  BY <1>1, <1>2, <1>3 DEF WorldOk
<1> QED
  BY <1>2, <1>4 DEF v

LEMMA KillKeeps ==
  ASSUME NEW w, WorldOk(w), NEW V, IsFiniteSet(V)
  PROVE  After(w, Kill(w, V), V)
<1> DEFINE v == Kill(w, V)
           deaths == [p \in People |-> w.deaths[p] + (IF p \in V THEN 1 ELSE 0)]
           left == [t \in TicketTeams |-> w.tickets[t] - Cardinality({p \in V : Team[p] = t})]
<1>0. DOMAIN w = DOMAIN World0
  BY DEF WorldOk
<1>1. DOMAIN v = DOMAIN w /\ IsFn(v)
  BY DEF Kill, IsFn, WorldOk
<1>2. /\ v.here = w.here /\ v.where = w.where /\ v.full = w.full /\ v.car = w.car
      /\ v.phase = w.phase /\ v.deaths = deaths /\ v.tickets = left
  BY <1>0 DEF Kill, World0
<1>3. \A p \in People : w.deaths[p] \in Nat
  BY DEF WorldOk
<1>4. /\ deaths \in [People -> Nat]
      /\ \A p \in People : deaths[p] = w.deaths[p] + (IF p \in V THEN 1 ELSE 0)
  BY <1>3
<1>5. left \in [TicketTeams -> Int]
  <2>1. \A t \in TicketTeams : Cardinality({p \in V : Team[p] = t}) \in Int
    <3> SUFFICES ASSUME NEW t \in TicketTeams
                 PROVE  Cardinality({p \in V : Team[p] = t}) \in Int
      OBVIOUS
    <3>1. IsFiniteSet({p \in V : Team[p] = t})
      BY FS_Subset
    <3>2. Cardinality({p \in V : Team[p] = t}) \in Nat
      BY <3>1, FS_CardinalityType
    <3> QED
      BY <3>2
  <2>2. \A t \in TicketTeams : w.tickets[t] \in Int
    BY DEF WorldOk
  <2> QED
    BY <2>1, <2>2
<1> HIDE DEF v, deaths, left
<1>6. WorldOk(v)
  BY <1>1, <1>2, <1>4, <1>5 DEF WorldOk
<1> QED
  BY <1>2, <1>4, <1>6 DEF After, v


LEMMA PutInt ==
  ASSUME NEW S, NEW f \in [S -> Int], NEW a, NEW val, a \in S => val \in Int
  PROVE  [f EXCEPT ![a] = val] \in [S -> Int]
OBVIOUS

LEMMA CarPriceIs == CarPrice \in Nat
BY ReplayAssumption DEF CarPrice

\* The fights and the fates, one by one.
LEMMA FightsAre ==
  ASSUME NEW w, NEW h \in Fights(w)
  PROVE  \/ \E x \in Attacks : h = Happening([w EXCEPT !.cond[x[2]] = "down"],
               <<Event(Name[x[1]], x[2], "wounded", w)>>, "none", {}, {x})
         \/ \E x \in Attacks : /\ x[2] \in w.here
              /\ h = Happening(Kill(w, {x[2]}), <<Event(Name[x[1]], x[2], "killed", w)>>,
                               "none", {x[2]}, {x})
         \/ \E x, y \in Attacks : /\ x # y /\ x[2] = y[2] /\ x[2] \in w.here
              /\ h = Happening(Kill(w, {x[2]}), <<Event(Name[x[1]], x[2], "wounded", w),
                                                 Event(Name[y[1]], x[2], "killed", w)>>,
                               "none", {x[2]}, {x, y})
<1> DEFINE Here(x) == x \in Attacks /\ x[1] \in w.here /\ x[2] \in w.here
           both == {y \in Attacks \X Attacks :
                      /\ Here(y[1]) /\ Here(y[2]) /\ Up(w, y[1][2])
                      /\ y[1] # y[2] /\ y[1][2] = y[2][2]}
<1>1. \/ \E x \in {y \in Attacks : Here(y) /\ Up(w, y[2])} :
             h = Happening([w EXCEPT !.cond[x[2]] = "down"],
               <<Event(Name[x[1]], x[2], "wounded", w)>>, "none", {}, {x})
      \/ \E x \in {y \in Attacks : Here(y)} :
             h = Happening(Kill(w, {x[2]}), <<Event(Name[x[1]], x[2], "killed", w)>>,
                           "none", {x[2]}, {x})
      \/ \E z \in both :
             h = Happening(Kill(w, {z[1][2]}), <<Event(Name[z[1][1]], z[1][2], "wounded", w),
                                               Event(Name[z[2][1]], z[1][2], "killed", w)>>,
                           "none", {z[1][2]}, {z[1], z[2]})
  BY DEF Fights
<1>2. \A z \in both : /\ z[1] \in Attacks /\ z[2] \in Attacks /\ z[1] # z[2]
                      /\ z[1][2] = z[2][2] /\ z[1][2] \in w.here
  OBVIOUS
<1> HIDE DEF both
<1>3. CASE \E z \in both :
             h = Happening(Kill(w, {z[1][2]}), <<Event(Name[z[1][1]], z[1][2], "wounded", w),
                                               Event(Name[z[2][1]], z[1][2], "killed", w)>>,
                           "none", {z[1][2]}, {z[1], z[2]})
  <2>1. PICK z \in both :
             h = Happening(Kill(w, {z[1][2]}), <<Event(Name[z[1][1]], z[1][2], "wounded", w),
                                               Event(Name[z[2][1]], z[1][2], "killed", w)>>,
                           "none", {z[1][2]}, {z[1], z[2]})
    BY <1>3
  <2>2. /\ z[1] \in Attacks /\ z[2] \in Attacks /\ z[1] # z[2]
        /\ z[1][2] = z[2][2] /\ z[1][2] \in w.here
    BY <1>2
  <2> QED
    BY <2>1, <2>2, Zenon
<1> QED
  BY <1>1, <1>3

LEMMA FatesAre ==
  ASSUME NEW w, NEW h \in Fates(w)
  PROVE  \/ \E p \in w.here : h = Happening(Kill(w, {p}), << >>, "none", {p}, {})
         \/ \E p \in w.here : \E att \in {None, Name[p]} :
              h = Happening(Kill(w, {p}), <<Event(att, p, "killed", w)>>, "none", {p}, {})
         \/ \E p : h = Plain([w EXCEPT !.cond[p] = "up"])
         \/ h = Happening(Kill(w, w.here \ {Gunner}), << >>, "none", w.here \ {Gunner}, {})
<1>1. \/ \E p \in {q \in Mortals : Down(w, q) \/ (Up(w, q) /\ Name[q] = None)} :
             h = Happening(Kill(w, {p}), << >>, "none", {p}, {})
      \/ \E p \in {q \in Mortals : Down(w, q)} : h = Plain([w EXCEPT !.cond[p] = "up"])
      \/ \E p \in {q \in Mortals : Up(w, q) /\ Name[q] # None} :
             h = Happening(Kill(w, {p}), <<Event(None, p, "killed", w)>>, "none", {p}, {})
      \/ \E p \in {q \in Mortals \ {Leaver} : Up(w, q) /\ Name[q] # None} :
             h = Happening(Kill(w, {p}), <<Event(Name[p], p, "killed", w)>>, "none", {p}, {})
      \/ h = Happening(Kill(w, w.here \ {Gunner}), << >>, "none", w.here \ {Gunner}, {})
  BY DEF Fates
<1>2. \A p : Up(w, p) \/ Down(w, p) => p \in w.here
  BY DEF Up, Down
<1> QED
  BY <1>1, <1>2, Zenon

\* Who dies was there and is still there, and the frame can be read.
Happened(w, h) ==
  /\ After(w, h.w, h.dead) /\ h.dead \in SUBSET w.here
  /\ h.dead # {} => h.fault = "none"

\* Whatever happens in the match, the players stay those of the roster, and
\* a death is counted of exactly those who die.
LEMMA HappeningsKeep ==
  ASSUME NEW w, WorldOk(w), NEW h \in Happenings(w)
  PROVE  Happened(w, h)
<1> DEFINE Wanted == Happened(w, h)
           crew == IF w.mounted THEN {Gunner} ELSE {}
           shot == Happening([Kill(w, crew) EXCEPT
                                   !.car = "wreck", !.mounted = FALSE,
                                   !.tickets[CarTeam] = @ - CarPrice],
                                << >>, "none", crew, {})
<1>0. After(w, w, {})
  <2>1. \A p \in People : w.deaths[p] \in Nat
    BY DEF WorldOk
  <2>2. \A p \in People : w.deaths[p] = w.deaths[p] + 0
    BY <2>1
  <2> QED
    BY <2>2 DEF After
<1>1. h \in Quiet(w) \/ h \in Fights(w) \/ h \in Fates(w) \/ h \in CarHappens(w)
  BY DEF Happenings
<1>12. ASSUME NEW part, part \notin {"here", "where", "full", "deaths"}, NEW val,
               part = "tickets" => val \in [TicketTeams -> Int],
               part = "car" => val \in {"runs", "wreck", "gone"},
               part = "phase" => val \in {"InProgress", "Post"},
               h.w = With(w, part, val), h.dead = {}
        PROVE  Wanted
  BY <1>12, WithKeeps DEF Happened
<1>2. CASE h \in Quiet(w)
  <2> DEFINE away == Plain([w EXCEPT !.here = IF Leaver \in @ THEN @ \ {Leaver} ELSE @ \cup {Leaver},
                                     !.cond[Leaver] = "up"])
  <2>1. CASE h = away
    <3> DEFINE v == [w EXCEPT !.here = IF Leaver \in @ THEN @ \ {Leaver} ELSE @ \cup {Leaver},
                              !.cond[Leaver] = "up"]
    <3>0. {"here", "where", "full", "cond", "deaths", "tickets", "car", "phase"} \subseteq DOMAIN w
      BY DEF WorldOk, World0
    <3>1. h.w = v /\ h.dead = {}
      BY <2>1 DEF Plain, Happening
    <3>2. DOMAIN v = DOMAIN w /\ IsFn(v)
      BY DEF IsFn, WorldOk
    <3>3. /\ v.here = IF Leaver \in w.here THEN w.here \ {Leaver} ELSE w.here \cup {Leaver}
          /\ v.where = w.where /\ v.full = w.full /\ v.deaths = w.deaths
          /\ v.tickets = w.tickets /\ v.car = w.car /\ v.phase = w.phase
      BY <3>0
    <3> HIDE DEF v
    <3>4. WorldOk(v)
      BY <3>2, <3>3, ReplayAssumption DEF WorldOk, People
    <3> QED
      BY <1>0, <3>1, <3>3, <3>4 DEF After, Happened
  <2>2. CASE h.w = w /\ h.dead = {}
    BY <1>0, <2>2 DEF Happened
  <2>3. CASE h = Plain([w EXCEPT !.clock = @ + AttackTtl])
    <3>1. h.w = With(w, "clock", w.clock + AttackTtl) /\ h.dead = {}
      BY <2>3 DEF Plain, Happening, With
    <3> QED
      BY <3>1, <1>12
  <2>4. CASE h = Plain([w EXCEPT !.squad = ~@])
    <3>1. h.w = With(w, "squad", ~w.squad) /\ h.dead = {}
      BY <2>4 DEF Plain, Happening, With
    <3> QED
      BY <3>1, <1>12
  <2>5. CASE h = Plain([w EXCEPT !.mounted = ~@ /\ w.car = "runs"])
    <3>1. h.w = With(w, "mounted", ~w.mounted /\ w.car = "runs") /\ h.dead = {}
      BY <2>5 DEF Plain, Happening, With
    <3> QED
      BY <3>1, <1>12
  <2>6. CASE h = Plain([w EXCEPT !.phase = IF @ = "Post" THEN "InProgress" ELSE "Post"])
    <3>1. h.w = With(w, "phase", IF w.phase = "Post" THEN "InProgress" ELSE "Post") /\ h.dead = {}
      BY <2>6 DEF Plain, Happening, With
    <3> QED
      BY <3>1, <1>12
  <2>7. CASE \/ h = Plain([w EXCEPT !.tickets[Drained] = @ - 1])
              \/ h = Happening([w EXCEPT !.tickets[Drained] = @ - 1], << >>, "unread", {}, {})
    <3>1. h.w = [w EXCEPT !.tickets[Drained] = @ - 1] /\ h.dead = {}
      BY <2>7 DEF Plain, Happening
    <3>2. h.w = With(w, "tickets", [w.tickets EXCEPT ![Drained] = @ - 1])
      BY <3>1 DEF With
    <3>3. [w.tickets EXCEPT ![Drained] = @ - 1] \in [TicketTeams -> Int]
      <4>1. w.tickets \in [TicketTeams -> Int]
        BY DEF WorldOk
      <4>2. Drained \in TicketTeams => w.tickets[Drained] - 1 \in Int
        BY <4>1
      <4> QED
        BY <4>1, <4>2, PutInt
    <3> QED
      BY <1>12, <3>1, <3>2, <3>3
  <2>8. CASE h = Plain([w EXCEPT !.tickets[Drained] = @ + 2])
    <3>1. h.w = [w EXCEPT !.tickets[Drained] = @ + 2] /\ h.dead = {}
      BY <2>8 DEF Plain, Happening
    <3>2. h.w = With(w, "tickets", [w.tickets EXCEPT ![Drained] = @ + 2])
      BY <3>1 DEF With
    <3>3. [w.tickets EXCEPT ![Drained] = @ + 2] \in [TicketTeams -> Int]
      <4>1. w.tickets \in [TicketTeams -> Int]
        BY DEF WorldOk
      <4>2. Drained \in TicketTeams => w.tickets[Drained] + 2 \in Int
        BY <4>1
      <4> QED
        BY <4>1, <4>2, PutInt
    <3> QED
      BY <1>12, <3>1, <3>2, <3>3
  <2>9. h = Plain(w) \/ h = Happening(w, << >>, "blind", {}, {}) => h.w = w /\ h.dead = {}
    BY DEF Plain, Happening
  <2> QED
    BY <1>2, <2>1, <2>2, <2>3, <2>4, <2>5, <2>6, <2>7, <2>8, <2>9 DEF Quiet
<1>5. ASSUME NEW V \in SUBSET w.here, NEW events, NEW hit,
             h = Happening(Kill(w, V), events, "none", V, hit)
      PROVE  Wanted
  <2>1. h.w = Kill(w, V) /\ h.dead = V /\ h.fault = "none"
    BY <1>5 DEF Happening
  <2>2. IsFiniteSet(V)
    BY PeopleFinite, FS_Subset DEF WorldOk
  <2> QED
    BY <2>1, <2>2, KillKeeps DEF Happened
<1>6. ASSUME NEW p \in w.here, NEW events, NEW hit,
             h = Happening(Kill(w, {p}), events, "none", {p}, hit)
      PROVE  Wanted
  <2>1. {p} \in SUBSET w.here
    OBVIOUS
  <2> QED
    BY <1>5, <1>6, <2>1
<1>8. ASSUME NEW x, NEW to, h.w = [w EXCEPT !.cond[x] = to], h.dead = {} PROVE Wanted
  <2>1. h.w = With(w, "cond", [w.cond EXCEPT ![x] = to])
    BY <1>8 DEF With
  <2> QED
    BY <1>12, <1>8, <2>1
<1>3. CASE h \in Fights(w)
  <2>1. CASE \E x \in Attacks : h = Happening([w EXCEPT !.cond[x[2]] = "down"],
                 <<Event(Name[x[1]], x[2], "wounded", w)>>, "none", {}, {x})
    <3>1. PICK x \in Attacks : h = Happening([w EXCEPT !.cond[x[2]] = "down"],
                 <<Event(Name[x[1]], x[2], "wounded", w)>>, "none", {}, {x})
      BY <2>1
    <3>2. h.w = [w EXCEPT !.cond[x[2]] = "down"] /\ h.dead = {}
      BY <3>1 DEF Happening
    <3> QED
      BY <1>8, <3>2
  <2>2. CASE \E x \in Attacks : /\ x[2] \in w.here
               /\ h = Happening(Kill(w, {x[2]}), <<Event(Name[x[1]], x[2], "killed", w)>>,
                                "none", {x[2]}, {x})
    <3>1. PICK x \in Attacks : /\ x[2] \in w.here
               /\ h = Happening(Kill(w, {x[2]}), <<Event(Name[x[1]], x[2], "killed", w)>>,
                                "none", {x[2]}, {x})
      BY <2>2
    <3> QED
      BY <1>6, <3>1
  <2>3. CASE \E x, y \in Attacks : /\ x # y /\ x[2] = y[2] /\ x[2] \in w.here
               /\ h = Happening(Kill(w, {x[2]}), <<Event(Name[x[1]], x[2], "wounded", w),
                                                  Event(Name[y[1]], x[2], "killed", w)>>,
                                "none", {x[2]}, {x, y})
    <3>1. PICK x \in Attacks, y \in Attacks : /\ x[2] \in w.here
               /\ h = Happening(Kill(w, {x[2]}), <<Event(Name[x[1]], x[2], "wounded", w),
                                                  Event(Name[y[1]], x[2], "killed", w)>>,
                                "none", {x[2]}, {x, y})
      BY <2>3
    <3> QED
      BY <1>6, <3>1
  <2> QED
    BY <1>3, <2>1, <2>2, <2>3, FightsAre
<1>4. CASE h \in Fates(w)
  <2>1. CASE \E p : h = Plain([w EXCEPT !.cond[p] = "up"])
    <3>1. PICK p : h = Plain([w EXCEPT !.cond[p] = "up"])
      BY <2>1
    <3>2. h.w = [w EXCEPT !.cond[p] = "up"] /\ h.dead = {}
      BY <3>1 DEF Plain, Happening
    <3> QED
      BY <1>8, <3>2
  <2>2. CASE \E p \in w.here : h = Happening(Kill(w, {p}), << >>, "none", {p}, {})
    BY <1>6, <2>2
  <2>3. CASE \E p \in w.here : \E att \in {None, Name[p]} :
               h = Happening(Kill(w, {p}), <<Event(att, p, "killed", w)>>, "none", {p}, {})
    BY <1>6, <2>3
  <2>4. CASE h = Happening(Kill(w, w.here \ {Gunner}), << >>, "none", w.here \ {Gunner}, {})
    <3>1. w.here \ {Gunner} \in SUBSET w.here
      OBVIOUS
    <3> QED
      BY <1>5, <2>4, <3>1
  <2> QED
    BY <1>4, <2>1, <2>2, <2>3, <2>4, FatesAre
<1>10. CASE h = shot
  <2> DEFINE v == Kill(w, crew)
             x == With(v, "car", "wreck")
             y == With(x, "mounted", FALSE)
  <2>0. {"car", "mounted", "tickets"} \subseteq DOMAIN v
    BY DEF WorldOk, World0, Kill
  <2>1. After(w, v, crew)
    <3>1. IsFiniteSet(crew)
      BY FS_Singleton, FS_EmptySet
    <3> QED
      BY <3>1, KillKeeps
  <2>9. crew \in SUBSET w.here /\ h.dead = crew /\ h.fault = "none" /\ v.here = w.here
    <3>1. Gunner \in w.here
      BY RosterAssumption DEF WorldOk
    <3>2. "here" \in DOMAIN w
      BY DEF WorldOk, World0
    <3> QED
      BY <1>10, <3>1, <3>2 DEF Happening, Kill
  <2> DEFINE val == [v.tickets EXCEPT ![CarTeam] = @ - CarPrice]
  <2>2. h.w = With(y, "tickets", val)
    <3>1. h.w = [v EXCEPT !.car = "wreck", !.mounted = FALSE,
                          !.tickets[CarTeam] = @ - CarPrice]
      BY <1>10 DEF Happening
    <3> HIDE DEF v
    <3> QED
      BY <2>0, <3>1 DEF With
  <2>3. val \in [TicketTeams -> Int]
    <3> HIDE DEF v
    <3>1. v.tickets \in [TicketTeams -> Int] /\ CarPrice \in Nat
      BY <2>1, CarPriceIs DEF After, WorldOk
    <3>2. CarTeam \in TicketTeams => v.tickets[CarTeam] - CarPrice \in Int
      BY <3>1
    <3> QED
      BY <3>1, <3>2, PutInt
  <2> HIDE DEF v, val, crew
  <2>4. After(v, x, {}) /\ WorldOk(v) /\ x.here = v.here
    <3>1. WorldOk(v)
      BY <2>1 DEF After
    <3> QED
      BY <3>1, WithKeeps
  <2> HIDE DEF x
  <2>5. After(x, y, {}) /\ WorldOk(x) /\ y.here = x.here
    <3>1. WorldOk(x)
      BY <2>4 DEF After
    <3> QED
      BY <3>1, WithKeeps
  <2> HIDE DEF y
  <2>6. After(y, h.w, {}) /\ h.w.here = y.here
    <3>1. WorldOk(y)
      BY <2>5 DEF After
    <3> QED
      BY <2>2, <2>3, <3>1, WithKeeps
  <2>7. After(w, x, crew)
    BY <2>1, <2>4, AfterAfter
  <2>8. After(w, y, crew)
    BY <2>5, <2>7, AfterAfter
  <2> QED
    BY <2>6, <2>8, <2>9, AfterAfter DEF Happened
<1>11. ASSUME NEW to \in {"wreck", "gone", "runs"}, h = Plain([w EXCEPT !.car = to]) PROVE Wanted
  <2>1. h.w = With(w, "car", to) /\ h.dead = {}
    BY <1>11 DEF Plain, Happening, With
  <2> QED
    BY <1>12, <2>1
<1>7. CASE h \in CarHappens(w)
  <2>1. h = shot \/ h = Plain([w EXCEPT !.car = "gone"]) \/ h = Plain([w EXCEPT !.car = "runs"])
    BY <1>7 DEF CarHappens
  <2> QED
    BY <1>10, <1>11, <2>1
<1> QED
  BY <1>1, <1>2, <1>3, <1>4, <1>7


\* What is reported of it is a list.
LEMMA EventsAre ==
  ASSUME NEW w, NEW h \in Happenings(w)
  PROVE  Len(h.events) \in Nat
<1>1. \A v, e, fault, dead, hit :
        /\ Len(Happening(v, << >>, fault, dead, hit).events) \in Nat
        /\ Len(Happening(v, <<e>>, fault, dead, hit).events) \in Nat
        /\ \A g : Len(Happening(v, <<e, g>>, fault, dead, hit).events) \in Nat
        /\ Len(Plain(v).events) \in Nat
  BY DEF Happening, Plain
<1>2. CASE h \in Quiet(w)
  BY <1>1, <1>2 DEF Quiet
<1>3. CASE h \in Fights(w)
  BY <1>1, <1>3, FightsAre
<1>4. CASE h \in Fates(w)
  BY <1>1, <1>4, FatesAre
<1>5. CASE h \in CarHappens(w)
  BY <1>1, <1>5 DEF CarHappens
<1> QED
  BY <1>2, <1>3, <1>4, <1>5 DEF Happenings

-----------------------------------------------------------------------------
(* Who is listed in a frame *)

\* A list of all of a set, nobody twice.
InOrder(s, n, H) ==
  /\ DOMAIN s = 1..n /\ \A i \in 1..n : s[i] \in H
  /\ \A i, j \in 1..n : s[i] = s[j] => i = j
  /\ \A p \in H : \E i \in 1..n : s[i] = p

LEMMA PresentAre ==
  ASSUME NEW w, WorldOk(w)
  PROVE  InOrder(Present(w), Cardinality(w.here), w.here) /\ Cardinality(w.here) \in Nat
<1> DEFINE n == Len(Roster)
           S == {i \in 1..n : Roster[i] \in w.here}
           c == Cardinality(S)
           who == Present(w)
<1>1. n \in Nat /\ S \in SUBSET (1..n)
  BY ReplayAssumption DEF People
<1>2. \A i, j \in 1..n : Roster[i] = Roster[j] => i = j
  BY RosterAssumption
<1>3. \A p \in w.here : \E i \in S : Roster[i] = p
  <2>1. w.here \subseteq People /\ DOMAIN Roster = 1..n
    BY ReplayAssumption DEF WorldOk
  <2> QED
    BY <2>1 DEF People, Range
<1>4. who = [m \in 1..c |-> Roster[NthOf(S, m)]]
  BY DEF Present, AtPlaces
<1>5. \A i \in S : Roster[i] \in w.here
  OBVIOUS
<1>6. c = Cardinality(w.here) /\ c \in Nat
  <2> DEFINE f == [i \in S |-> Roster[i]]
  <2>1. f \in Bijection(S, w.here)
    BY <1>1, <1>2, <1>3, <1>5 DEF Bijection, Injection, IsInjective, Surjection
  <2>2. ExistsBijection(S, w.here)
    BY <2>1 DEF ExistsBijection
  <2> QED
    BY <1>1, <2>2, RanksAre, FS_Bijection
<1> HIDE DEF n, S, who, c
<1>7. \A m \in 1..c : NthOf(S, m) \in S /\ Rank(S, NthOf(S, m)) = m
  BY <1>1, NthOfIs DEF c
<1>8. \A i \in S : Rank(S, i) \in 1..c /\ NthOf(S, Rank(S, i)) = i
  BY <1>1, RanksAre, NthOfRank DEF c
<1>9. \A m \in 1..c : who[m] \in w.here
  BY <1>4, <1>5, <1>7
<1>10. \A i, j \in 1..c : who[i] = who[j] => i = j
  BY <1>1, <1>2, <1>4, <1>7
<1>11. \A p \in w.here : \E m \in 1..c : who[m] = p
  <2> SUFFICES ASSUME NEW p \in w.here PROVE \E m \in 1..c : who[m] = p
    OBVIOUS
  <2>1. PICK i \in S : Roster[i] = p
    BY <1>3
  <2>2. Rank(S, i) \in 1..c /\ who[Rank(S, i)] = p
    BY <1>4, <1>8, <2>1
  <2> QED
    BY <2>2
<1> QED
  BY <1>4, <1>6, <1>9, <1>10, <1>11 DEF InOrder, who

\* An entry of a frame is this player, as he is in the match.
Shows(x, p, w) ==
  /\ x.eos = Eos[p] /\ x.name = Name[p] /\ x.team = Team[p]
  /\ x.deaths = w.deaths[p] /\ x.health \in Int /\ (x.health > 0 <=> w.cond[p] # "dead")

\* The players of a frame are those on the server, each once.
Roll(players, w) ==
  /\ Len(players) = Cardinality(w.here) /\ DOMAIN players = 1..Len(players)
  /\ \A i \in 1..Len(players) : Shows(players[i], Present(w)[i], w)

\* In this list each of these players is named once, and nobody else.
Named(s, V) ==
  /\ Len(s) = Cardinality(V) /\ Len(s) \in Nat
  /\ \A p \in People :
       Cardinality({j \in 1..Len(s) : s[j].name = Name[p] /\ s[j].team = Team[p]})
         = IF p \in V THEN 1 ELSE 0

\* Some of the named players on the server, taken from the frame.
LEMMA NamedAre ==
  ASSUME NEW w, WorldOk(w), NEW players, Roll(players, w), NEW V \in SUBSET WithName(w.here)
  PROVE  Named(AtPlaces(players, {i \in 1..Len(players) : Present(w)[i] \in V}), V)
<1> DEFINE n == Len(players)
           who == Present(w)
           D == {i \in 1..n : who[i] \in V}
           c == Cardinality(D)
           s == AtPlaces(players, D)
<1>1. n \in Nat /\ InOrder(who, n, w.here)
  BY PresentAre DEF Roll
<1>0. V \subseteq w.here
  BY DEF WithName
<1>2. \A i \in 1..n : players[i].name = Name[who[i]] /\ players[i].team = Team[who[i]]
  BY DEF Roll, Shows
<1>3. s = [m \in 1..c |-> players[NthOf(D, m)]]
  BY DEF AtPlaces
<1> HIDE DEF who, n
<1>4. /\ D \in SUBSET (1..n) /\ \A i \in D : who[i] \in V
      /\ \A i, j \in D : who[i] = who[j] => i = j
      /\ \A p \in V : \E i \in D : who[i] = p
  BY <1>0, <1>1 DEF InOrder
<1>5. c = Cardinality(V) /\ c \in Nat
  <2> DEFINE f == [i \in D |-> who[i]]
  <2>1. f \in Bijection(D, V)
    BY <1>4 DEF Bijection, Injection, IsInjective, Surjection
  <2>2. ExistsBijection(D, V)
    BY <2>1 DEF ExistsBijection
  <2> QED
    BY <1>1, <1>4, <2>2, RanksAre, FS_Bijection
<1> HIDE DEF D, s, c
<1>6. \A m \in 1..c : NthOf(D, m) \in D /\ Rank(D, NthOf(D, m)) = m
  BY <1>1, <1>4, NthOfIs DEF c
<1>7. \A i \in D : Rank(D, i) \in 1..c /\ NthOf(D, Rank(D, i)) = i
  BY <1>1, <1>4, RanksAre, NthOfRank DEF c
<1>8. Len(s) = c
  BY <1>3, <1>5
<1>9. \A m \in 1..c : LET p == who[NthOf(D, m)]
                      IN  p \in V /\ s[m].name = Name[p] /\ s[m].team = Team[p]
  BY <1>2, <1>3, <1>4, <1>6
<1>10. V \subseteq People /\ \A p \in V : Name[p] # None
  BY DEF WorldOk, WithName
<1>11. ASSUME NEW p \in People
       PROVE  Cardinality({j \in 1..Len(s) : s[j].name = Name[p] /\ s[j].team = Team[p]})
                = IF p \in V THEN 1 ELSE 0
  <2> DEFINE J == {j \in 1..Len(s) : s[j].name = Name[p] /\ s[j].team = Team[p]}
  <2>1. \A m \in 1..c : m \in J <=> who[NthOf(D, m)] = p
    BY <1>8, <1>9, <1>10, RosterAssumption
  <2>2. J \subseteq 1..c
    BY <1>8
  <2> HIDE DEF J
  <2>3. CASE p \in V
    <3>1. PICK i \in D : who[i] = p
      BY <1>4, <2>3
    <3>2. Rank(D, i) \in J
      BY <1>7, <2>1, <3>1
    <3>3. \A m \in J : m = Rank(D, i)
      BY <1>4, <1>6, <2>1, <2>2, <3>1
    <3>4. J = {Rank(D, i)}
      BY <3>2, <3>3
    <3>5. Cardinality(J) = 1
      BY <3>4, FS_Singleton
    <3> QED
      BY <2>3, <3>5 DEF J
  <2>4. CASE p \notin V
    <3>1. J = {}
      BY <1>6, <1>9, <2>1, <2>2, <2>4
    <3>2. Cardinality(J) = 0
      BY <3>1, FS_EmptySet
    <3> QED
      BY <2>4, <3>2 DEF J
  <2> QED
    BY <2>3, <2>4
<1> QED
  BY <1>5, <1>8, <1>11 DEF Named, s, D, n, who

-----------------------------------------------------------------------------
(* The counters and who has died *)

IdFor(p) == OrElse(Eos[p], Name[p])

\* The counters of the feed are those of the match, of everybody named on
\* the server and of nobody else.
Counted(prev, w) ==
  /\ DOMAIN prev = {IdFor(p) : p \in WithName(w.here)}
  /\ \A p \in WithName(w.here) : prev[IdFor(p)] = w.deaths[p]

LEMMA IdsTell == \A p, q \in People : IdFor(p) = IdFor(q) => p = q
BY RosterAssumption DEF IdFor

LEMMA CountersAre ==
  ASSUME NEW w, WorldOk(w), NEW players, Roll(players, w)
  PROVE  Counted(Counters(players), w)
<1> DEFINE n == Len(players)
           who == Present(w)
           N == {i \in 1..n : players[i].name # None}
           At(k) == CHOOSE i \in N : /\ IdOf(players[i]) = k
                                     /\ \A j \in N : j > i => IdOf(players[j]) # k
           H == WithName(w.here)
           prev == Counters(players)
<1>1. n \in Nat /\ InOrder(who, n, w.here) /\ w.here \subseteq People
  BY PresentAre DEF Roll, WorldOk
<1>2. \A i \in 1..n : /\ IdOf(players[i]) = IdFor(who[i]) /\ players[i].name = Name[who[i]]
                       /\ players[i].deaths = w.deaths[who[i]]
  BY DEF Roll, Shows, IdOf, IdFor
<1>3. prev = [k \in {IdOf(players[i]) : i \in N} |-> players[At(k)].deaths]
  BY DEF Counters
<1> HIDE DEF who, n, prev
<1>4. \A i \in N : i \in Int /\ who[i] \in H /\ who[i] \in People
  BY <1>1, <1>2 DEF InOrder, WithName
<1>9. \A p \in H : \E i \in N : who[i] = p
  BY <1>1, <1>2 DEF InOrder, WithName
<1>10. \A i, j \in N : who[i] = who[j] => i = j
  BY <1>1 DEF InOrder
<1>11. \A i \in N : IdOf(players[i]) = IdFor(who[i]) /\ players[i].deaths = w.deaths[who[i]]
  BY <1>2
<1> HIDE DEF N, H
<1>5. \A i, j \in N : IdOf(players[i]) = IdOf(players[j]) => i = j
  BY <1>4, <1>10, <1>11, IdsTell
<1>6. {IdOf(players[i]) : i \in N} = {IdFor(p) : p \in H}
  <2>1. \A p \in H : \E i \in N : IdFor(p) = IdOf(players[i])
    BY <1>9, <1>11
  <2> QED
    BY <1>4, <1>11, <2>1
<1>7. ASSUME NEW p \in H PROVE prev[IdFor(p)] = w.deaths[p]
  <2>1. PICK i \in N : who[i] = p
    BY <1>9
  <2>2. At(IdFor(p)) = i
    <3>1. \A j \in N : j > i => j # i
      BY <1>4
    <3>2. IdOf(players[i]) = IdFor(p)
      BY <1>11, <2>1
    <3>3. \A j \in N : j > i => IdOf(players[j]) # IdFor(p)
      BY <1>5, <3>1, <3>2
    <3> QED
      BY <1>5, <3>2, <3>3
  <2>3. IdFor(p) \in {IdOf(players[j]) : j \in N}
    BY <1>6
  <2> HIDE DEF At
  <2>4. prev[IdFor(p)] = players[i].deaths
    BY <1>3, <2>2, <2>3
  <2> QED
    BY <1>11, <2>1, <2>4
<1>8. DOMAIN prev = {IdFor(p) : p \in H}
  BY <1>3, <1>6
<1> QED
  BY <1>7, <1>8 DEF Counted, prev, H

\* The counters have risen of exactly those named who died.
LEMMA DeathsAre ==
  ASSUME NEW w, WorldOk(w), NEW v, NEW dead \in SUBSET w.here, After(w, v, dead),
         NEW d, Counted(d.prev, w), NEW players, Roll(players, v)
  PROVE  Named(Deaths(d, players), WithName(dead))
<1> DEFINE n == Len(players)
           who == Present(v)
           V == WithName(dead)
           Risen(x) == /\ x.name # None /\ IdOf(x) \in DOMAIN d.prev
                       /\ x.deaths > d.prev[IdOf(x)]
<1>1. WorldOk(v) /\ V \in SUBSET WithName(v.here)
  BY DEF After, WithName
<1>2. \A i \in 1..n : /\ IdOf(players[i]) = IdFor(who[i]) /\ players[i].name = Name[who[i]]
                       /\ players[i].deaths = v.deaths[who[i]]
  BY DEF Roll, Shows, IdOf, IdFor
<1>3. \A i \in 1..n : who[i] \in People
  BY <1>1, PresentAre DEF Roll, InOrder, WorldOk
<1>4. \A p \in People : /\ w.deaths[p] \in Nat /\ v.deaths[p] \in Nat
                        /\ v.deaths[p] = w.deaths[p] + (IF p \in dead THEN 1 ELSE 0)
  BY <1>1 DEF After, WorldOk
<1>5. WithName(w.here) \subseteq People
  BY DEF WorldOk, WithName
<1>6. \A p \in People : p \in WithName(w.here) <=> IdFor(p) \in DOMAIN d.prev
  BY <1>5, IdsTell DEF Counted
<1>7. \A i \in 1..n : Risen(players[i]) <=> who[i] \in V
  <2> SUFFICES ASSUME NEW i \in 1..n PROVE Risen(players[i]) <=> who[i] \in V
    OBVIOUS
  <2> DEFINE p == who[i]
  <2>1. p \in People
    BY <1>3
  <2>4. players[i].name = Name[p] /\ IdOf(players[i]) = IdFor(p)
        /\ players[i].deaths = v.deaths[p]
    BY <1>2
  <2> HIDE DEF who, p
  <2>2. CASE p \notin WithName(w.here)
    <3>1. p \notin V
      BY <2>2 DEF WithName
    <3> QED
      BY <1>6, <2>1, <2>2, <2>4, <3>1 DEF p
  <2>3. CASE p \in WithName(w.here)
    <3>1. d.prev[IdFor(p)] = w.deaths[p] /\ IdFor(p) \in DOMAIN d.prev
      BY <1>6, <2>1, <2>3 DEF Counted
    <3>5. Name[p] # None
      BY <2>3 DEF WithName
    <3>2. Risen(players[i]) <=> v.deaths[p] > w.deaths[p]
      BY <2>4, <3>1, <3>5
    <3>3. v.deaths[p] > w.deaths[p] <=> p \in dead
      BY <1>4, <2>1
    <3>4. p \in dead <=> p \in V
      BY <3>5 DEF WithName
    <3> QED
      BY <3>2, <3>3, <3>4 DEF p
  <2> QED
    BY <2>2, <2>3
<1>8. {i \in 1..n : Risen(players[i])} = {i \in 1..n : who[i] \in V}
  BY <1>7
<1>9. Deaths(d, players) = AtPlaces(players, {i \in 1..n : who[i] \in V})
  <2>1. Deaths(d, players) = AtPlaces(players, {i \in 1..n : Risen(players[i])})
    BY DEF Deaths
  <2> HIDE DEF Risen, who, V
  <2> QED
    BY <1>8, <2>1
<1> HIDE DEF V
<1> QED
  BY <1>1, <1>9, NamedAre DEF V

-----------------------------------------------------------------------------
(* One snapshot through the feed *)

\* The recursive function that goes through the events exists.
Buffering(g, n, d, ev, now) ==
  g = [i \in 0..n |-> IF i = 0 THEN d ELSE BufferEvent(g[i - 1], ev[i], now)]

LEMMA BufferingExists ==
  ASSUME NEW d, NEW ev, NEW now, NEW n \in Nat
  PROVE  \E g : Buffering(g, n, d, ev, now)
<1> DEFINE Is(g, k) == g = [i \in 0..k |-> IF i = 0 THEN d ELSE BufferEvent(g[i - 1], ev[i], now)]
           T == {k \in Nat : ~\E g : Is(g, k)}
<1> SUFFICES ASSUME T # {} PROVE FALSE
  BY DEF Buffering
<1>1. PICK m \in T : \A k \in T : m <= k
  BY LeastNat
<1>2. m \in Nat /\ ~\E g : Is(g, m)
  OBVIOUS
<1>3. CASE m = 0
  <2> DEFINE e == [i \in 0..0 |-> d]
  <2>1. Is(e, 0)
    OBVIOUS
  <2> QED
    BY <1>2, <1>3, <2>1
<1>4. CASE m # 0
  <2>1. m - 1 \in Nat
    BY <1>2, <1>4
  <2>2. m - 1 \notin T
    <3> SUFFICES ASSUME m - 1 \in T PROVE FALSE
      OBVIOUS
    <3>1. m <= m - 1
      BY <1>1
    <3> QED
      BY <1>2, <3>1
  <2>3. PICK h : Is(h, m - 1)
    BY <2>1, <2>2
  <2> DEFINE g == [i \in 0..m |-> IF i < m THEN h[i] ELSE BufferEvent(h[m - 1], ev[m], now)]
  <2>4. \A i \in 0..m : g[i] = IF i = 0 THEN d ELSE BufferEvent(g[i - 1], ev[i], now)
    <3> SUFFICES ASSUME NEW i \in 0..m
                 PROVE  g[i] = IF i = 0 THEN d ELSE BufferEvent(g[i - 1], ev[i], now)
      OBVIOUS
    <3>1. CASE i < m
      <4>1. i \in 0..m - 1 /\ g[i] = h[i]
        BY <1>2, <3>1
      <4>2. h[i] = IF i = 0 THEN d ELSE BufferEvent(h[i - 1], ev[i], now)
        BY <2>3, <4>1
      <4>3. i # 0 => g[i - 1] = h[i - 1]
        BY <1>2, <3>1
      <4> QED
        BY <4>1, <4>2, <4>3
    <3>2. CASE i = m
      <4>1. i # 0 /\ g[i - 1] = h[i - 1] /\ g[i] = BufferEvent(h[m - 1], ev[m], now)
        BY <1>2, <1>4, <3>2
      <4> QED
        BY <3>2, <4>1
    <3> QED
      BY <1>2, <3>1, <3>2
  <2>5. Is(g, m)
    BY <2>4
  <2> QED
    BY <1>2, <2>5
<1> QED
  BY <1>3, <1>4

\* The recursive function that goes through the dead exists.
Crediting(g, n, d, dead, snap) ==
  g = [i \in 0..n |-> IF i = 0 THEN [d |-> d, rows |-> << >>] ELSE CreditDeath(g[i - 1], dead[i], snap)]

LEMMA CreditingExists ==
  ASSUME NEW d, NEW dead, NEW snap, NEW n \in Nat
  PROVE  \E g : Crediting(g, n, d, dead, snap)
<1> DEFINE Is(g, k) == g = [i \in 0..k |-> IF i = 0 THEN [d |-> d, rows |-> << >>] ELSE CreditDeath(g[i - 1], dead[i], snap)]
           T == {k \in Nat : ~\E g : Is(g, k)}
<1> SUFFICES ASSUME T # {} PROVE FALSE
  BY DEF Crediting
<1>1. PICK m \in T : \A k \in T : m <= k
  BY LeastNat
<1>2. m \in Nat /\ ~\E g : Is(g, m)
  OBVIOUS
<1>3. CASE m = 0
  <2> DEFINE e == [i \in 0..0 |-> [d |-> d, rows |-> << >>]]
  <2>1. Is(e, 0)
    OBVIOUS
  <2> QED
    BY <1>2, <1>3, <2>1
<1>4. CASE m # 0
  <2>1. m - 1 \in Nat
    BY <1>2, <1>4
  <2>2. m - 1 \notin T
    <3> SUFFICES ASSUME m - 1 \in T PROVE FALSE
      OBVIOUS
    <3>1. m <= m - 1
      BY <1>1
    <3> QED
      BY <1>2, <3>1
  <2>3. PICK h : Is(h, m - 1)
    BY <2>1, <2>2
  <2> DEFINE g == [i \in 0..m |-> IF i < m THEN h[i] ELSE CreditDeath(h[m - 1], dead[m], snap)]
  <2>4. \A i \in 0..m : g[i] = IF i = 0 THEN [d |-> d, rows |-> << >>] ELSE CreditDeath(g[i - 1], dead[i], snap)
    <3> SUFFICES ASSUME NEW i \in 0..m
                 PROVE  g[i] = IF i = 0 THEN [d |-> d, rows |-> << >>] ELSE CreditDeath(g[i - 1], dead[i], snap)
      OBVIOUS
    <3>1. CASE i < m
      <4>1. i \in 0..m - 1 /\ g[i] = h[i]
        BY <1>2, <3>1
      <4>2. h[i] = IF i = 0 THEN [d |-> d, rows |-> << >>] ELSE CreditDeath(h[i - 1], dead[i], snap)
        BY <2>3, <4>1
      <4>3. i # 0 => g[i - 1] = h[i - 1]
        BY <1>2, <3>1
      <4> QED
        BY <4>1, <4>2, <4>3
    <3>2. CASE i = m
      <4>1. i # 0 /\ g[i - 1] = h[i - 1] /\ g[i] = CreditDeath(h[m - 1], dead[m], snap)
        BY <1>2, <1>4, <3>2
      <4> QED
        BY <3>2, <4>1
    <3> QED
      BY <1>2, <3>1, <3>2
  <2>5. Is(g, m)
    BY <2>4
  <2> QED
    BY <1>2, <2>5
<1> QED
  BY <1>3, <1>4

\* The counters and the switch are not touched.
SameCounters(x, d) ==
  x.prev = d.prev /\ x.inited = d.inited /\ DOMAIN x = DOMAIN NewDiff

LEMMA BufferEventsKeep ==
  ASSUME NEW d, DOMAIN d = DOMAIN NewDiff, NEW snap, Len(snap.events) \in Nat
  PROVE  SameCounters(BufferEvents(d, snap), d)
<1> DEFINE n == Len(snap.events)
           Is(g) == Buffering(g, n, d, snap.events, snap.time)
           f == CHOOSE g : Is(g)
<1>1. BufferEvents(d, snap) = f[n]
  BY DEF BufferEvents, Buffering
<1>2. Is(f)
  BY BufferingExists
<1>3. \A i \in 0..n : f[i] = IF i = 0 THEN d
                             ELSE BufferEvent(f[i - 1], snap.events[i], snap.time)
  BY <1>2 DEF Buffering
<1> HIDE DEF f, n, Is
<1>4. n \in Nat
  BY DEF n
<1> DEFINE T == {i \in 0..n : ~SameCounters(f[i], d)}
<1>5. T = {}
  <2> SUFFICES ASSUME T # {} PROVE FALSE
    OBVIOUS
  <2>1. PICK m \in T : \A k \in T : m <= k
    <3>1. T \in SUBSET Nat
      BY <1>4
    <3> QED
      BY <3>1, LeastNat
  <2>2. m \in 0..n /\ ~SameCounters(f[m], d)
    OBVIOUS
  <2>3. m # 0
    <3>1. f[0] = d
      BY <1>3, <1>4
    <3> QED
      BY <2>2, <3>1 DEF SameCounters
  <2>4. m - 1 \in 0..n /\ m - 1 \notin T
    BY <1>4, <2>1, <2>2, <2>3
  <2>5. SameCounters(f[m - 1], d)
    BY <2>4
  <2>6. f[m] = BufferEvent(f[m - 1], snap.events[m], snap.time)
    BY <1>3, <2>2, <2>3
  <2> DEFINE a == f[m - 1]
  <2> HIDE DEF a
  <2>7. SameCounters(BufferEvent(a, snap.events[m], snap.time), a)
    <3>1. {"prev", "inited", "seen", "buffer"} \subseteq DOMAIN a /\ DOMAIN a = DOMAIN NewDiff
      BY <2>5 DEF SameCounters, NewDiff, a
    <3> QED
      BY <3>1 DEF BufferEvent, SameCounters
  <2> QED
    BY <2>2, <2>5, <2>6, <2>7 DEF SameCounters, a
<1>6. n \in 0..n
  BY <1>4
<1> QED
  BY <1>1, <1>5, <1>6

\* A row for each of the dead so far, in their order.
RowsFor(acc, n, d, dead) ==
  /\ DOMAIN acc = {"d", "rows"} /\ SameCounters(acc.d, d)
  /\ Len(acc.rows) = n
  /\ \A i \in 1..n : acc.rows[i].victim = dead[i].name /\ acc.rows[i].victimTeam = dead[i].team

LEMMA CreditDeathAdds ==
  ASSUME NEW acc, NEW n \in Nat, NEW d, NEW dead, NEW snap, RowsFor(acc, n, d, dead)
  PROVE  RowsFor(CreditDeath(acc, dead[n + 1], snap), n + 1, d, dead)
<1> DEFINE p == dead[n + 1]
           C == Creditable(acc.d, p)
           i == CHOOSE i \in C : \A j \in C : j <= i
           next == CreditDeath(acc, p, snap)
           r == IF C = {} THEN WorldRow(p, snap)
                ELSE CreditedRow(acc.d, p, acc.d.buffer[i].ev, snap)
<1>1. DOMAIN acc = {"d", "rows"} /\ SameCounters(acc.d, d) /\ Len(acc.rows) = n
  BY DEF RowsFor
<1>2. r.victim = p.name /\ r.victimTeam = p.team
  BY DEF WorldRow, CreditedRow
<1>3. /\ DOMAIN next = {"d", "rows"} /\ next.rows = Append(acc.rows, r)
      /\ next.d = IF C = {} THEN acc.d ELSE [acc.d EXCEPT !.buffer[i].used = TRUE]
  BY <1>1 DEF CreditDeath
<1> HIDE DEF next, r, C, i
<1>4. SameCounters(next.d, d)
  <2>1. {"prev", "inited", "buffer"} \subseteq DOMAIN acc.d /\ DOMAIN acc.d = DOMAIN NewDiff
    BY <1>1 DEF SameCounters, NewDiff
  <2> QED
    BY <1>1, <1>3, <2>1 DEF SameCounters
<1>5. /\ Len(next.rows) = n + 1 /\ next.rows[n + 1] = r
      /\ \A k \in 1..n : next.rows[k] = acc.rows[k]
  BY <1>1, <1>3
<1>6. \A k \in 1..n + 1 :
        next.rows[k].victim = dead[k].name /\ next.rows[k].victimTeam = dead[k].team
  <2>1. \A k \in 1..n + 1 : k \in 1..n \/ k = n + 1
    OBVIOUS
  <2> QED
    BY <1>2, <1>5, <2>1 DEF RowsFor
<1> QED
  BY <1>3, <1>4, <1>5, <1>6 DEF RowsFor, next

LEMMA CreditDeathsAre ==
  ASSUME NEW d, DOMAIN d = DOMAIN NewDiff, NEW dead, Len(dead) \in Nat, NEW snap
  PROVE  RowsFor(CreditDeaths(d, dead, snap), Len(dead), d, dead)
<1> DEFINE n == Len(dead)
           Is(g) == Crediting(g, n, d, dead, snap)
           f == CHOOSE g : Is(g)
<1>1. CreditDeaths(d, dead, snap) = f[n]
  BY DEF CreditDeaths, Crediting
<1>2. Is(f)
  BY CreditingExists
<1>3. \A i \in 0..n : f[i] = IF i = 0 THEN [d |-> d, rows |-> << >>]
                             ELSE CreditDeath(f[i - 1], dead[i], snap)
  BY <1>2 DEF Crediting
<1> HIDE DEF f, n, Is
<1>4. n \in Nat
  BY DEF n
<1> DEFINE T == {i \in 0..n : ~RowsFor(f[i], i, d, dead)}
<1>5. T = {}
  <2> SUFFICES ASSUME T # {} PROVE FALSE
    OBVIOUS
  <2>1. PICK m \in T : \A k \in T : m <= k
    <3>1. T \in SUBSET Nat
      BY <1>4
    <3> QED
      BY <3>1, LeastNat
  <2>2. m \in 0..n /\ ~RowsFor(f[m], m, d, dead)
    OBVIOUS
  <2>3. m # 0
    <3>1. f[0] = [d |-> d, rows |-> << >>]
      BY <1>3, <1>4
    <3>2. RowsFor(f[0], 0, d, dead)
      BY <3>1 DEF RowsFor, SameCounters
    <3> QED
      BY <2>2, <3>2
  <2> DEFINE l == m - 1
  <2>4. l \in 0..n /\ l \in Nat /\ l \notin T /\ l + 1 = m
    BY <1>4, <2>1, <2>2, <2>3
  <2>5. f[m] = CreditDeath(f[l], dead[m], snap)
    BY <1>3, <2>2, <2>3
  <2> HIDE DEF l
  <2>6. RowsFor(f[l], l, d, dead)
    BY <2>4
  <2>7. RowsFor(CreditDeath(f[l], dead[l + 1], snap), l + 1, d, dead)
    BY <2>4, <2>6, CreditDeathAdds
  <2> QED
    BY <2>2, <2>4, <2>5, <2>7
<1>6. n \in 0..n
  BY <1>4
<1> QED
  BY <1>1, <1>5, <1>6 DEF n

\* One snapshot: the counters follow it, and unless it is the first or the
\* match is in transition there is a row for each of the dead.
Diffed(r, d, snap, dead) ==
  /\ DOMAIN r.d = DOMAIN NewDiff /\ r.d.inited /\ r.d.prev = Counters(snap.players)
  /\ Len(r.rows) = IF ~d.inited \/ InTransition(snap, dead) THEN 0 ELSE Len(dead)
  /\ \A i \in 1..Len(r.rows) :
       r.rows[i].victim = dead[i].name /\ r.rows[i].victimTeam = dead[i].team

LEMMA DiffIs ==
  ASSUME NEW d, DOMAIN d = DOMAIN NewDiff, NEW snap, Len(snap.events) \in Nat,
         NEW dead, dead = Deaths(d, snap.players), Len(dead) \in Nat
  PROVE  Diffed(DiffSnapshot(d, snap), d, snap, dead)
<1> DEFINE r == DiffSnapshot(d, snap)
           held == HeldWeapons(snap.players) @@ d.weapons
           prev == Counters(snap.players)
           seeded == [d EXCEPT !.weapons = held, !.prev = prev, !.inited = TRUE]
           c == CreditDeaths(BufferEvents(seeded, snap), dead, snap)
           skip == ~d.inited \/ InTransition(snap, dead)
<1>1. r = IF skip THEN [d |-> seeded, rows |-> << >>]
          ELSE [d |-> Aged(c.d, snap.time), rows |-> c.rows]
  BY DEF DiffSnapshot
<1> HIDE DEF held, prev, skip
<1>2. DOMAIN seeded = DOMAIN NewDiff /\ seeded.inited /\ seeded.prev = prev
  BY DEF NewDiff
<1> HIDE DEF seeded, c, r
<1>3. CASE skip
  <2>1. r.d = seeded /\ r.rows = << >>
    BY <1>1, <1>3
  <2> QED
    BY <1>2, <1>3, <2>1 DEF Diffed, r, prev, skip
<1>4. CASE ~skip
  <2>1. SameCounters(BufferEvents(seeded, snap), seeded)
    BY <1>2, BufferEventsKeep
  <2>2. DOMAIN BufferEvents(seeded, snap) = DOMAIN NewDiff
    BY <2>1 DEF SameCounters
  <2>3. RowsFor(c, Len(dead), BufferEvents(seeded, snap), dead)
    BY <2>2, CreditDeathsAre DEF c
  <2>4. DOMAIN c.d = DOMAIN NewDiff /\ c.d.inited /\ c.d.prev = prev
    BY <1>2, <2>1, <2>3 DEF RowsFor, SameCounters
  <2>5. LET a == Aged(c.d, snap.time)
        IN  DOMAIN a = DOMAIN NewDiff /\ a.inited /\ a.prev = prev
    BY <2>4 DEF Aged, NewDiff
  <2>6. r.d = Aged(c.d, snap.time) /\ r.rows = c.rows
    BY <1>1, <1>4
  <2> QED
    BY <1>4, <2>3, <2>5, <2>6 DEF Diffed, RowsFor, r, prev, skip
<1> QED
  BY <1>3, <1>4

-----------------------------------------------------------------------------
(* The invariant *)

\* What the ticket analysis takes from a frame: the car has the health it
\* has in the match as it is, and a team has the deaths it has there.
Tallies(f, w) ==
  /\ DOMAIN f.vehicles = 1..Len(f.vehicles) /\ Len(f.vehicles) \in {0, 1}
  /\ \A i \in DOMAIN f.vehicles :
       /\ f.vehicles[i].id = "car" /\ w.car # "gone"
       /\ f.vehicles[i].health = IF w.car = "runs" THEN 1 ELSE 0
       /\ f.vehicles[i].team = CarTeam /\ f.vehicles[i].kind = CarKind
       /\ f.vehicles[i].class = CarClass
  /\ \A t \in TicketTeams :
       f.teams[t].deaths = TeamDeaths(w, t) /\ f.teams[t].tickets \in Int \cup {None}

\* A frame sampled of the match as it is: it is no position frame, it lists
\* who is there, and a player has a place exactly when he is alive.
FrameFacts(f, w) ==
  /\ FrameOk(f) /\ Tallies(f, w) /\ Roll(f.players, w)
  /\ {"tick", "players", "vehicles", "events", "teams", "phase"} \subseteq DOMAIN f
  /\ "t" \notin DOMAIN f
  /\ \A i \in DOMAIN f.players :
       /\ {"pos", "health", "eos", "name", "team", "deaths"} \subseteq DOMAIN f.players[i]
       /\ f.players[i].health > 0 <=> f.players[i].pos # None
  /\ \A i \in DOMAIN f.vehicles : {"id", "team", "health"} \subseteq DOMAIN f.vehicles[i]

\* Until the first full frame there is none anywhere; from then on the two
\* sides have the same one, and the last snapshot differs from it in nothing
\* but places.
LoadInv ==
  /\ WorldOk(world)
  /\ Synced(enc, reader.unpacker)
  /\ reader = [unpacker |-> reader.unpacker, lastFull |-> reader.lastFull, snap |-> reader.snap]
  /\ world.full = 0 => reader.lastFull = NoFrame /\ reader.snap = NoFrame /\ seen = NoFrame
  /\ world.full # 0 =>
       /\ reader.lastFull = enc.prev /\ reader.snap = seen
       /\ FrameFacts(enc.prev, world)
       /\ {"tick", "players", "vehicles", "events", "teams", "phase"} \subseteq DOMAIN seen
       /\ seen.vehicles = enc.prev.vehicles
       /\ seen.teams = enc.prev.teams /\ seen.phase = enc.prev.phase
       /\ Roll(seen.players, world)

\* The losses so far: whole numbers, explained by what was seen.
Whole(b) == b.death \in Int /\ b.vehicle \in Int /\ b.bleed \in Int /\ b.total \in Int

LossOk ==
  /\ tickets.acc \in [TicketTeams -> Nat]
  /\ \A t \in TicketTeams : Whole(tickets.bk[t]) /\ lost[t] \in Nat /\ killed[t] \in Int
  /\ LossesExplained

LEMMA PlayerFacts ==
  ASSUME NEW w, w.where \in {0, 1}, NEW p
  PROVE  LET x == Player(w, p)
         IN  /\ IsFn(x) /\ {"pos", "health", "eos", "name", "team", "deaths"} \subseteq DOMAIN x
             /\ (x.health > 0 <=> x.pos # None) /\ Shows(x, p, w)
<1> DEFINE x == Player(w, p)
           r == [eos |-> Eos[p], name |-> Name[p], team |-> Team[p], deaths |-> w.deaths[p],
                 health |-> IF w.cond[p] = "dead" THEN 0 ELSE 1 + w.where,
                 weapon |-> Weapon[p],
                 pos |-> IF w.cond[p] = "dead" THEN None ELSE w.where]
           s == IF w.squad /\ p = Squaddie THEN [squad |-> 1] ELSE << >>
<1>1. x = Overlay(s, r)
  BY DEF Player
<1>2. DOMAIN s \subseteq {"squad"}
  OBVIOUS
<1>3. {"pos", "health", "eos", "name", "team", "deaths"} \subseteq DOMAIN r
  OBVIOUS
<1>4. r.health > 0 <=> r.pos # None
  <2>1. w.where # None
    BY ReplayAssumption
  <2> QED
    BY <2>1
<1>9. Shows(r, p, w)
  BY DEF Shows
<1> HIDE DEF r, s, x
<1>5. /\ DOMAIN x = DOMAIN s \cup DOMAIN r
      /\ \A f \in DOMAIN r \ DOMAIN s : x[f] = r[f]
      /\ IsFn(x)
  BY <1>1 DEF Overlay, IsFn
<1>6. /\ x.health = r.health /\ x.pos = r.pos /\ x.eos = r.eos /\ x.name = r.name
      /\ x.team = r.team /\ x.deaths = r.deaths
  BY <1>2, <1>3, <1>5
<1>10. Shows(x, p, w)
  BY <1>6, <1>9 DEF Shows
<1>7. x.health > 0 <=> x.pos # None
  BY <1>4, <1>6
<1>8. {"pos", "health", "eos", "name", "team", "deaths"} \subseteq DOMAIN x
  BY <1>3, <1>5
<1> QED
  BY <1>5, <1>7, <1>8, <1>10 DEF x

LEMMA SampleFacts ==
  ASSUME NEW w, WorldOk(w), NEW events, NEW fault
  PROVE  LET f == Sample(w, events, fault)
         IN  /\ FrameFacts(f, w) /\ f.events = events
             /\ f.phase = IF fault = "blind" THEN None ELSE w.phase
<1> DEFINE f == Sample(w, events, fault)
           n == Cardinality(w.here)
           players == [i \in 1..n |-> Player(w, Present(w)[i])]
           vehicles == IF w.car = "gone" THEN << >> ELSE <<Vehicle(w)>>
           phase == IF fault = "blind" THEN None ELSE w.phase
           teams == [t \in TicketTeams |->
                       [deaths |-> TeamDeaths(w, t),
                        tickets |-> IF fault = "unread" /\ t = Drained THEN None
                                    ELSE w.tickets[t]]]
<1>1. /\ IsFn(f) /\ f.players = players /\ f.vehicles = vehicles /\ f.teams = teams
      /\ f.events = events /\ f.phase = phase
      /\ {"tick", "players", "vehicles", "events", "teams", "phase"} \subseteq DOMAIN f
      /\ "t" \notin DOMAIN f
  <2> DEFINE s == IF w.squad THEN [markers |-> 1] ELSE << >>
             r == [tick |-> TickOf(w), players |-> players, vehicles |-> vehicles,
                   events |-> events,
                   phase |-> phase,
                   time |-> IF fault = "blind" THEN None ELSE w.clock,
                   teams |-> teams]
  <2>1. f = Overlay(s, r)
    BY DEF Sample
  <2>2. DOMAIN s \subseteq {"markers"}
    OBVIOUS
  <2> HIDE DEF players, vehicles, phase, teams
  <2>3. /\ {"tick", "players", "vehicles", "events", "teams", "phase"} \subseteq DOMAIN r
        /\ "t" \notin DOMAIN r
        /\ r.players = players /\ r.vehicles = vehicles /\ r.teams = teams
        /\ r.events = events /\ r.phase = phase
    OBVIOUS
  <2> HIDE DEF f, r, s
  <2>4. /\ DOMAIN f = DOMAIN s \cup DOMAIN r /\ IsFn(f)
        /\ \A x \in DOMAIN r \ DOMAIN s : f[x] = r[x]
    BY <2>1 DEF Overlay, IsFn
  <2>5. /\ f.players = r.players /\ f.vehicles = r.vehicles /\ f.teams = r.teams
        /\ f.events = r.events /\ f.phase = r.phase
    BY <2>2, <2>3, <2>4
  <2>6. "t" \notin DOMAIN f
    BY <2>2, <2>3, <2>4
  <2> QED
    BY <2>3, <2>4, <2>5, <2>6
<1>2. n \in Nat
  BY PeopleFinite, FS_Subset, FS_CardinalityType DEF WorldOk
<1>3. w.where \in {0, 1}
  BY DEF WorldOk
<1>4. \A i \in 1..n :
        /\ IsFn(players[i]) /\ {"pos", "health", "eos", "name", "team", "deaths"} \subseteq DOMAIN players[i]
        /\ (players[i].health > 0 <=> players[i].pos # None)
        /\ Shows(players[i], Present(w)[i], w)
  BY <1>3, PlayerFacts
<1>5. Entities(players)
  <2>1. Len(players) = n
    BY <1>2
  <2> QED
    BY <1>2, <1>4, <2>1 DEF Entities
<1>6. w.car # "gone" => IsFn(Vehicle(w)) /\ {"id", "team", "health"} \subseteq DOMAIN Vehicle(w)
        /\ Vehicle(w).id = "car" /\ Vehicle(w).health = (IF w.car = "runs" THEN 1 ELSE 0)
        /\ Vehicle(w).team = CarTeam /\ Vehicle(w).kind = CarKind
        /\ Vehicle(w).class = CarClass
  BY DEF Vehicle, IsFn
<1>7. Entities(vehicles)
  BY <1>6 DEF Entities
<1>8. \A i \in DOMAIN vehicles : w.car # "gone" /\ vehicles[i] = Vehicle(w)
  OBVIOUS
<1>11. DOMAIN vehicles = 1..Len(vehicles) /\ Len(vehicles) \in {0, 1}
  <2>1. CASE w.car = "gone"
    <3>1. vehicles = << >>
      BY <2>1
    <3> HIDE DEF vehicles
    <3> QED
      BY <3>1
  <2>2. CASE w.car # "gone"
    <3>1. vehicles = <<Vehicle(w)>>
      BY <2>2
    <3> HIDE DEF vehicles
    <3>2. DOMAIN vehicles = 1..1 /\ Len(vehicles) = 1
      BY <3>1
    <3> QED
      BY <3>2
  <2> QED
    BY <2>1, <2>2
<1>12. \A t \in TicketTeams :
         teams[t].deaths = TeamDeaths(w, t) /\ teams[t].tickets \in Int \cup {None}
  BY DEF WorldOk
<1>14. Roll(players, w)
  <2>1. Len(players) = n /\ DOMAIN players = 1..n
    BY <1>2
  <2> HIDE DEF players, n
  <2> QED
    BY <1>4, <2>1 DEF Roll, n
<1> HIDE DEF f, players, vehicles, teams
<1>9. FrameOk(f)
  BY <1>1, <1>5, <1>7 DEF FrameOk, Keyed
<1>10. DOMAIN players = 1..n
  BY DEF players
<1>13. Tallies(f, w)
  BY <1>1, <1>6, <1>8, <1>11, <1>12 DEF Tallies
<1> QED
  BY <1>1, <1>4, <1>6, <1>8, <1>9, <1>10, <1>13, <1>14 DEF FrameFacts, f

-----------------------------------------------------------------------------
(* The losses *)

\* What destroyed vehicles are billed: no more than the drop, no more than
\* they cost.
LEMMA BillsAre ==
  ASSUME NEW drop \in Nat, NEW costs \in Seq(Nat), Len(costs) \in {0, 1}
  PROVE  /\ SumSeqOf(Bills(drop, costs)) \in 0..drop
         /\ Len(costs) = 0 => SumSeqOf(Bills(drop, costs)) = 0
         /\ Len(costs) = 1 => SumSeqOf(Bills(drop, costs)) <= costs[1]
<1> DEFINE Before(i) == SumSeqOf(SubSeq(costs, 1, i - 1))
           J == {j \in 1..Len(costs) : Before(j) < drop}
           bills == Bills(drop, costs)
<1>1. bills = [i \in 1..Cardinality(J) |-> MinOf(costs[i], drop - Before(i))]
  BY DEF Bills
<1>2. Before(1) = 0
  <2>1. SubSeq(costs, 1, 0) = << >>
    OBVIOUS
  <2>2. SumSeqOf(<< >>) = 0
    BY SumSmall
  <2>3. SubSeq(costs, 1, 1 - 1) = << >>
    BY <2>1
  <2> QED
    BY <2>2, <2>3, Zenon
<1> HIDE DEF Before, bills
<1>3. CASE J = {}
  <2>1. Cardinality(J) = 0
    BY <1>3, FS_EmptySet
  <2>2. Len(bills) = 0
    BY <1>1, <2>1
  <2>3. SumSeqOf(bills) = 0
    BY <2>2, SumSmall
  <2> QED
    BY <2>3 DEF bills
<1>4. CASE J # {}
  <2>0. PICK j \in 1..Len(costs) : Before(j) < drop
    BY <1>4
  <2>1. Len(costs) = 1 /\ J = {1} /\ 0 < drop
    <3>1. Len(costs) = 1
      BY <2>0
    <3>2. j = 1 /\ 1..Len(costs) = {1}
      BY <2>0, <3>1
    <3>3. 0 < drop
      BY <1>2, <2>0, <3>2
    <3> QED
      BY <1>2, <3>1, <3>2, <3>3
  <2>2. Cardinality(J) = 1
    BY <2>1, FS_Singleton
  <2>3. costs[1] \in Nat
    <3>1. 1 \in 1..Len(costs)
      BY <2>1
    <3> QED
      BY <3>1
  <2>4. MinOf(costs[1], drop - 0) \in 0..drop /\ MinOf(costs[1], drop - 0) <= costs[1]
    BY <2>1, <2>3 DEF MinOf
  <2>5. DOMAIN bills = {1} /\ bills[1] = MinOf(costs[1], drop - 0)
    <3> HIDE DEF J
    <3>1. bills = [i \in 1..1 |-> MinOf(costs[i], drop - Before(i))]
      BY <1>1, <2>2
    <3>2. 1..1 = {1}
      OBVIOUS
    <3>3. DOMAIN bills = {1}
      BY <3>1, <3>2
    <3>4. bills[1] = MinOf(costs[1], drop - Before(1))
      BY <3>1, <3>2
    <3> QED
      BY <1>2, <3>3, <3>4
  <2>6. Len(bills) = 1
    BY <1>1, <2>2
  <2>7. SumSeqOf(bills) = bills[1]
    <3>1. \A i \in 1..Len(bills) : bills[i] \in Int
      BY <2>4, <2>5, <2>6
    <3> QED
      BY <2>6, <3>1, SumSmall
  <2> QED
    BY <2>1, <2>4, <2>5, <2>7 DEF bills
<1> QED
  BY <1>3, <1>4

\* A drop is split without rest: vehicles, deaths, bleed.
SplitOk(drop, costs, acc, s) ==
  /\ SumSeqOf(s.vehicles) \in Nat /\ s.death \in 0..acc /\ s.bleed \in Nat
  /\ drop = SumSeqOf(s.vehicles) + s.death + s.bleed
  /\ Len(costs) = 0 => SumSeqOf(s.vehicles) = 0
  /\ Len(costs) = 1 => SumSeqOf(s.vehicles) <= costs[1]

LEMMA SplitIs ==
  ASSUME NEW drop \in Nat, NEW costs \in Seq(Nat), Len(costs) \in {0, 1}, NEW acc \in Nat
  PROVE  SplitOk(drop, costs, acc, Split(drop, costs, acc))
<1> DEFINE v == SumSeqOf(Bills(drop, costs))
           d == MinOf(drop - v, acc)
           s == Split(drop, costs, acc)
<1>1. /\ v \in 0..drop
      /\ Len(costs) = 0 => v = 0
      /\ Len(costs) = 1 => v <= costs[1]
  BY BillsAre
<1>2. SumSeqOf(s.vehicles) = v /\ s.death = d /\ s.bleed = (drop - v) - d
  BY DEF Split
<1> HIDE DEF v, s
<1>3. v \in Nat /\ d \in 0..acc /\ (drop - v) - d \in Nat
  BY <1>1 DEF MinOf
<1>4. drop = v + d + ((drop - v) - d)
  BY <1>3
<1> QED
  BY <1>1, <1>2, <1>3, <1>4 DEF SplitOk, s

\* A vehicle is destroyed on the one frame after which it is a wreck.
CostsOk(w, v, t, costs) ==
  /\ costs \in Seq(Nat) /\ Len(costs) \in {0, 1}
  /\ Len(costs) = 1 =>
       /\ t = CarTeam /\ w.car = "runs" /\ v.car = "wreck"
       /\ costs[1] = CarPrice

LEMMA CostsAre ==
  ASSUME NEW w, WorldOk(w), NEW a, Tallies(a, w), NEW v, WorldOk(v), NEW c, Tallies(c, v), NEW t
  PROVE  CostsOk(w, v, t, CostsNow(a, c, t))
<1> DEFINE D == DestroyedNow(a, c, t)
           costs == CostsNow(a, c, t)
<1>1. costs = [n \in 1..Cardinality(D) |-> VehicleTicketCost(c.vehicles[NthOf(D, n)])]
  BY DEF CostsNow
<1>2. Len(c.vehicles) \in {0, 1} /\ DOMAIN c.vehicles = 1..Len(c.vehicles)
  BY DEF Tallies
<1>3. \A i \in D : i = 1 /\ i \in DOMAIN c.vehicles
  BY <1>2 DEF DestroyedNow
<1>4. CASE D = {}
  <2>1. Cardinality(D) = 0
    BY <1>4, FS_EmptySet
  <2>2. costs = << >>
    BY <1>1, <2>1
  <2> QED
    BY <2>2 DEF CostsOk
<1>5. CASE D # {}
  <2>1. D = {1} /\ 1 \in DOMAIN c.vehicles
    BY <1>3, <1>5
  <2>2. Cardinality(D) = 1
    BY <2>1, FS_Singleton
  <2>3. NthOf(D, 1) = 1
    <3>1. D \in SUBSET (1..1) /\ 1 \in 1..Cardinality(D)
      BY <2>1, <2>2
    <3> QED
      BY <2>1, <3>1, NthOfIs
  <2>4. /\ c.vehicles[1].team = CarTeam /\ c.vehicles[1].kind = CarKind
        /\ c.vehicles[1].class = CarClass
        /\ v.car # "gone" /\ c.vehicles[1].health = IF v.car = "runs" THEN 1 ELSE 0
    BY <2>1 DEF Tallies
  <2>5. /\ c.vehicles[1].team = t /\ c.vehicles[1].health <= 0
        /\ \E p \in Range(a.vehicles) : p.health > 0
    BY <2>1 DEF DestroyedNow
  <2>6. t = CarTeam /\ v.car = "wreck"
    BY <2>4, <2>5 DEF WorldOk
  <2>7. w.car = "runs"
    <3>1. PICK i \in DOMAIN a.vehicles : a.vehicles[i].health > 0
      BY <2>5 DEF Range
    <3>2. a.vehicles[i].health = IF w.car = "runs" THEN 1 ELSE 0
      BY DEF Tallies
    <3> QED
      BY <3>1, <3>2
  <2>8. VehicleTicketCost(c.vehicles[1]) = CarPrice /\ CarPrice \in Nat
    BY <2>4, CarPriceIs, ReplayAssumption DEF VehicleTicketCost, CarPrice
  <2>9. costs = <<CarPrice>>
    <3>1. \A n \in 1..1 : VehicleTicketCost(c.vehicles[NthOf(D, n)]) = CarPrice
      BY <2>3, <2>8
    <3>2. costs = [n \in 1..1 |-> CarPrice]
      BY <1>1, <2>2, <3>1
    <3> QED
      BY <3>2
  <2> HIDE DEF costs
  <2> QED
    BY <2>6, <2>7, <2>8, <2>9 DEF CostsOk, costs
<1> QED
  BY <1>4, <1>5

\* A team's deaths are counted up.
LEMMA TeamDeathsGrow ==
  ASSUME NEW w, WorldOk(w), NEW v, WorldOk(v), \A p \in People : w.deaths[p] <= v.deaths[p], NEW t
  PROVE  TeamDeaths(w, t) \in Int /\ TeamDeaths(v, t) \in Int /\ TeamDeaths(w, t) <= TeamDeaths(v, t)
<1> DEFINE n == Len(Roster)
           S(x) == [i \in 1..n |-> IF Team[Roster[i]] = t THEN x.deaths[Roster[i]] ELSE 0]
<1>1. n \in Nat /\ \A i \in 1..n : Roster[i] \in People
  BY ReplayAssumption DEF People
<1>2. \A p \in People : w.deaths[p] \in Nat /\ v.deaths[p] \in Nat
  BY DEF WorldOk
<1>3. TeamDeaths(w, t) = SumSeqOf(S(w)) /\ TeamDeaths(v, t) = SumSeqOf(S(v))
  BY DEF TeamDeaths
<1> HIDE DEF n
<1>4. \A i \in 1..n : S(w)[i] \in Int /\ S(v)[i] \in Int /\ S(w)[i] <= S(v)[i]
  BY <1>1, <1>2
<1>5. Len(S(w)) = n /\ Len(S(v)) = n
  BY <1>1
<1> HIDE DEF S
<1> QED
  BY <1>1, <1>3, <1>4, <1>5, SumGrows

\* What one step of the analysis adds to a team's losses: the drop, split;
\* to the vehicles no more than the car that was shot, to the deaths no more
\* than were counted.
StepOk(w, v, a, c, t, s, n) ==
  /\ n.acc[t] \in Nat /\ Whole(n.bk[t])
  /\ n.bk[t].total = s.bk[t].total + (IF BothInProgress(a, c) THEN Drop(a, c, t) ELSE 0)
  /\ s.bk[t].total = s.bk[t].death + s.bk[t].vehicle + s.bk[t].bleed
       => n.bk[t].total = n.bk[t].death + n.bk[t].vehicle + n.bk[t].bleed
  /\ n.bk[t].vehicle <= s.bk[t].vehicle +
       (IF t = CarTeam /\ w.car = "runs" /\ v.car = "wreck" THEN CarPrice ELSE 0)
  /\ n.bk[t].death + n.acc[t] <=
       s.bk[t].death + s.acc[t] + (TeamDeaths(v, t) - TeamDeaths(w, t))

LEMMA StepAddsUp ==
  ASSUME NEW w, WorldOk(w), NEW a, Tallies(a, w), NEW v, WorldOk(v), NEW c, Tallies(c, v),
         \A p \in People : w.deaths[p] <= v.deaths[p],
         NEW s, s.acc \in [TicketTeams -> Nat], NEW t \in TicketTeams, Whole(s.bk[t])
  PROVE  StepOk(w, v, a, c, t, s, TicketStep(s, a, c))
<1> DEFINE n == TicketStep(s, a, c)
           drop == Drop(a, c, t)
           fresh == NewDeaths(a, c, t)
           costs == CostsNow(a, c, t)
           acc == s.acc[t] + fresh
           sp == Split(drop, costs, acc)
           v1 == SumSeqOf(sp.vehicles)
           k == IF t = CarTeam /\ w.car = "runs" /\ v.car = "wreck" THEN CarPrice ELSE 0
           dw == TeamDeaths(w, t)
           dv == TeamDeaths(v, t)
           old == s.bk[t]
           new == n.bk[t]
<1>1. dw \in Int /\ dv \in Int /\ dw <= dv
  BY TeamDeathsGrow
<1>2. k \in Nat
  BY CarPriceIs
<1>3. s.acc[t] \in Nat
  OBVIOUS
<1>4. /\ a.teams[t].deaths = dw /\ c.teams[t].deaths = dv
      /\ a.teams[t].tickets \in Int \cup {None} /\ c.teams[t].tickets \in Int \cup {None}
  BY DEF Tallies
<1> HIDE DEF dw, dv, k
<1>5. drop \in Nat
  BY <1>4 DEF Drop, MaxOf
<1>6. fresh \in Nat /\ fresh <= dv - dw
  <2>1. fresh = IF dw # None /\ dv # None /\ dv > dw THEN (dv - dw) * 1 ELSE 0
    BY <1>4 DEF NewDeaths, DeathCost
  <2> HIDE DEF fresh
  <2> QED
    BY <1>1, <2>1
<1>7. old.death \in Int /\ old.vehicle \in Int /\ old.bleed \in Int /\ old.total \in Int
  BY DEF Whole
<1>8. CASE ~BothInProgress(a, c)
  <2>1. n.acc[t] = 0 /\ new = old
    BY <1>8 DEF TicketStep
  <2> HIDE DEF n, old, new
  <2>2. new.vehicle <= old.vehicle + k
    BY <1>2, <1>7, <2>1
  <2>3. new.death + n.acc[t] <= old.death + s.acc[t] + (dv - dw)
    BY <1>1, <1>3, <1>7, <2>1
  <2>4. new.total = old.total + 0
    BY <1>7, <2>1
  <2>5. Whole(new)
    BY <1>7, <2>1 DEF Whole
  <2> QED
    BY <1>8, <2>1, <2>2, <2>3, <2>4, <2>5 DEF StepOk, n, old, new, dw, dv, k
<1>9. CASE BothInProgress(a, c)
  <2>1. n.acc[t] = acc - sp.death /\ new = Billed(old, sp)
    BY <1>9 DEF TicketStep
  <2>2. CostsOk(w, v, t, costs)
    BY CostsAre
  <2>3. acc \in Nat
    BY <1>3, <1>6
  <2> HIDE DEF n, old, new, drop, costs, acc, fresh
  <2>4. SplitOk(drop, costs, acc, sp)
    BY <1>5, <2>2, <2>3, SplitIs DEF CostsOk
  <2> HIDE DEF sp
  <2>5. /\ v1 \in Nat /\ sp.death \in 0..acc /\ sp.bleed \in Nat
        /\ drop = v1 + sp.death + sp.bleed
    BY <2>4 DEF SplitOk
  <2>6. v1 <= k
    <3>1. Len(costs) = 1 => k = costs[1]
      BY <2>2 DEF CostsOk, k
    <3> QED
      BY <1>2, <2>2, <2>4, <3>1 DEF SplitOk, CostsOk
  <2>7. /\ new.death = old.death + sp.death /\ new.vehicle = old.vehicle + v1
        /\ new.bleed = old.bleed + sp.bleed
        /\ new.total = old.total + v1 + sp.death + sp.bleed
    BY <2>1 DEF Billed
  <2> HIDE DEF v1
  <2>8. sp.death \in Nat /\ sp.death <= acc
    BY <2>3, <2>5
  <2>9. Whole(new)
    BY <1>7, <2>5, <2>7, <2>8 DEF Whole
  <2>10. n.acc[t] \in Nat
    BY <2>1, <2>3, <2>8
  <2>11. new.total = old.total + drop
    BY <1>7, <2>5, <2>7, <2>8
  <2>12. old.total = old.death + old.vehicle + old.bleed
           => new.total = new.death + new.vehicle + new.bleed
    BY <1>7, <2>5, <2>7, <2>8
  <2>13. new.vehicle <= old.vehicle + k
    BY <1>2, <1>7, <2>5, <2>6, <2>7
  <2>14. new.death + n.acc[t] = old.death + acc
    BY <1>7, <2>1, <2>3, <2>7, <2>8
  <2>15. new.death + n.acc[t] <= old.death + s.acc[t] + (dv - dw)
    BY <1>1, <1>3, <1>6, <1>7, <2>14 DEF acc
  <2> QED
    BY <1>9, <2>9, <2>10, <2>11, <2>12, <2>13, <2>15 DEF StepOk, n, old, new, dw, dv, k, drop
<1> QED
  BY <1>8, <1>9

-----------------------------------------------------------------------------
(* The steps *)

\* What a line is to the analysis: nobody's death is taken back, and there is
\* a frame once there was a full one.
Moves ==
  /\ \A p \in People : world.deaths[p] <= world'.deaths[p]
  /\ world.full # 0 => world'.full # 0

\* A full frame is sampled of the match after what has happened.
Drawn(h) ==
  h \in IF world.full = 0 THEN {Plain(Respawned(world))} ELSE Happenings(Respawned(world))

Sampled(h) ==
  /\ Drawn(h) /\ Happened(Respawned(world), h) /\ Len(h.events) \in Nat
  /\ world.full = 0 => h.dead = {}
  /\ world' = h.w /\ seen' = Sample(h.w, h.events, h.fault)
  /\ enc' = EncodeFull(enc, seen').e /\ Load(EncodeFull(enc, seen').line)
  /\ History(h, world.here)

LEMMA FullLineSamples == LoadInv /\ FullLine => \E h : Sampled(h)
<1> SUFFICES ASSUME LoadInv, FullLine PROVE \E h : Sampled(h)
  OBVIOUS
<1> DEFINE w0 == Respawned(world)
<1>1. WorldOk(world) /\ WorldOk(w0) /\ w0.full = world.full + 1
  BY RespawnedKeeps DEF LoadInv
<1>2. PICK h \in IF world.full = 0 THEN {Plain(w0)} ELSE Happenings(w0) :
        /\ world' = h.w /\ seen' = Sample(h.w, h.events, h.fault)
        /\ enc' = EncodeFull(enc, Sample(h.w, h.events, h.fault)).e
        /\ Load(EncodeFull(enc, Sample(h.w, h.events, h.fault)).line)
        /\ History(h, world.here)
  BY DEF FullLine
<1> HIDE DEF w0
<1>3. Happened(w0, h) /\ Len(h.events) \in Nat /\ (world.full = 0 => h.dead = {})
  <2>1. CASE world.full = 0
    <3>1. h.w = w0 /\ h.dead = {} /\ h.events = << >>
      BY <1>2, <2>1 DEF Plain, Happening
    <3>2. \A p \in People : w0.deaths[p] \in Nat
      BY <1>1 DEF WorldOk
    <3>3. \A p \in People : w0.deaths[p] = w0.deaths[p] + 0
      BY <3>2
    <3>4. Happened(w0, h)
      BY <1>1, <3>1, <3>3 DEF Happened, After
    <3> QED
      BY <3>1, <3>4
  <2>2. CASE world.full # 0
    <3>1. h \in Happenings(w0)
      BY <1>2, <2>2
    <3> QED
      BY <1>1, <2>2, <3>1, HappeningsKeep, EventsAre
  <2> QED
    BY <2>1, <2>2
<1> QED
  BY <1>2, <1>3 DEF Sampled, Drawn, w0

LEMMA FullLineKeeps == LoadInv /\ FullLine => LoadInv' /\ Moves /\ world'.full # 0
<1> SUFFICES ASSUME LoadInv, FullLine PROVE LoadInv' /\ Moves /\ world'.full # 0
  OBVIOUS
<1> DEFINE w0 == Respawned(world)
<1>1. WorldOk(world) /\ WorldOk(w0) /\ w0.full = world.full + 1 /\ w0.deaths = world.deaths
  BY RespawnedKeeps DEF LoadInv
<1>2. PICK h : Sampled(h)
  BY FullLineSamples
<1>3. WorldOk(h.w) /\ h.w.full = w0.full /\ \A p \in People : world.deaths[p] <= h.w.deaths[p]
  <2>1. After(w0, h.w, h.dead)
    BY <1>2 DEF Sampled, Happened
  <2>2. \A p \in People : world.deaths[p] \in Nat
    BY <1>1 DEF WorldOk
  <2> HIDE DEF w0
  <2>3. \A p \in People : h.w.deaths[p] = world.deaths[p] + (IF p \in h.dead THEN 1 ELSE 0)
    BY <1>1, <2>1 DEF After
  <2>4. \A p \in People : world.deaths[p] <= h.w.deaths[p]
    BY <2>2, <2>3
  <2> QED
    BY <2>1, <2>4 DEF After
<1> DEFINE f == Sample(h.w, h.events, h.fault)
           c == EncodeFull(enc, f)
           u == UnpackDiff(reader.unpacker, c.line)
<1>4. FrameFacts(f, h.w)
  BY <1>3, SampleFacts
<1>5. FrameOk(f) /\ "t" \notin DOMAIN f
  BY <1>4 DEF FrameFacts
<1>6. c.line.kind = "diff" /\ c.e.prev = f
  BY DEF EncodeFull
<1> HIDE DEF f, c
<1>7. u.frame = f /\ Synced(c.e, u.d)
  BY <1>5, FrameComesBack DEF LoadInv, c
<1>8. reader' = [unpacker |-> u.d, lastFull |-> f, snap |-> f]
  <2>1. Unpack(reader.unpacker, c.line) = u
    BY <1>6 DEF Unpack
  <2> HIDE DEF u
  <2>2. Reconstruct(reader.lastFull, u.frame) = [lastFull |-> f, snap |-> f]
    BY <1>5, <1>7 DEF Reconstruct, IsPositionFrame
  <2>3. reader' = PushLine(reader, c.line)
    BY <1>2 DEF Sampled, Load, c, f
  <2> QED
    BY <1>6, <2>1, <2>2, <2>3 DEF PushLine
<1> HIDE DEF u
<1>9. enc' = c.e /\ seen' = f /\ world' = h.w
  BY <1>2 DEF Sampled, c, f
<1>10. world'.full # 0 /\ WorldOk(world')
  <2>1. world.full \in Nat
    BY DEF LoadInv, WorldOk
  <2>2. world'.full = world.full + 1
    BY <1>1, <1>3, <1>9
  <2> QED
    BY <1>3, <1>9, <2>1, <2>2
<1>11. LoadInv'
  <2>1. Synced(enc', reader'.unpacker)
    BY <1>7, <1>8, <1>9
  <2>2. reader'.lastFull = enc'.prev /\ reader'.snap = seen' /\ seen' = enc'.prev
    BY <1>6, <1>8, <1>9
  <2>3. FrameFacts(enc'.prev, world')
    BY <1>4, <1>6, <1>9
  <2>4. {"tick", "players", "vehicles", "events", "teams", "phase"} \subseteq DOMAIN seen'
    BY <1>4, <1>9 DEF FrameFacts
  <2>5. reader' = [unpacker |-> reader'.unpacker, lastFull |-> reader'.lastFull, snap |-> reader'.snap]
    BY <1>8
  <2>6. Roll(seen'.players, world')
    BY <1>4, <1>9 DEF FrameFacts
  <2> QED
    BY <1>10, <2>1, <2>2, <2>3, <2>4, <2>5, <2>6 DEF LoadInv
<1> QED
  BY <1>3, <1>9, <1>10, <1>11 DEF Moves

\* What the agent saw when it sampled positions, after this full frame.
SeenAt(base, pos, where, whole) ==
  [base EXCEPT !.tick = pos.tick, !.events = << >>,
     !.players = [i \in DOMAIN @ |->
        IF KeyOf(@[i]) \in DOMAIN pos.players /\ @[i].health > 0
        THEN Moved(@[i], where, whole) ELSE @[i]]]

\* Positions spliced onto the last full frame are what the agent saw.
LEMMA PositionsSpliced ==
  ASSUME NEW base, NEW w, FrameFacts(base, w), NEW pos, NEW where \in {0, 1},
         NEW whole \in BOOLEAN,
         \A k \in DOMAIN pos.players :
           pos.players[k] = [at |-> where, health |-> IF whole THEN 1 + where ELSE None],
         w.car # "gone" =>
           pos.vehicles = [car |-> IF whole
                                   THEN [health |-> IF w.car = "runs" THEN 1 ELSE 0,
                                         team |-> CarTeam]
                                   ELSE [health |-> None, team |-> None]]
  PROVE  ReconstructFromPosition(base, pos) = SeenAt(base, pos, where, whole)
<1> DEFINE Player1(p) == IF KeyOf(p) \notin DOMAIN pos.players \/ p.pos = None THEN p
                         ELSE [p EXCEPT !.pos = pos.players[KeyOf(p)].at,
                                        !.health = OrElse(pos.players[KeyOf(p)].health, @)]
           Vehicle1(v) == IF v.id \notin DOMAIN pos.vehicles THEN v
                          ELSE [v EXCEPT !.health = OrElse(pos.vehicles[v.id].health, @),
                                         !.team = OrElse(pos.vehicles[v.id].team, @)]
           players == [i \in DOMAIN base.players |-> Player1(base.players[i])]
           vehicles == [i \in DOMAIN base.vehicles |-> Vehicle1(base.vehicles[i])]
           saw == [i \in DOMAIN base.players |->
                     IF KeyOf(base.players[i]) \in DOMAIN pos.players /\ base.players[i].health > 0
                     THEN Moved(base.players[i], where, whole) ELSE base.players[i]]
<1>0. None \notin Int
  BY ReplayAssumption
<1>1. /\ {"tick", "players", "vehicles", "events"} \subseteq DOMAIN base
      /\ base = [x \in DOMAIN base |-> base[x]]
      /\ Entities(base.players) /\ Entities(base.vehicles)
  BY DEF FrameFacts, FrameOk, IsFn, Keyed
<1>2. ReconstructFromPosition(base, pos) =
        [base EXCEPT !.tick = pos.tick, !.players = players, !.vehicles = vehicles, !.events = << >>]
  BY <1>1 DEF ReconstructFromPosition
<1>3. players = saw
  <2> SUFFICES ASSUME NEW i \in DOMAIN base.players PROVE Player1(base.players[i]) = saw[i]
    OBVIOUS
  <2> DEFINE x == base.players[i]
             sampled == pos.players[KeyOf(x)]
  <2>1. x.health > 0 <=> x.pos # None
    BY DEF FrameFacts
  <2>2. KeyOf(x) \in DOMAIN pos.players =>
          sampled.at = where /\ OrElse(sampled.health, x.health) = IF whole THEN 1 + where ELSE x.health
    BY <1>0 DEF OrElse
  <2> HIDE DEF x
  <2>3. KeyOf(x) \in DOMAIN pos.players =>
          [x EXCEPT !.pos = sampled.at, !.health = OrElse(sampled.health, @)]
            = Moved(x, where, whole)
    BY <2>2 DEF Moved
  <2>4. Player1(x) = IF KeyOf(x) \in DOMAIN pos.players /\ x.health > 0
                     THEN Moved(x, where, whole) ELSE x
    BY <2>1, <2>3
  <2> QED
    BY <2>4 DEF x
<1>4. vehicles = base.vehicles
  <2>1. ASSUME NEW i \in DOMAIN base.vehicles PROVE Vehicle1(base.vehicles[i]) = base.vehicles[i]
    <3> DEFINE v == base.vehicles[i]
    <3>1. /\ v.id = "car" /\ w.car # "gone" /\ v.health = IF w.car = "runs" THEN 1 ELSE 0
          /\ v.team = CarTeam
      BY DEF FrameFacts, Tallies
    <3>2. IsFn(v)
      BY <1>1 DEF Entities
    <3> HIDE DEF v
    <3>3. /\ OrElse(pos.vehicles[v.id].health, v.health) = v.health
          /\ OrElse(pos.vehicles[v.id].team, v.team) = v.team
      BY <1>0, <3>1 DEF OrElse
    <3>4. [v EXCEPT !.health = v.health, !.team = v.team] = v
      BY <3>2 DEF IsFn
    <3>5. Vehicle1(v) = v
      BY <3>3, <3>4
    <3> QED
      BY <3>5 DEF v
  <2>2. base.vehicles = [i \in DOMAIN base.vehicles |-> base.vehicles[i]]
    BY <1>1 DEF Entities
  <2> QED
    BY <2>1, <2>2
<1> HIDE DEF players, vehicles
<1>5. [base EXCEPT !.tick = pos.tick, !.players = saw, !.vehicles = base.vehicles, !.events = << >>]
        = [base EXCEPT !.tick = pos.tick, !.events = << >>, !.players = saw]
  <2> HIDE DEF saw
  <2> QED
    BY <1>1
<1>6. SeenAt(base, pos, where, whole)
        = [base EXCEPT !.tick = pos.tick, !.events = << >>, !.players = saw]
  BY <1>1 DEF SeenAt
<1> QED
  BY <1>2, <1>3, <1>4, <1>5, <1>6

\* Frames whose entities differ in places only have the same tallies and list
\* the same players.
LEMMA SeenAtKeeps ==
  ASSUME NEW base, NEW w, FrameFacts(base, w), NEW pos, NEW where \in {0, 1}, NEW whole \in BOOLEAN
  PROVE  LET s == SeenAt(base, pos, where, whole)
         IN  /\ DOMAIN s = DOMAIN base
             /\ s.vehicles = base.vehicles /\ s.teams = base.teams /\ s.phase = base.phase
             /\ s.events = << >> /\ Roll(s.players, w)
<1> DEFINE s == SeenAt(base, pos, where, whole)
           At(x) == Moved(x, where, whole)
           n == Cardinality(w.here)
<1>1. {"tick", "players", "vehicles", "events", "teams", "phase"} \subseteq DOMAIN base
  BY DEF FrameFacts
<1>2. /\ DOMAIN s = DOMAIN base /\ s.events = << >>
      /\ s.vehicles = base.vehicles /\ s.teams = base.teams /\ s.phase = base.phase
      /\ s.players = [i \in DOMAIN base.players |->
           IF KeyOf(base.players[i]) \in DOMAIN pos.players /\ base.players[i].health > 0
           THEN At(base.players[i]) ELSE base.players[i]]
  BY <1>1 DEF SeenAt
<1> HIDE DEF s
<1>3. /\ Len(base.players) = n /\ DOMAIN base.players = 1..n /\ n \in Nat
      /\ \A i \in 1..n : Shows(base.players[i], Present(w)[i], w)
  <2>1. Roll(base.players, w) /\ Len(base.players) \in Nat
    BY DEF FrameFacts, FrameOk, Entities, Keyed
  <2> QED
    BY <2>1 DEF Roll
<1>4. \A i \in 1..n : Shows(s.players[i], Present(w)[i], w)
  <2> SUFFICES ASSUME NEW i \in 1..n PROVE Shows(s.players[i], Present(w)[i], w)
    OBVIOUS
  <2>1. CASE s.players[i] = base.players[i]
    BY <1>3, <2>1
  <2>2. CASE s.players[i] = At(base.players[i]) /\ base.players[i].health > 0
    <3> DEFINE x == base.players[i]
    <3>1. /\ Shows(x, Present(w)[i], w)
          /\ {"pos", "health", "eos", "name", "team", "deaths"} \subseteq DOMAIN x
      BY <1>3 DEF FrameFacts
    <3> HIDE DEF x
    <3>3. At(x).health \in Int /\ (x.health > 0 => At(x).health > 0)
      BY <3>1 DEF Shows, Moved
    <3>4. /\ At(x).eos = x.eos /\ At(x).name = x.name /\ At(x).team = x.team
          /\ At(x).deaths = x.deaths
      BY <3>1 DEF Moved
    <3> HIDE DEF At
    <3>2. x.health > 0 => Shows(At(x), Present(w)[i], w)
      BY <3>1, <3>3, <3>4 DEF Shows
    <3> QED
      BY <2>2, <3>2 DEF x, At
  <2> QED
    BY <1>2, <1>3, <2>1, <2>2
<1>5. Len(s.players) = n /\ DOMAIN s.players = 1..n
  BY <1>2, <1>3
<1>6. Roll(s.players, w)
  BY <1>4, <1>5 DEF Roll
<1> QED
  BY <1>2, <1>6 DEF s

LEMMA PositionLineKeeps ==
  LoadInv /\ PositionLine
    => /\ LoadInv' /\ Moves /\ world'.car = world.car /\ world'.deaths = world.deaths
       /\ world'.here = world.here /\ world'.full = world.full
       /\ world.full # 0 => seen'.events = << >>
<1> SUFFICES ASSUME LoadInv, PositionLine
             PROVE  /\ LoadInv' /\ Moves /\ world'.car = world.car
                    /\ world'.deaths = world.deaths /\ world'.here = world.here
                    /\ world'.full = world.full /\ (world.full # 0 => seen'.events = << >>)
  OBVIOUS
<1> DEFINE w == [world EXCEPT !.where = 1 - @, !.pos = @ + 1]
           car == Vehicle(w)
           F(S, whole) ==
             [t |-> "pos", tick |-> TickOf(w),
              players |-> [k \in {OrElse(Eos[p], Name[p]) : p \in S} |->
                             [at |-> w.where, health |-> IF whole THEN 1 + w.where ELSE None]],
              vehicles |-> IF w.car = "gone" THEN << >>
                           ELSE [car |-> IF whole THEN [health |-> car.health, team |-> CarTeam]
                                         ELSE [health |-> None, team |-> None]]]
<1>1. PICK S, whole :
               /\ whole \in BOOLEAN /\ world' = w
               /\ Load([kind |-> "pos", pos |-> F(S, whole)])
               /\ seen' = IF world.full = 0 THEN NoFrame
                          ELSE SeenAt(enc.prev, F(S, whole), w.where, whole)
               /\ enc' = enc
  BY DEF PositionLine, SeenAt
<1>2. /\ WorldOk(w) /\ w.full = world.full /\ w.car = world.car /\ w.where \in {0, 1}
      /\ w.deaths = world.deaths /\ w.here = world.here /\ w.cond = world.cond
  <2>1. WorldOk(world) /\ DOMAIN world = DOMAIN World0
    BY DEF LoadInv, WorldOk
  <2>2. DOMAIN w = DOMAIN world /\ IsFn(w)
    BY <2>1 DEF WorldOk, IsFn
  <2>3. /\ w.here = world.here /\ w.where = 1 - world.where /\ w.full = world.full
        /\ w.car = world.car /\ w.deaths = world.deaths /\ w.tickets = world.tickets
        /\ w.phase = world.phase /\ w.cond = world.cond
    BY <2>1 DEF World0
  <2> HIDE DEF w
  <2>4. w.where \in {0, 1}
    BY <2>1, <2>3 DEF WorldOk
  <2> QED
    BY <2>1, <2>2, <2>3, <2>4 DEF WorldOk
<1> DEFINE f == F(S, whole)
           line == [kind |-> "pos", pos |-> f]
<1>3. /\ f.t = "pos" /\ "t" \in DOMAIN f
      /\ \A k \in DOMAIN f.players :
           f.players[k] = [at |-> w.where, health |-> IF whole THEN 1 + w.where ELSE None]
      /\ w.car # "gone" =>
           f.vehicles = [car |-> IF whole THEN [health |-> IF w.car = "runs" THEN 1 ELSE 0,
                                                team |-> CarTeam]
                                 ELSE [health |-> None, team |-> None]]
  <2> HIDE DEF w
  <2>1. car.health = IF w.car = "runs" THEN 1 ELSE 0
    BY DEF Vehicle
  <2> HIDE DEF car
  <2>2. f.players = [k \in {OrElse(Eos[p], Name[p]) : p \in S} |->
                       [at |-> w.where, health |-> IF whole THEN 1 + w.where ELSE None]]
    OBVIOUS
  <2>3. \A k \in DOMAIN f.players :
           f.players[k] = [at |-> w.where, health |-> IF whole THEN 1 + w.where ELSE None]
    BY <2>2
  <2>4. w.car # "gone" =>
           f.vehicles = [car |-> IF whole THEN [health |-> car.health, team |-> CarTeam]
                                 ELSE [health |-> None, team |-> None]]
    OBVIOUS
  <2>5. f.t = "pos" /\ "t" \in DOMAIN f
    OBVIOUS
  <2> QED
    BY <2>1, <2>3, <2>4, <2>5
<1>4. line.kind = "pos" /\ line.pos = f
  OBVIOUS
<1>5. reader' = PushLine(reader, line) /\ seen' = IF world.full = 0 THEN NoFrame ELSE SeenAt(enc.prev, f, w.where, whole)
  BY <1>1 DEF Load
<1> HIDE DEF w, f, line, F, car
<1>6. reader' = [unpacker |-> reader.unpacker, lastFull |-> reader.lastFull,
                 snap |-> IF reader.lastFull = NoFrame THEN NoFrame
                          ELSE ReconstructFromPosition(reader.lastFull, f)]
  <2>1. Unpack(reader.unpacker, line) = [d |-> reader.unpacker, frame |-> f]
    BY <1>4 DEF Unpack
  <2>2. Reconstruct(reader.lastFull, f) =
          [lastFull |-> reader.lastFull,
           snap |-> IF reader.lastFull = NoFrame THEN NoFrame
                    ELSE ReconstructFromPosition(reader.lastFull, f)]
    BY <1>3 DEF Reconstruct, IsPositionFrame
  <2> QED
    BY <1>4, <1>5, <2>1, <2>2 DEF PushLine
<1>7. world' = w /\ enc' = enc /\ Synced(enc, reader.unpacker)
  BY <1>1 DEF LoadInv
<1>8. \A p \in People : world.deaths[p] <= w.deaths[p]
  <2>1. \A p \in People : w.deaths[p] \in Nat
    BY <1>2 DEF WorldOk
  <2> QED
    BY <1>2, <2>1
<1>9. /\ Moves /\ world'.car = world.car /\ world'.deaths = world.deaths
      /\ world'.here = world.here /\ world'.full = world.full
  BY <1>2, <1>7, <1>8 DEF Moves
<1>10. CASE world.full = 0
  <2>1. reader.lastFull = NoFrame
    BY <1>10 DEF LoadInv
  <2>2. reader'.lastFull = NoFrame /\ reader'.snap = NoFrame /\ seen' = NoFrame
    BY <1>5, <1>6, <1>10, <2>1
  <2>3. world'.full = 0 /\ Synced(enc', reader'.unpacker)
    BY <1>2, <1>6, <1>7, <1>10
  <2>4. reader' = [unpacker |-> reader'.unpacker, lastFull |-> reader'.lastFull, snap |-> reader'.snap]
    BY <1>6
  <2>5. LoadInv'
    BY <1>2, <1>7, <2>2, <2>3, <2>4 DEF LoadInv
  <2> QED
    BY <1>9, <1>10, <2>5
<1>11. CASE world.full # 0
  <2>1. reader.lastFull = enc.prev /\ FrameFacts(enc.prev, world)
    BY <1>11 DEF LoadInv
  <2>2. FrameFacts(enc.prev, w)
    <3>1. Tallies(enc.prev, w)
      BY <1>2, <2>1 DEF FrameFacts, Tallies, TeamDeaths
    <3>2. Present(w) = Present(world)
      BY <1>2 DEF Present
    <3>3. Roll(enc.prev.players, w)
      BY <1>2, <2>1, <3>2 DEF FrameFacts, Roll, Shows
    <3> QED
      BY <2>1, <3>1, <3>3 DEF FrameFacts
  <2>3. enc.prev # NoFrame
    BY <2>1 DEF FrameFacts, NoFrame, Empty
  <2>4. w.where \in {0, 1} /\ whole \in BOOLEAN
    BY <1>1, <1>2
  <2>5. ReconstructFromPosition(enc.prev, f) = SeenAt(enc.prev, f, w.where, whole)
    BY <1>1, <1>2, <1>3, <2>2, PositionsSpliced
  <2> DEFINE s == SeenAt(enc.prev, f, w.where, whole)
  <2>6. /\ DOMAIN s = DOMAIN enc.prev
        /\ s.vehicles = enc.prev.vehicles /\ s.teams = enc.prev.teams /\ s.phase = enc.prev.phase
        /\ s.events = << >> /\ Roll(s.players, w)
    BY <2>2, <2>4, SeenAtKeeps
  <2> HIDE DEF s
  <2>7. reader'.lastFull = enc.prev /\ reader'.snap = s /\ seen' = s
    BY <1>5, <1>6, <1>11, <2>1, <2>3, <2>5 DEF s
  <2>8. {"tick", "players", "vehicles", "events", "teams", "phase"} \subseteq DOMAIN s
    BY <2>1, <2>6 DEF FrameFacts
  <2>9. world'.full # 0 /\ Synced(enc', reader'.unpacker)
    BY <1>2, <1>6, <1>7, <1>11
  <2>10. reader' = [unpacker |-> reader'.unpacker, lastFull |-> reader'.lastFull, snap |-> reader'.snap]
    BY <1>6
  <2>11. LoadInv'
    BY <1>2, <1>7, <2>2, <2>6, <2>7, <2>8, <2>9, <2>10 DEF LoadInv
  <2> QED
    BY <1>9, <2>6, <2>7, <2>11
<1> QED
  BY <1>9, <1>10, <1>11

LEMMA OtherLineKeeps == LoadInv /\ OtherLine => LoadInv'
<1> SUFFICES ASSUME LoadInv, OtherLine PROVE LoadInv'
  OBVIOUS
<1>1. UNCHANGED <<reader, world, enc, seen>>
  BY DEF OtherLine, PushLine
<1> QED
  BY <1>1 DEF LoadInv

LEMMA World0Ok == WorldOk(World0) /\ World0.full = 0
<1>1. /\ World0.here = People /\ World0.where = 0 /\ World0.full = 0 /\ World0.car = "runs"
      /\ World0.phase = "InProgress" /\ World0.deaths = [p \in People |-> 1]
      /\ World0.tickets = [t \in TicketTeams |-> StartTickets] /\ IsFn(World0)
  BY DEF World0, IsFn
<1>2. [t \in TicketTeams |-> StartTickets] \in [TicketTeams -> Int]
  BY ReplayAssumption
<1> QED
  BY <1>1, <1>2 DEF WorldOk

LEMMA LoadInvHolds == Spec => []LoadInv
<1>1. Init => LoadInv
  <2> SUFFICES ASSUME Init PROVE LoadInv
    OBVIOUS
  <2>1. WorldOk(world) /\ world.full = 0
    BY World0Ok DEF Init
  <2>2. Synced(enc, reader.unpacker)
    <3>1. Coded(Empty)
      BY FS_EmptySet DEF Coded, Empty
    <3> QED
      BY <3>1 DEF Init, Synced, NewEncoder, NewReader, NewUnpacker
  <2> QED
    BY <2>1, <2>2 DEF LoadInv, Init, NewReader
<1>2. LoadInv /\ [Next]_vars => LoadInv'
  <2> SUFFICES ASSUME LoadInv, [Next]_vars PROVE LoadInv'
    OBVIOUS
  <2>1. CASE FullLine
    BY <2>1, FullLineKeeps
  <2>2. CASE PositionLine
    BY <2>2, PositionLineKeeps
  <2>3. CASE OtherLine
    BY <2>3, OtherLineKeeps
  <2>4. CASE UNCHANGED vars
    BY <2>4 DEF LoadInv, vars, viewer
  <2> QED
    BY <2>1, <2>2, <2>3, <2>4 DEF Next
<1> QED
  BY <1>1, <1>2, PTL DEF Spec

\* What two layers of decoding give (the compact format and the positions
\* between full frames) is what the agent saw when it wrote the line: every
\* field of a full frame, entities in their order, nothing carried forward
\* that has gone, and whoever was sampled where he was sampled
\* (replayUnpack.ts, replayReconstruct.ts).
THEOREM DecodesToSeen == Spec => []DecodedIsSeen
<1>1. LoadInv => DecodedIsSeen
  BY DEF LoadInv, DecodedIsSeen
<1> QED
  BY <1>1, LoadInvHolds, PTL

-----------------------------------------------------------------------------
(* The losses, line by line *)

\* What a line adds to a team: a drop to the losses, the car to what was
\* destroyed, and the deaths to the deaths.
Adds(t, drop, cost) ==
  LET old == tickets.bk[t]
      new == tickets'.bk[t]
  IN  /\ tickets'.acc[t] \in Nat /\ Whole(new)
      /\ lost'[t] = lost[t] + drop /\ killed'[t] = killed[t] + cost
      /\ new.total = old.total + drop
      /\ old.total = old.death + old.vehicle + old.bleed
           => new.total = new.death + new.vehicle + new.bleed
      /\ new.vehicle <= old.vehicle + cost
      /\ new.death + tickets'.acc[t] <=
           old.death + tickets.acc[t] + (TeamDeaths(world', t) - TeamDeaths(world, t))

LEMMA AddsKeep ==
  ASSUME LossOk, LoadInv, LoadInv', Moves, tickets'.acc \in [TicketTeams -> Nat],
         \A t \in TicketTeams : \E drop, cost \in Nat : Adds(t, drop, cost)
  PROVE  LossOk'
<1>1. ASSUME NEW t \in TicketTeams
      PROVE  /\ Whole(tickets'.bk[t]) /\ lost'[t] \in Nat /\ killed'[t] \in Int
             /\ tickets'.bk[t].total = lost'[t]
             /\ tickets'.bk[t].total =
                  tickets'.bk[t].death + tickets'.bk[t].vehicle + tickets'.bk[t].bleed
             /\ tickets'.bk[t].vehicle <= killed'[t]
             /\ tickets'.bk[t].death + tickets'.acc[t] <=
                  TeamDeaths(world', t) - TeamDeaths(World0, t)
  <2> DEFINE old == tickets.bk[t]
             new == tickets'.bk[t]
             d == TeamDeaths(world, t)
             d1 == TeamDeaths(world', t)
             d0 == TeamDeaths(World0, t)
  <2>1. PICK drop \in Nat, cost \in Nat : Adds(t, drop, cost)
    OBVIOUS
  <2>2. d \in Int /\ d1 \in Int
    <3>1. WorldOk(world) /\ WorldOk(world')
      BY DEF LoadInv
    <3> QED
      BY <3>1, TeamDeathsGrow DEF Moves
  <2>3. d0 \in Int
    <3>1. \A p \in People : World0.deaths[p] <= World0.deaths[p]
      BY DEF World0
    <3> QED
      BY <3>1, World0Ok, TeamDeathsGrow
  <2>4. /\ Whole(old) /\ lost[t] \in Nat /\ killed[t] \in Int /\ tickets.acc[t] \in Nat
        /\ old.total = lost[t] /\ old.total = old.death + old.vehicle + old.bleed
        /\ old.vehicle <= killed[t] /\ old.death + tickets.acc[t] <= d - d0
    BY DEF LossOk, LossesExplained, LossesAddUp, CausesBounded
  <2> HIDE DEF d, d1, d0
  <2>5. /\ tickets'.acc[t] \in Nat /\ Whole(new)
        /\ lost'[t] = lost[t] + drop /\ killed'[t] = killed[t] + cost
        /\ new.total = old.total + drop
        /\ new.total = new.death + new.vehicle + new.bleed
        /\ new.vehicle <= old.vehicle + cost
        /\ new.death + tickets'.acc[t] <= old.death + tickets.acc[t] + (d1 - d)
    BY <2>1, <2>4 DEF Adds, d, d1
  <2> HIDE DEF old, new
  <2>6. lost'[t] \in Nat /\ killed'[t] \in Int /\ new.total = lost'[t]
    <3>1. lost[t] + drop \in Nat /\ killed[t] + cost \in Int
      BY <2>4
    <3>2. new.total = lost[t] + drop
      BY <2>4, <2>5
    <3> QED
      BY <2>5, <3>1, <3>2
  <2>7. new.vehicle <= killed'[t]
    BY <2>4, <2>5 DEF Whole
  <2>8. new.death + tickets'.acc[t] <= d1 - d0
    BY <2>2, <2>3, <2>4, <2>5 DEF Whole
  <2> QED
    BY <2>5, <2>6, <2>7, <2>8 DEF old, new, d1, d0
<1> QED
  BY <1>1 DEF LossOk, LossesExplained, LossesAddUp, CausesBounded

LEMMA LossStep ==
  ASSUME LossOk, LoadInv, LoadInv', Moves, world.full # 0,
         tickets' = TicketStep(tickets, seen, seen')
  PROVE  /\ tickets'.acc \in [TicketTeams -> Nat]
         /\ \A t \in TicketTeams : StepOk(world, world', seen, seen', t, tickets, tickets')
<1>1. WorldOk(world) /\ WorldOk(world')
  BY DEF LoadInv
<1>2. Tallies(seen, world)
  BY DEF LoadInv, FrameFacts, Tallies
<1>3. Tallies(seen', world')
  <2>1. world'.full # 0
    BY DEF Moves
  <2>2. /\ FrameFacts(enc'.prev, world')
        /\ seen'.vehicles = enc'.prev.vehicles /\ seen'.teams = enc'.prev.teams
    BY <2>1 DEF LoadInv
  <2> QED
    BY <2>2 DEF FrameFacts, Tallies
<1>4. tickets.acc \in [TicketTeams -> Nat] /\ \A t \in TicketTeams : Whole(tickets.bk[t])
  BY DEF LossOk
<1>5. \A p \in People : world.deaths[p] <= world'.deaths[p]
  BY DEF Moves
<1>6. \A t \in TicketTeams : StepOk(world, world', seen, seen', t, tickets, TicketStep(tickets, seen, seen'))
  BY <1>1, <1>2, <1>3, <1>4, <1>5, StepAddsUp
<1>7. \A t \in TicketTeams : tickets'.acc[t] \in Nat
  BY <1>6 DEF StepOk
<1>8. tickets'.acc = [t \in TicketTeams |-> tickets'.acc[t]]
  BY DEF TicketStep
<1> QED
  BY <1>6, <1>7, <1>8

\* Without a frame before it a line adds nothing.
LEMMA NothingAdded ==
  ASSUME LossOk, LoadInv, LoadInv', Moves, NEW t \in TicketTeams, NEW cost \in Nat,
         tickets' = tickets, lost'[t] = lost[t], killed'[t] = killed[t] + cost
  PROVE  Adds(t, 0, cost)
<1> DEFINE b == tickets.bk[t]
<1>1. TeamDeaths(world, t) \in Int /\ TeamDeaths(world', t) \in Int
      /\ TeamDeaths(world, t) <= TeamDeaths(world', t)
  <2>1. WorldOk(world) /\ WorldOk(world')
    BY DEF LoadInv
  <2> QED
    BY <2>1, TeamDeathsGrow DEF Moves
<1>2. Whole(b) /\ tickets.acc[t] \in Nat /\ lost[t] \in Nat
  BY DEF LossOk
<1> HIDE DEF b
<1>3. /\ b.total = b.total + 0 /\ b.vehicle <= b.vehicle + cost
      /\ b.death + tickets.acc[t] <=
           b.death + tickets.acc[t] + (TeamDeaths(world', t) - TeamDeaths(world, t))
      /\ lost[t] = lost[t] + 0
  BY <1>1, <1>2 DEF Whole
<1> QED
  BY <1>2, <1>3 DEF Adds, b

LEMMA FullLineExplained == LoadInv /\ LossOk /\ FullLine => LossOk'
<1> SUFFICES ASSUME LoadInv, LossOk, FullLine PROVE LossOk'
  OBVIOUS
<1>1. LoadInv' /\ Moves /\ world'.full # 0
  BY FullLineKeeps
<1> DEFINE cost(t) == IF t = CarTeam /\ world.car = "runs" /\ world'.car = "wreck"
                      THEN CarPrice ELSE 0
           drop(t) == IF BothInProgress(seen, seen') THEN Drop(seen, seen', t) ELSE 0
<1>2. /\ tickets' = IF reader.snap = NoFrame \/ reader'.snap = NoFrame THEN tickets
                    ELSE TicketStep(tickets, reader.snap, reader'.snap)
      /\ lost' = IF seen = NoFrame THEN lost ELSE [t \in TicketTeams |-> lost[t] + drop(t)]
      /\ killed' = [t \in TicketTeams |-> killed[t] + cost(t)]
  BY DEF FullLine, Load
<1>3. \A t \in TicketTeams : cost(t) \in Nat
  BY CarPriceIs
<1> HIDE DEF cost, drop
<1>4. CASE world.full = 0
  <2>1. reader.snap = NoFrame /\ seen = NoFrame
    BY <1>4 DEF LoadInv
  <2>2. tickets' = tickets /\ lost' = lost
    BY <1>2, <2>1
  <2>3. \A t \in TicketTeams : Adds(t, 0, cost(t))
    BY <1>1, <1>2, <1>3, <2>2, NothingAdded
  <2>4. \A t \in TicketTeams : \E d, c \in Nat : Adds(t, d, c)
    BY <1>3, <2>3
  <2>5. tickets'.acc \in [TicketTeams -> Nat]
    BY <2>2 DEF LossOk
  <2> QED
    BY <1>1, <2>4, <2>5, AddsKeep
<1>5. CASE world.full # 0
  <2>1. reader.snap = seen /\ seen # NoFrame
    BY <1>5 DEF LoadInv, NoFrame, Empty
  <2>2. reader'.snap = seen' /\ seen' # NoFrame
    BY <1>1 DEF LoadInv, NoFrame, Empty
  <2>3. tickets' = TicketStep(tickets, seen, seen')
    BY <1>2, <2>1, <2>2
  <2>4. /\ tickets'.acc \in [TicketTeams -> Nat]
        /\ \A t \in TicketTeams : StepOk(world, world', seen, seen', t, tickets, tickets')
    BY <1>1, <1>5, <2>3, LossStep
  <2>5. ASSUME NEW t \in TicketTeams PROVE Adds(t, drop(t), cost(t))
    <3>1. lost'[t] = lost[t] + drop(t) /\ killed'[t] = killed[t] + cost(t)
      BY <1>2, <2>1
    <3> QED
      BY <2>4, <3>1 DEF StepOk, Adds, drop, cost
  <2>6. \A t \in TicketTeams : drop(t) \in Nat
    <3> SUFFICES ASSUME NEW t \in TicketTeams PROVE Drop(seen, seen', t) \in Nat
      BY DEF drop
    <3>1. seen.teams[t].tickets \in Int \cup {None}
      BY <1>5 DEF LoadInv, FrameFacts, Tallies
    <3>2. seen'.teams[t].tickets \in Int \cup {None}
      <4>1. FrameFacts(enc'.prev, world') /\ seen'.teams = enc'.prev.teams
        BY <1>1 DEF LoadInv
      <4> QED
        BY <4>1 DEF FrameFacts, Tallies
    <3> QED
      BY <3>1, <3>2 DEF Drop, MaxOf
  <2>7. \A t \in TicketTeams : \E d, c \in Nat : Adds(t, d, c)
    BY <1>3, <2>5, <2>6
  <2> QED
    BY <1>1, <2>4, <2>7, AddsKeep
<1> QED
  BY <1>4, <1>5

LEMMA PositionLineExplained == LoadInv /\ LossOk /\ PositionLine => LossOk'
<1> SUFFICES ASSUME LoadInv, LossOk, PositionLine PROVE LossOk'
  OBVIOUS
<1>1. LoadInv' /\ Moves /\ world'.car = world.car
  BY PositionLineKeeps
<1>2. /\ tickets' = IF reader.snap = NoFrame \/ reader'.snap = NoFrame THEN tickets
                    ELSE TicketStep(tickets, reader.snap, reader'.snap)
      /\ lost' = lost /\ killed' = killed /\ enc' = enc
  BY DEF PositionLine, Load
<1>3. \A t \in TicketTeams : lost[t] \in Nat /\ killed[t] \in Int
  BY DEF LossOk
<1>4. CASE world.full = 0
  <2>1. tickets' = tickets
    BY <1>2, <1>4 DEF LoadInv
  <2>2. \A t \in TicketTeams : Adds(t, 0, 0)
    <3> SUFFICES ASSUME NEW t \in TicketTeams PROVE Adds(t, 0, 0)
      OBVIOUS
    <3>1. killed'[t] = killed[t] + 0
      BY <1>2, <1>3
    <3> QED
      BY <1>1, <1>2, <2>1, <3>1, NothingAdded
  <2>3. \A t \in TicketTeams : \E d, c \in Nat : Adds(t, d, c)
    BY <2>2
  <2>4. tickets'.acc \in [TicketTeams -> Nat]
    BY <2>1 DEF LossOk
  <2> QED
    BY <1>1, <2>3, <2>4, AddsKeep
<1>5. CASE world.full # 0
  <2>1. reader.snap = seen /\ seen # NoFrame
    BY <1>5 DEF LoadInv, NoFrame, Empty
  <2>2. world'.full # 0
    BY <1>1, <1>5 DEF Moves
  <2>3. /\ reader'.snap = seen' /\ seen' # NoFrame
        /\ FrameFacts(enc.prev, world') /\ seen'.teams = enc.prev.teams
    BY <1>1, <1>2, <2>2 DEF LoadInv, NoFrame, Empty
  <2>4. tickets' = TicketStep(tickets, seen, seen')
    BY <1>2, <2>1, <2>3
  <2>5. /\ tickets'.acc \in [TicketTeams -> Nat]
        /\ \A t \in TicketTeams : StepOk(world, world', seen, seen', t, tickets, tickets')
    BY <1>1, <1>5, <2>4, LossStep
  <2>6. ASSUME NEW t \in TicketTeams PROVE Adds(t, 0, 0)
    <3>1. lost'[t] = lost[t] + 0 /\ killed'[t] = killed[t] + 0
      BY <1>2, <1>3
    <3>2. Drop(seen, seen', t) = 0
      <4>1. seen.teams = enc.prev.teams
        BY <1>5 DEF LoadInv
      <4>2. enc.prev.teams[t].tickets \in Int \cup {None}
        BY <2>3 DEF FrameFacts, Tallies
      <4> QED
        BY <2>3, <4>1, <4>2 DEF Drop, MaxOf
    <3>3. ~(world.car = "runs" /\ world'.car = "wreck")
      BY <1>1
    <3> QED
      BY <2>5, <3>1, <3>2, <3>3 DEF StepOk, Adds
  <2>7. \A t \in TicketTeams : \E d, c \in Nat : Adds(t, d, c)
    BY <2>6
  <2> QED
    BY <1>1, <2>5, <2>7, AddsKeep
<1> QED
  BY <1>4, <1>5

LEMMA LossOkHolds == Spec => []LossOk
<1>1. Init => LossOk
  <2> SUFFICES ASSUME Init PROVE LossOk
    OBVIOUS
  <2>1. tickets = NewTickets /\ world = World0
    BY DEF Init
  <2>2. /\ tickets.acc = [t \in TicketTeams |-> 0]
        /\ \A t \in TicketTeams :
             /\ tickets.bk[t] = [death |-> 0, vehicle |-> 0, bleed |-> 0, total |-> 0]
             /\ lost[t] = 0 /\ killed[t] = 0
    BY <2>1 DEF Init, NewTickets
  <2>3. \A t \in TicketTeams : TeamDeaths(World0, t) \in Int
    <3>1. \A p \in People : World0.deaths[p] <= World0.deaths[p]
      BY DEF World0
    <3> QED
      BY <3>1, World0Ok, TeamDeathsGrow
  <2>4. ASSUME NEW t \in TicketTeams
        PROVE  /\ Whole(tickets.bk[t]) /\ lost[t] \in Nat /\ killed[t] \in Int
               /\ tickets.bk[t].total = lost[t]
               /\ tickets.bk[t].total =
                    tickets.bk[t].death + tickets.bk[t].vehicle + tickets.bk[t].bleed
               /\ tickets.bk[t].vehicle <= killed[t]
               /\ tickets.bk[t].death + tickets.acc[t] <=
                    TeamDeaths(world, t) - TeamDeaths(World0, t)
    BY <2>1, <2>2, <2>3 DEF Whole
  <2>5. tickets.acc \in [TicketTeams -> Nat]
    BY <2>2
  <2> QED
    BY <2>4, <2>5 DEF LossOk, LossesExplained, LossesAddUp, CausesBounded
<1>2. LoadInv /\ LossOk /\ [Next]_vars => LossOk'
  <2> SUFFICES ASSUME LoadInv, LossOk, [Next]_vars PROVE LossOk'
    OBVIOUS
  <2>1. CASE FullLine
    BY <2>1, FullLineExplained
  <2>2. CASE PositionLine
    BY <2>2, PositionLineExplained
  <2>3. CASE OtherLine \/ UNCHANGED vars
    <3>1. UNCHANGED <<world, tickets, lost, killed>>
      BY <2>3 DEF OtherLine, vars, viewer
    <3> QED
      BY <3>1 DEF LossOk, LossesExplained, LossesAddUp, CausesBounded, Whole
  <2> QED
    BY <2>1, <2>2, <2>3 DEF Next
<1> QED
  BY <1>1, <1>2, LoadInvHolds, PTL DEF Spec

\* Over a whole replay a team's losses add up to the drops of its tickets
\* between readable frames of a running match, vehicles are charged with no
\* more than was shot and deaths with no more than were counted: nothing is
\* lost or charged twice over the snapshots that position frames interleave,
\* bad reads and breaks of the match (ticketTimeline.ts).
THEOREM LossesHaveCauses == Spec => []LossesExplained
<1>1. LossOk => LossesExplained
  BY DEF LossOk
<1> QED
  BY <1>1, LossOkHolds, PTL

-----------------------------------------------------------------------------
(* The rows, line by line *)

\* Once there was a full frame the feed has counted up to the last frame, and
\* every death is one row but those that were missed.
FeedOk ==
  /\ DOMAIN diff = DOMAIN NewDiff
  /\ world.full = 0 => ~diff.inited
  /\ world.full # 0 => diff.inited /\ Counted(diff.prev, world)
  /\ \A p \in People : shown[p] \in Int /\ missed[p] \in Int
  /\ OneRowPerDeath

\* There is a row for each of the dead, in their order.
RowsTell(dead) ==
  /\ Len(rows') = Len(dead)
  /\ \A i \in 1..Len(dead) :
       rows'[i].victim = dead[i].name /\ rows'[i].victimTeam = dead[i].team

LEMMA RowsAre ==
  ASSUME NEW V, NEW dead, Named(dead, V), RowsTell(dead), NEW p \in People
  PROVE  Cardinality(RowsOf(p)) = IF p \in V THEN 1 ELSE 0
<1>1. RowsOf(p) = {j \in 1..Len(dead) : dead[j].name = Name[p] /\ dead[j].team = Team[p]}
  BY DEF RowsOf, RowsTell
<1> QED
  BY <1>1 DEF Named

LEMMA NoRows ==
  ASSUME Len(rows') = 0, NEW p
  PROVE  Cardinality(RowsOf(p)) = 0
<1>1. RowsOf(p) = {}
  BY DEF RowsOf
<1> QED
  BY <1>1, FS_EmptySet

\* The frame tells the feed of a broken match just when it is one.
LEMMA TransitionIs ==
  ASSUME NEW h, WorldOk(h.w), NEW f, Roll(f.players, h.w), f.events = h.events,
         f.phase = h.w.phase,
         NEW dead, Len(dead) = Cardinality(WithName(h.dead))
  PROVE  InTransition(f, dead) <=> Broken(h)
<1> DEFINE n == Len(f.players)
           who == Present(h.w)
           A == {i \in 1..n : f.players[i].health > 0}
           B == {q \in h.w.here : h.w.cond[q] # "dead"}
<1>1. Roll(f.players, h.w) /\ f.events = h.events /\ f.phase = h.w.phase
  OBVIOUS
<1>2. f.phase \notin {None, "InProgress"} <=> h.w.phase # "InProgress"
  BY <1>1, RosterAssumption DEF WorldOk
<1>3. n = Cardinality(h.w.here) /\ n \in Nat /\ InOrder(who, n, h.w.here)
  BY <1>1, PresentAre DEF Roll
<1>4. \A i \in 1..n : f.players[i].health > 0 <=> h.w.cond[who[i]] # "dead"
  BY <1>1 DEF Roll, Shows
<1> HIDE DEF n, who
<1>5. Cardinality(A) = Cardinality(B)
  <2> DEFINE g == [i \in A |-> who[i]]
  <2>1. g \in Bijection(A, B)
    <3>1. \A i \in A : who[i] \in B
      BY <1>3, <1>4 DEF InOrder
    <3>2. \A i, j \in A : who[i] = who[j] => i = j
      BY <1>3 DEF InOrder
    <3>3. \A q \in B : \E i \in A : who[i] = q
      BY <1>3, <1>4 DEF InOrder
    <3> HIDE DEF A, B
    <3> QED
      BY <3>1, <3>2, <3>3 DEF Bijection, Injection, IsInjective, Surjection
  <2>2. ExistsBijection(A, B)
    BY <2>1 DEF ExistsBijection
  <2>3. IsFiniteSet(A)
    <3>1. A \in SUBSET (1..n)
      OBVIOUS
    <3> QED
      BY <1>3, <3>1, RanksAre
  <2> QED
    BY <2>2, <2>3, FS_Bijection
<1> HIDE DEF A, B
<1> QED
  BY <1>1, <1>2, <1>3, <1>5 DEF InTransition, Broken, n, A, B

\* One snapshot in the viewer: the counters follow the match, and unless it is
\* skipped the rows are those of the dead.
Skipped(snap) == ~diff.inited \/ InTransition(snap, Deaths(diff, snap.players))

Told(snap, w, V) ==
  /\ DOMAIN diff' = DOMAIN NewDiff /\ diff'.inited /\ Counted(diff'.prev, w)
  /\ \A p \in People : Cardinality(RowsOf(p)) = IF p \in V /\ ~Skipped(snap) THEN 1 ELSE 0

LEMMA SnapshotTold ==
  ASSUME DOMAIN diff = DOMAIN NewDiff,
         NEW w, NEW v, NEW V \in SUBSET w.here, WorldOk(w), After(w, v, V),
         NEW snap, Roll(snap.players, v), Len(snap.players) \in Nat, Len(snap.events) \in Nat,
         diff.inited => Counted(diff.prev, w),
         diff' = DiffSnapshot(diff, snap).d, rows' = DiffSnapshot(diff, snap).rows
  PROVE  Told(snap, v, WithName(V))
<1> DEFINE dead == Deaths(diff, snap.players)
           skip == ~diff.inited \/ InTransition(snap, dead)
<1>1. Len(dead) \in Nat
  <2> DEFINE n == Len(snap.players)
             D == {i \in 1..n : /\ snap.players[i].name # None
                                /\ IdOf(snap.players[i]) \in DOMAIN diff.prev
                                /\ snap.players[i].deaths > diff.prev[IdOf(snap.players[i])]}
  <2>1. dead = AtPlaces(snap.players, D)
    BY DEF Deaths
  <2>2. D \in SUBSET (1..n)
    OBVIOUS
  <2> HIDE DEF D
  <2>3. Cardinality(D) \in Nat
    BY <2>2, RanksAre
  <2> QED
    BY <2>1, <2>3 DEF AtPlaces
<1> HIDE DEF dead
<1>2. Diffed(DiffSnapshot(diff, snap), diff, snap, dead)
  BY <1>1, DiffIs DEF dead
<1>3. WorldOk(v) /\ WithName(V) \in SUBSET People
  BY DEF After, WorldOk, WithName
<1>4. Counted(diff'.prev, v)
  BY <1>2, <1>3, CountersAre DEF Diffed
<1>5. ASSUME NEW p \in People
      PROVE  Cardinality(RowsOf(p)) = IF p \in WithName(V) /\ ~skip THEN 1 ELSE 0
  <2>1. CASE skip
    <3>1. Len(rows') = 0
      BY <1>2, <2>1 DEF Diffed
    <3> QED
      BY <2>1, <3>1, NoRows
  <2>2. CASE ~skip
    <3>1. diff.inited
      BY <2>2
    <3>2. RowsTell(dead)
      BY <1>2, <2>2 DEF Diffed, RowsTell
    <3>3. Named(dead, WithName(V))
      BY <3>1, DeathsAre DEF dead
    <3>4. Cardinality(RowsOf(p)) = IF p \in WithName(V) THEN 1 ELSE 0
      BY <3>2, <3>3, RowsAre
    <3> QED
      BY <2>2, <3>4
  <2> QED
    BY <2>1, <2>2
<1> QED
  BY <1>2, <1>4, <1>5 DEF Diffed, Told, Skipped, dead

\* A line keeps the account when it adds to each player as many deaths as
\* rows and misses.
LEMMA AccountKeeps ==
  ASSUME FeedOk, WorldOk(world), WorldOk(world'),
         \A p \in People : \E r, m \in {0, 1} :
           /\ shown'[p] = shown[p] + r /\ missed'[p] = missed[p] + m
           /\ world'.deaths[p] = world.deaths[p] + (r + m)
  PROVE  /\ \A p \in People : shown'[p] \in Int /\ missed'[p] \in Int
         /\ OneRowPerDeath'
<1>1. ASSUME NEW p \in People
      PROVE  /\ shown'[p] \in Int /\ missed'[p] \in Int
             /\ world'.deaths[p] = 1 + shown'[p] + missed'[p]
  <2>1. PICK r \in {0, 1}, m \in {0, 1} :
           /\ shown'[p] = shown[p] + r /\ missed'[p] = missed[p] + m
           /\ world'.deaths[p] = world.deaths[p] + (r + m)
    OBVIOUS
  <2>2. /\ shown[p] \in Int /\ missed[p] \in Int
        /\ world.deaths[p] = 1 + shown[p] + missed[p]
    BY DEF FeedOk, OneRowPerDeath
  <2>3. r \in Int /\ m \in Int
    OBVIOUS
  <2> QED
    BY <2>1, <2>2, <2>3
<1> QED
  BY <1>1 DEF OneRowPerDeath

\* What a full line is to the feed.
FullTold(h) ==
  /\ WorldOk(world) /\ WorldOk(world') /\ Roll(seen'.players, world')
  /\ diff' = DiffSnapshot(diff, seen').d /\ rows' = DiffSnapshot(diff, seen').rows
  /\ Told(seen', world', WithName(h.dead))
  /\ diff.inited /\ h.fault # "blind"
       => (InTransition(seen', Deaths(diff, seen'.players)) <=> Broken(h))

LEMMA FullLineTold ==
  ASSUME LoadInv, FeedOk, FullLine, NEW h, Sampled(h)
  PROVE  FullTold(h)
<1>1. LoadInv' /\ world'.full # 0
  BY FullLineKeeps
<1> DEFINE w0 == Respawned(world)
           dead == Deaths(diff, seen'.players)
<1>3. /\ WorldOk(world) /\ WorldOk(w0) /\ w0.deaths = world.deaths /\ w0.here = world.here
      /\ WorldOk(world')
  BY <1>1, RespawnedKeeps DEF LoadInv
<1> HIDE DEF w0
<1>4. /\ After(w0, world', h.dead) /\ h.dead \in SUBSET w0.here /\ world' = h.w
      /\ seen' = Sample(h.w, h.events, h.fault) /\ Len(h.events) \in Nat
  BY DEF Sampled, Happened, w0
<1>5. /\ Roll(seen'.players, world') /\ Len(seen'.players) \in Nat /\ seen'.events = h.events
      /\ seen' # NoFrame /\ reader'.snap = seen'
      /\ h.fault # "blind" => seen'.phase = h.w.phase
  <2>1. /\ FrameFacts(seen', world') /\ seen'.events = h.events
        /\ seen'.phase = IF h.fault = "blind" THEN None ELSE h.w.phase
    BY <1>3, <1>4, SampleFacts
  <2> QED
    BY <1>1, <2>1 DEF LoadInv, FrameFacts, FrameOk, Entities, Keyed, NoFrame, Empty
<1>6. diff' = DiffSnapshot(diff, seen').d /\ rows' = DiffSnapshot(diff, seen').rows
  <2>1. Load(EncodeFull(enc, seen').line)
    BY DEF Sampled
  <2> QED
    BY <1>5, <2>1 DEF Load
<1>7. diff.inited => Counted(diff.prev, w0)
  <2>1. diff.inited => Counted(diff.prev, world)
    BY DEF FeedOk
  <2> QED
    BY <1>3, <2>1 DEF Counted
<1> DEFINE snap == seen'
<1>8. Told(snap, world', WithName(h.dead))
  <2>1. Len(snap.events) \in Nat /\ Roll(snap.players, world') /\ Len(snap.players) \in Nat
    BY <1>4, <1>5
  <2>2. diff' = DiffSnapshot(diff, snap).d /\ rows' = DiffSnapshot(diff, snap).rows
    BY <1>6
  <2>3. DOMAIN diff = DOMAIN NewDiff
    BY DEF FeedOk
  <2> HIDE DEF snap
  <2> QED
    BY <1>3, <1>4, <1>7, <2>1, <2>2, <2>3, SnapshotTold
<1>9. ASSUME diff.inited, h.fault # "blind" PROVE InTransition(seen', dead) <=> Broken(h)
  <2>1. Len(dead) = Cardinality(WithName(h.dead))
    <3>1. Named(dead, WithName(h.dead))
      BY <1>3, <1>4, <1>5, <1>7, <1>9, DeathsAre
    <3> QED
      BY <3>1 DEF Named
  <2>2. seen'.phase = h.w.phase /\ Roll(seen'.players, h.w) /\ WorldOk(h.w)
    BY <1>3, <1>4, <1>5, <1>9
  <2> HIDE DEF dead
  <2>3. InTransition(snap, dead) <=> Broken(h)
    <3>1. snap.phase = h.w.phase /\ Roll(snap.players, h.w) /\ snap.events = h.events
      BY <1>5, <2>2
    <3> HIDE DEF snap
    <3> QED
      BY <2>1, <2>2, <3>1, TransitionIs
  <2> QED
    BY <2>3
<1> QED
  BY <1>3, <1>5, <1>6, <1>8, <1>9 DEF FullTold

LEMMA FullLineCounts == LoadInv /\ FeedOk /\ FullLine => FeedOk'
<1> SUFFICES ASSUME LoadInv, FeedOk, FullLine PROVE FeedOk'
  OBVIOUS
<1>1. LoadInv' /\ world'.full # 0
  BY FullLineKeeps
<1>2. PICK h : Sampled(h)
  BY FullLineSamples
<1> DEFINE w0 == Respawned(world)
           skip == ~diff.inited \/ InTransition(seen', Deaths(diff, seen'.players))
<1>3. /\ WorldOk(world) /\ WorldOk(w0) /\ w0.deaths = world.deaths /\ w0.here = world.here
      /\ WorldOk(world')
  BY <1>1, RespawnedKeeps DEF LoadInv
<1> HIDE DEF w0
<1>4. /\ After(w0, world', h.dead) /\ h.dead \in SUBSET w0.here
      /\ h.dead # {} => h.fault = "none"
      /\ world.full = 0 => h.dead = {}
  BY <1>2 DEF Sampled, Happened, w0
<1>5. FullTold(h)
  BY <1>2, FullLineTold
<1>6. /\ DOMAIN diff' = DOMAIN NewDiff /\ diff'.inited /\ Counted(diff'.prev, world')
      /\ \A p \in People :
           Cardinality(RowsOf(p)) = IF p \in h.dead /\ Name[p] # None /\ ~skip THEN 1 ELSE 0
  BY <1>5 DEF FullTold, Told, Skipped, WithName
<1>7. h.dead # {} => (skip <=> Broken(h))
  BY <1>4, <1>5 DEF FullTold, FeedOk
<1> HIDE DEF skip
<1>8. ASSUME NEW p \in People
      PROVE  \E r, m \in {0, 1} :
               /\ shown'[p] = shown[p] + r /\ missed'[p] = missed[p] + m
               /\ world'.deaths[p] = world.deaths[p] + (r + m)
  <2> DEFINE r == IF p \in h.dead /\ Name[p] # None /\ ~skip THEN 1 ELSE 0
             m == IF p \in h.dead /\ (Name[p] = None \/ p \notin world.here \/ Broken(h))
                  THEN 1 ELSE 0
  <2>1. shown'[p] = shown[p] + r
    BY <1>2, <1>6 DEF Sampled, History
  <2>2. missed'[p] = missed[p] + m
    BY <1>2 DEF Sampled, History, Broken
  <2>3. r + m = IF p \in h.dead THEN 1 ELSE 0
    BY <1>3, <1>4, <1>7
  <2>4. world'.deaths[p] = world.deaths[p] + (r + m)
    BY <1>3, <1>4, <2>3 DEF After
  <2>5. r \in {0, 1} /\ m \in {0, 1}
    OBVIOUS
  <2> HIDE DEF r, m
  <2> QED
    BY <2>1, <2>2, <2>4, <2>5
<1>9. (\A p \in People : shown'[p] \in Int /\ missed'[p] \in Int) /\ OneRowPerDeath'
  BY <1>3, <1>8, AccountKeeps
<1> QED
  BY <1>1, <1>6, <1>9 DEF FeedOk

\* What a position line is to the feed, once there was a full frame.
PositionTold ==
  /\ Roll(seen'.players, world') /\ seen'.events = << >>
  /\ diff' = DiffSnapshot(diff, seen').d /\ rows' = DiffSnapshot(diff, seen').rows
  /\ Told(seen', world', {})

LEMMA PositionLineTold ==
  ASSUME LoadInv, FeedOk, PositionLine, world.full # 0
  PROVE  PositionTold
<1>1. /\ LoadInv' /\ world'.deaths = world.deaths /\ world'.here = world.here
      /\ world'.full = world.full /\ seen'.events = << >>
  BY PositionLineKeeps
<1>2. WorldOk(world) /\ WorldOk(world')
  BY <1>1 DEF LoadInv
<1>3. /\ diff' = IF reader'.snap = NoFrame THEN diff ELSE DiffSnapshot(diff, reader'.snap).d
      /\ rows' = IF reader'.snap = NoFrame THEN << >> ELSE DiffSnapshot(diff, reader'.snap).rows
  BY DEF PositionLine, Load
<1> DEFINE snap == seen'
<1>4. /\ reader'.snap = seen' /\ seen' # NoFrame /\ Roll(seen'.players, world')
      /\ Len(seen'.players) \in Nat
  <2>1. reader'.snap = seen' /\ seen' # NoFrame /\ Roll(seen'.players, world')
    BY <1>1 DEF LoadInv, NoFrame, Empty
  <2>2. Len(seen'.players) \in Nat
    BY <1>2, <2>1, PresentAre DEF Roll
  <2> QED
    BY <2>1, <2>2
<1>5. /\ diff' = DiffSnapshot(diff, seen').d /\ rows' = DiffSnapshot(diff, seen').rows
      /\ Len(seen'.events) \in Nat
  BY <1>1, <1>3, <1>4
<1>6. After(world, world', {})
  <2>1. \A p \in People : world.deaths[p] \in Nat
    BY <1>2 DEF WorldOk
  <2>2. \A p \in People : world'.deaths[p] = world.deaths[p] + 0
    BY <1>1, <2>1
  <2> QED
    BY <1>1, <1>2, <2>2 DEF After
<1>7. diff.inited /\ Counted(diff.prev, world) /\ DOMAIN diff = DOMAIN NewDiff
  BY DEF FeedOk
<1>8. Told(snap, world', {})
  <2> DEFINE none == {}
  <2>1. none \in SUBSET world.here /\ After(world, world', none)
    BY <1>6
  <2>2. /\ Roll(snap.players, world') /\ Len(snap.players) \in Nat
        /\ Len(snap.events) \in Nat
        /\ diff' = DiffSnapshot(diff, snap).d /\ rows' = DiffSnapshot(diff, snap).rows
    BY <1>4, <1>5
  <2> HIDE DEF snap, none
  <2>3. Told(snap, world', WithName(none))
    BY <1>2, <1>7, <2>1, <2>2, SnapshotTold
  <2>4. WithName(none) = none
    BY DEF WithName, none
  <2> QED
    BY <2>3, <2>4 DEF none
<1> QED
  BY <1>1, <1>4, <1>5, <1>8 DEF PositionTold

LEMMA PositionLineCounts == LoadInv /\ FeedOk /\ PositionLine => FeedOk'
<1> SUFFICES ASSUME LoadInv, FeedOk, PositionLine PROVE FeedOk'
  OBVIOUS
<1>1. /\ LoadInv' /\ world'.deaths = world.deaths /\ world'.here = world.here
      /\ world'.full = world.full
  BY PositionLineKeeps
<1>2. WorldOk(world) /\ WorldOk(world')
  BY <1>1 DEF LoadInv
<1>3. /\ shown' = [p \in People |-> shown[p] + Cardinality(RowsOf(p))]
      /\ \A p \in People : missed'[p] = missed[p] + 0
  <2>1. PICK w : History(Plain(w), world.here)
    BY DEF PositionLine
  <2>2. Plain(w).dead = {}
    BY DEF Plain, Happening
  <2> QED
    BY <2>1, <2>2 DEF History
<1>4. /\ DOMAIN diff' = DOMAIN NewDiff
      /\ (world.full = 0 => diff' = diff)
      /\ (world.full # 0 => diff'.inited /\ Counted(diff'.prev, world'))
      /\ \A p \in People : Cardinality(RowsOf(p)) = 0
  <2>1. CASE world.full = 0
    <3>1. reader'.snap = NoFrame
      BY <1>1, <2>1 DEF LoadInv
    <3>2. diff' = diff /\ Len(rows') = 0
      BY <3>1 DEF PositionLine, Load
    <3>3. \A p \in People : Cardinality(RowsOf(p)) = 0
      BY <3>2, NoRows
    <3> QED
      BY <2>1, <3>2, <3>3 DEF FeedOk
  <2>2. CASE world.full # 0
    <3>1. PositionTold
      BY <2>2, PositionLineTold
    <3> QED
      BY <2>2, <3>1 DEF PositionTold, Told
  <2> QED
    BY <2>1, <2>2
<1>5. ASSUME NEW p \in People
      PROVE  \E r, m \in {0, 1} :
               /\ shown'[p] = shown[p] + r /\ missed'[p] = missed[p] + m
               /\ world'.deaths[p] = world.deaths[p] + (r + m)
  <2>1. world'.deaths[p] = world.deaths[p] + (0 + 0)
    BY <1>1, <1>2 DEF WorldOk
  <2>2. shown'[p] = shown[p] + 0 /\ missed'[p] = missed[p] + 0
    BY <1>3, <1>4
  <2> QED
    BY <2>1, <2>2
<1>6. (\A p \in People : shown'[p] \in Int /\ missed'[p] \in Int) /\ OneRowPerDeath'
  BY <1>2, <1>5, AccountKeeps
<1> QED
  BY <1>1, <1>4, <1>6 DEF FeedOk

LEMMA FeedOkStarts == Init => FeedOk
<1> SUFFICES ASSUME Init PROVE FeedOk
  OBVIOUS
<1>1. diff = NewDiff /\ ~diff.inited /\ world.full = 0
  BY World0Ok DEF Init, NewDiff
<1>2. \A p \in People : world.deaths[p] = 1 /\ shown[p] = 0 /\ missed[p] = 0
  BY DEF Init, World0
<1> QED
  BY <1>1, <1>2 DEF FeedOk, OneRowPerDeath

LEMMA FeedOkStays == LoadInv /\ FeedOk /\ [Next]_vars => FeedOk'
<1> SUFFICES ASSUME LoadInv, FeedOk, [Next]_vars PROVE FeedOk'
  OBVIOUS
<1>1. CASE FullLine
  BY <1>1, FullLineCounts
<1>2. CASE PositionLine
  BY <1>2, PositionLineCounts
<1>3. CASE OtherLine \/ UNCHANGED vars
  <2>1. UNCHANGED <<world, diff, shown, missed>>
    BY <1>3 DEF OtherLine, vars, viewer
  <2> QED
    BY <2>1 DEF FeedOk, OneRowPerDeath
<1> QED
  BY <1>1, <1>2, <1>3 DEF Next

\* Over a whole replay every death is one row of the kill feed: none is shown
\* twice, and none is left out unless the match was in transition, the player
\* was not in the frame before or his name is not known, whatever happens
\* between the frames and however many position frames interleave them, with
\* players who come and go, have no stable id or share a name
\* (killfeed/diff.ts).
THEOREM EveryDeathIsOneRow == Spec => []OneRowPerDeath
<1>1. FeedOk => OneRowPerDeath
  BY DEF FeedOk
<1> QED
  BY <1>1, FeedOkStarts, FeedOkStays, LoadInvHolds, PTL DEF Spec

-----------------------------------------------------------------------------
(* The buffer of attacks *)

Listed(s) == Len(s) \in Nat /\ s = [i \in 1..Len(s) |-> s[i]]

\* The same attack, as the feed can tell: at one time, from one hand.
SameAttack(a, b) == a.at = b.at /\ a.ev.attacker = b.ev.attacker

\* Attacks none of which is consumed, each there once.
Attempts(b) ==
  /\ Listed(b)
  /\ \A i \in 1..Len(b) :
       DOMAIN b[i] = {"ev", "at", "used"} /\ ~b[i].used /\ b[i].at \in Int
  /\ \A i, j \in 1..Len(b) : SameAttack(b[i], b[j]) => i = j

\* Entries of a list, taken from these places, none of them twice.
Taken(t, s, D) ==
  /\ Listed(t)
  /\ \E f \in [1..Len(t) -> D] :
       /\ \A m \in 1..Len(t) : t[m] = s[f[m]]
       /\ \A m, n \in 1..Len(t) : f[m] = f[n] => m = n

LEMMA ListedIsSeq ==
  ASSUME NEW s, Listed(s)
  PROVE  s \in Seq({s[i] : i \in 1..Len(s)})
<1> DEFINE n == Len(s)
           T == {s[i] : i \in 1..n}
<1>1. n \in Nat /\ s = [i \in 1..n |-> s[i]]
  BY DEF Listed
<1> HIDE DEF n
<1>2. s \in [1..n -> T]
  BY <1>1
<1>3. s \in Seq(T)
  BY <1>1, <1>2
<1> QED
  BY <1>3 DEF n

LEMMA SeqIsListed ==
  ASSUME NEW T, NEW s \in Seq(T)
  PROVE  Listed(s)
BY DEF Listed

LEMMA AppendIs ==
  ASSUME NEW s, Listed(s), NEW e
  PROVE  /\ Listed(Append(s, e)) /\ Len(Append(s, e)) = Len(s) + 1
         /\ Append(s, e)[Len(s) + 1] = e
         /\ \A i \in 1..Len(s) : Append(s, e)[i] = s[i]
<1> DEFINE T == {s[i] : i \in 1..Len(s)} \cup {e}
<1>1. s \in Seq(T)
  <2> DEFINE U == {s[i] : i \in 1..Len(s)}
  <2>1. s \in Seq(U)
    BY ListedIsSeq
  <2>2. U \subseteq T /\ e \in T
    OBVIOUS
  <2> HIDE DEF U, T
  <2> QED
    BY <2>1, <2>2
<1>2. e \in T
  OBVIOUS
<1> HIDE DEF T
<1>3. Append(s, e) \in Seq(T)
  BY <1>1, <1>2
<1>4. Listed(Append(s, e))
  BY <1>3, SeqIsListed
<1> QED
  BY <1>1, <1>4

LEMMA PlacesTaken ==
  ASSUME NEW s, Listed(s), NEW D \in SUBSET (1..Len(s))
  PROVE  Taken(AtPlaces(s, D), s, D)
<1> DEFINE n == Len(s)
           c == Cardinality(D)
           t == AtPlaces(s, D)
           f == [m \in 1..c |-> NthOf(D, m)]
<1>1. n \in Nat /\ c \in Nat
  BY RanksAre DEF Listed
<1>2. t = [m \in 1..c |-> s[NthOf(D, m)]]
  BY DEF AtPlaces
<1>3. \A m \in 1..c : NthOf(D, m) \in D /\ Rank(D, NthOf(D, m)) = m
  BY <1>1, NthOfIs
<1> HIDE DEF c, t
<1>4. Len(t) = c /\ Listed(t)
  BY <1>1, <1>2 DEF Listed
<1>5. f \in [1..c -> D] /\ \A l, m \in 1..c : f[l] = f[m] => l = m
  BY <1>3
<1>6. \A m \in 1..c : t[m] = s[f[m]]
  BY <1>2
<1> QED
  BY <1>4, <1>5, <1>6, ZenonT(40) DEF Taken, t

LEMMA LastTaken ==
  ASSUME NEW s, Listed(s), NEW n \in Nat
  PROVE  Taken(LastOf(s, n), s, 1..Len(s)) /\ Len(LastOf(s, n)) <= n
<1> DEFINE l == Len(s)
           t == LastOf(s, n)
<1>1. l \in Nat
  BY DEF Listed
<1>2. CASE l > n
  <2> DEFINE T == {s[i] : i \in 1..l}
             k == l - n
             f == [m \in 1..n |-> m + k]
  <2>1. t = SubSeq(s, k + 1, l) /\ s \in Seq(T)
    <3>1. t = SubSeq(s, l - n + 1, l)
      BY <1>2 DEF LastOf
    <3> QED
      BY <3>1, ListedIsSeq
  <2> HIDE DEF T, t
  <2>2. t \in Seq(T) /\ Len(t) = n /\ \A m \in 1..n : t[m] = s[k + m]
    BY <1>1, <1>2, <2>1
  <2>3. Listed(t)
    BY <2>2, SeqIsListed
  <2>4. f \in [1..n -> 1..l] /\ \A x, y \in 1..n : f[x] = f[y] => x = y
    BY <1>1, <1>2
  <2>5. \A m \in 1..n : t[m] = s[f[m]]
    BY <1>1, <2>2
  <2> HIDE DEF f
  <2>6. /\ f \in [1..Len(t) -> 1..l] /\ \A x, y \in 1..Len(t) : f[x] = f[y] => x = y
        /\ \A m \in 1..Len(t) : t[m] = s[f[m]]
    BY <2>2, <2>4, <2>5
  <2>7. Taken(t, s, 1..l)
    BY <2>3, <2>6 DEF Taken
  <2>8. Len(t) <= n
    BY <2>2
  <2> QED
    BY <2>7, <2>8 DEF t
<1>3. CASE ~(l > n)
  <2> DEFINE f == [m \in 1..l |-> m]
  <2>1. t = s
    BY <1>3 DEF LastOf
  <2>2. /\ f \in [1..l -> 1..l] /\ \A x, y \in 1..l : f[x] = f[y] => x = y
        /\ \A m \in 1..l : s[m] = s[f[m]]
    OBVIOUS
  <2> HIDE DEF f, t
  <2>3. Taken(t, s, 1..l)
    BY <2>1, <2>2 DEF Taken
  <2>4. Len(t) <= n
    BY <1>1, <1>3, <2>1
  <2> QED
    BY <2>3, <2>4 DEF t
<1> QED
  BY <1>2, <1>3

LEMMA TakenTaken ==
  ASSUME NEW t, NEW s, NEW b, NEW D, Taken(t, s, 1..Len(s)), Taken(s, b, D)
  PROVE  Taken(t, b, D)
<1>1. PICK f \in [1..Len(t) -> 1..Len(s)] :
        /\ \A m \in 1..Len(t) : t[m] = s[f[m]]
        /\ \A m, n \in 1..Len(t) : f[m] = f[n] => m = n
  BY DEF Taken
<1>2. PICK g \in [1..Len(s) -> D] :
        /\ \A m \in 1..Len(s) : s[m] = b[g[m]]
        /\ \A m, n \in 1..Len(s) : g[m] = g[n] => m = n
  BY DEF Taken
<1> DEFINE h == [m \in 1..Len(t) |-> g[f[m]]]
<1>3. h \in [1..Len(t) -> D]
  BY <1>1, <1>2
<1>4. \A m \in 1..Len(t) : t[m] = b[h[m]]
  BY <1>1, <1>2
<1>5. \A m, n \in 1..Len(t) : h[m] = h[n] => m = n
  BY <1>1, <1>2
<1> QED
  BY <1>3, <1>4, <1>5 DEF Taken

\* What is left of a buffer at the end of a pass: attacks not consumed and not
\* run out, within the bounds.
LEMMA AgedIs ==
  ASSUME NEW d, DOMAIN d = DOMAIN NewDiff, Listed(d.buffer), Listed(d.seen), NEW now
  PROVE  LET r == Aged(d, now)
             D == {i \in 1..Len(d.buffer) :
                     /\ ~d.buffer[i].used
                     /\ now = None \/ d.buffer[i].at = None \/ now - d.buffer[i].at <= AttackTtl}
         IN  /\ Taken(r.buffer, d.buffer, D) /\ Len(r.buffer) <= BufferMax
             /\ Listed(r.seen) /\ Len(r.seen) <= SeenMax
<1> DEFINE r == Aged(d, now)
           D == {i \in 1..Len(d.buffer) :
                   /\ ~d.buffer[i].used
                   /\ now = None \/ d.buffer[i].at = None \/ now - d.buffer[i].at <= AttackTtl}
           s == AtPlaces(d.buffer, D)
<1>1. /\ r.buffer = LastOf(s, BufferMax)
      /\ r.seen = IF Len(d.seen) > SeenMax THEN LastOf(d.seen, SeenKeep) ELSE d.seen
  BY DEF Aged, NewDiff
<1>2. D \in SUBSET (1..Len(d.buffer))
  OBVIOUS
<1> HIDE DEF D
<1>3. Taken(s, d.buffer, D)
  BY <1>2, PlacesTaken
<1> HIDE DEF s, r
<1>4. Listed(s) /\ BufferMax \in Nat
  BY <1>3, CreditAssumption DEF Taken
<1>5. Taken(r.buffer, s, 1..Len(s)) /\ Len(r.buffer) <= BufferMax
  BY <1>1, <1>4, LastTaken
<1>6. Taken(r.buffer, d.buffer, D)
  BY <1>3, <1>5, TakenTaken
<1>7. Listed(r.seen) /\ Len(r.seen) <= SeenMax
  <2>1. SeenMax \in Nat /\ SeenKeep \in Nat /\ SeenKeep <= SeenMax
    BY CreditAssumption
  <2>2. CASE Len(d.seen) > SeenMax
    <3>1. Taken(r.seen, d.seen, 1..Len(d.seen)) /\ Len(r.seen) <= SeenKeep
      BY <1>1, <2>1, <2>2, LastTaken
    <3>2. Listed(r.seen) /\ Len(r.seen) \in Nat
      BY <3>1 DEF Taken, Listed
    <3> QED
      BY <2>1, <3>1, <3>2
  <2>3. CASE ~(Len(d.seen) > SeenMax)
    BY <1>1, <2>1, <2>3 DEF Listed
  <2> QED
    BY <2>2, <2>3
<1> QED
  BY <1>5, <1>6, <1>7 DEF r, D

-----------------------------------------------------------------------------
(* One snapshot and the buffer *)

\* The row names the attacker of this entry, on this victim.
Owes(row, a, v) ==
  /\ row.killer = a.ev.attacker /\ a.ev.victim = v.name
  /\ v.eos = None \/ a.ev.victimEos = None \/ v.eos = a.ev.victimEos

\* Every row that names a killer consumed an entry that does, each its own.
Paid(list, n, U, b, dead) ==
  \E f : \A i \in 1..n : list[i].killer # None =>
    /\ f[i] \in U /\ Owes(list[i], b[f[i]], dead[i])
    /\ \A k \in 1..n : list[k].killer # None /\ f[k] = f[i] => k = i

UsedIn(b) == {j \in 1..Len(b) : b[j].used}

\* So far every row that names a killer has consumed an entry that does.
CreditsSo(acc, n, d, dead) ==
  /\ DOMAIN acc = {"d", "rows"} /\ Len(acc.rows) = n
  /\ DOMAIN acc.d = DOMAIN NewDiff /\ acc.d.seen = d.seen
  /\ Listed(acc.d.buffer) /\ Len(acc.d.buffer) = Len(d.buffer)
  /\ \A j \in 1..Len(d.buffer) :
       /\ DOMAIN acc.d.buffer[j] = {"ev", "at", "used"}
       /\ acc.d.buffer[j].ev = d.buffer[j].ev /\ acc.d.buffer[j].at = d.buffer[j].at
  /\ Paid(acc.rows, n, UsedIn(acc.d.buffer), d.buffer, dead)

LEMMA CreditDeathOwes ==
  ASSUME NEW acc, NEW n \in Nat, NEW d, NEW dead, NEW snap, Listed(d.buffer),
         CreditsSo(acc, n, d, dead)
  PROVE  CreditsSo(CreditDeath(acc, dead[n + 1], snap), n + 1, d, dead)
<1> DEFINE p == dead[n + 1]
           l == Len(d.buffer)
           b == acc.d.buffer
           C == Creditable(acc.d, p)
           k == CHOOSE i \in C : \A j \in C : j <= i
           next == CreditDeath(acc, p, snap)
           to == next.d.buffer
           r == IF C = {} THEN WorldRow(p, snap)
                ELSE CreditedRow(acc.d, p, b[k].ev, snap)
<1>1. /\ DOMAIN acc = {"d", "rows"} /\ Len(acc.rows) = n /\ l \in Nat
      /\ DOMAIN acc.d = DOMAIN NewDiff /\ acc.d.seen = d.seen
      /\ Listed(b) /\ Len(b) = l
  BY DEF CreditsSo, Listed
<1>2. \A j \in 1..l : /\ DOMAIN b[j] = {"ev", "at", "used"}
                      /\ b[j].ev = d.buffer[j].ev /\ b[j].at = d.buffer[j].at
  BY DEF CreditsSo
<1>3. C # {} => k \in C
  <2> SUFFICES ASSUME C # {} PROVE k \in C
    OBVIOUS
  <2>1. C \in SUBSET (1..l)
    BY <1>1 DEF Creditable
  <2>2. \A i \in C : i <= l
    BY <1>1, <2>1
  <2>3. Max(C) \in C /\ \A j \in C : Max(C) >= j
    <3>1. C \in SUBSET Int /\ l \in Int
      BY <1>1, <2>1
    <3> QED
      BY <2>2, <3>1, MaxIs
  <2>4. \A j \in C : j <= Max(C)
    BY <1>1, <2>1, <2>3
  <2> HIDE DEF C
  <2> QED
    BY <2>3, <2>4
<1>4. \A i \in C : /\ i \in 1..l /\ ~b[i].used /\ b[i].ev.victim = p.name
                   /\ p.eos = None \/ b[i].ev.victimEos = None \/ p.eos = b[i].ev.victimEos
  BY <1>1 DEF Creditable
<1>5. /\ DOMAIN next = {"d", "rows"} /\ next.rows = Append(acc.rows, r)
      /\ next.d = IF C = {} THEN acc.d ELSE [acc.d EXCEPT !.buffer[k].used = TRUE]
  BY <1>1 DEF CreditDeath
<1>6. r.killer # None => C # {} /\ r.killer = b[k].ev.attacker
  BY DEF WorldRow, CreditedRow
<1> HIDE DEF next, r, C, k
<1>7. /\ Len(next.rows) = n + 1 /\ next.rows[n + 1] = r
      /\ \A i \in 1..n : next.rows[i] = acc.rows[i]
  BY <1>1, <1>5
<1>8. /\ DOMAIN next.d = DOMAIN NewDiff /\ next.d.seen = d.seen
      /\ to = IF C = {} THEN b ELSE [b EXCEPT ![k].used = TRUE]
  <2>1. {"buffer", "seen"} \subseteq DOMAIN acc.d
    BY <1>1 DEF NewDiff
  <2> QED
    BY <1>1, <1>5, <2>1
<1> HIDE DEF to
<1>9. Listed(to) /\ Len(to) = l
  <2>1. CASE C = {}
    BY <1>1, <1>8, <2>1
  <2>2. CASE C # {}
    <3>1. b = [j \in 1..l |-> b[j]] /\ l \in Nat
      BY <1>1 DEF Listed
    <3>2. to = [j \in 1..l |-> to[j]] /\ DOMAIN to = 1..l
      BY <1>8, <2>2, <3>1
    <3>3. Len(to) = l
      BY <3>1, <3>2
    <3> QED
      BY <3>1, <3>2, <3>3 DEF Listed
  <2> QED
    BY <2>1, <2>2
<1>10. \A j \in 1..l : /\ DOMAIN to[j] = {"ev", "at", "used"}
                       /\ to[j].ev = b[j].ev /\ to[j].at = b[j].at
                       /\ b[j].used => to[j].used
  <2>1. CASE C = {}
    BY <1>2, <1>8, <2>1
  <2>2. CASE C # {}
    <3>1. DOMAIN b = 1..l
      BY <1>1 DEF Listed
    <3>2. \A j \in 1..l : to[j] = IF j = k THEN [b[j] EXCEPT !.used = TRUE] ELSE b[j]
      BY <1>8, <2>2, <3>1
    <3> QED
      BY <1>2, <3>2
  <2> QED
    BY <2>1, <2>2
<1>11. C # {} => to[k].used
  <2>1. DOMAIN b = 1..l
    BY <1>1 DEF Listed
  <2> QED
    BY <1>2, <1>3, <1>4, <1>8, <2>1
<1>12. Paid(next.rows, n + 1, UsedIn(to), d.buffer, dead)
  <2> DEFINE Names(i) == acc.rows[i].killer # None
  <2>1. PICK f : \A i \in 1..n : Names(i) =>
          /\ f[i] \in UsedIn(b) /\ Owes(acc.rows[i], d.buffer[f[i]], dead[i])
          /\ \A m \in 1..n : Names(m) /\ f[m] = f[i] => m = i
    BY DEF CreditsSo, Paid
  <2> DEFINE g == [i \in 1..n + 1 |-> IF i = n + 1 THEN k ELSE f[i]]
  <2>2. \A i \in 1..n + 1 : i \in 1..n \/ i = n + 1
    OBVIOUS
  <2>3. /\ g[n + 1] = k /\ n + 1 \notin 1..n
        /\ \A i \in 1..n : g[i] = f[i]
    OBVIOUS
  <2> HIDE DEF g
  <2>4. \A j \in UsedIn(b) : j \in UsedIn(to) /\ b[j].used
    BY <1>1, <1>9, <1>10 DEF UsedIn
  <2>5. ASSUME next.rows[n + 1].killer # None
        PROVE  /\ k \in UsedIn(to) /\ Owes(next.rows[n + 1], d.buffer[k], dead[n + 1])
               /\ k \notin UsedIn(b)
    <3>1. C # {} /\ r.killer = b[k].ev.attacker
      BY <1>6, <1>7, <2>5
    <3>2. k \in 1..l /\ to[k].used /\ ~b[k].used /\ b[k].ev = d.buffer[k].ev
      BY <1>2, <1>3, <1>4, <1>11, <3>1
    <3>3. Owes(r, d.buffer[k], p)
      BY <1>3, <1>4, <3>1, <3>2 DEF Owes
    <3> QED
      BY <1>7, <1>9, <3>2, <3>3 DEF UsedIn
  <2>6. ASSUME NEW i \in 1..n, next.rows[i].killer # None
        PROVE  /\ g[i] \in UsedIn(b) /\ g[i] \in UsedIn(to)
               /\ Owes(next.rows[i], d.buffer[g[i]], dead[i])
               /\ \A m \in 1..n : next.rows[m].killer # None /\ g[m] = g[i] => m = i
    <3>1. Names(i) /\ g[i] = f[i] /\ next.rows[i] = acc.rows[i]
      BY <1>7, <2>3, <2>6
    <3>2. \A m \in 1..n : next.rows[m].killer # None /\ g[m] = g[i] => Names(m) /\ f[m] = f[i]
      BY <1>7, <2>3
    <3> HIDE DEF Names
    <3> QED
      BY <2>1, <2>4, <3>1, <3>2
  <2>7. ASSUME NEW i \in 1..n + 1, next.rows[i].killer # None
        PROVE  /\ g[i] \in UsedIn(to) /\ Owes(next.rows[i], d.buffer[g[i]], dead[i])
               /\ \A m \in 1..n + 1 : next.rows[m].killer # None /\ g[m] = g[i] => m = i
    <3>1. CASE i \in 1..n
      BY <2>2, <2>3, <2>5, <2>6, <2>7, <3>1
    <3>2. CASE i = n + 1
      BY <2>2, <2>3, <2>5, <2>6, <2>7, <3>2
    <3> QED
      BY <2>2, <3>1, <3>2
  <2> QED
    BY <2>7 DEF Paid
<1>13. \A j \in 1..l : /\ DOMAIN to[j] = {"ev", "at", "used"}
                       /\ to[j].ev = d.buffer[j].ev /\ to[j].at = d.buffer[j].at
  BY <1>2, <1>10
<1> QED
  BY <1>5, <1>7, <1>8, <1>9, <1>12, <1>13 DEF CreditsSo, next, to

LEMMA CreditDeathsOwe ==
  ASSUME NEW d, DOMAIN d = DOMAIN NewDiff, Listed(d.buffer),
         \A j \in 1..Len(d.buffer) : DOMAIN d.buffer[j] = {"ev", "at", "used"},
         NEW dead, Len(dead) \in Nat, NEW snap
  PROVE  CreditsSo(CreditDeaths(d, dead, snap), Len(dead), d, dead)
<1> DEFINE n == Len(dead)
           Is(g) == Crediting(g, n, d, dead, snap)
           f == CHOOSE g : Is(g)
<1>1. CreditDeaths(d, dead, snap) = f[n]
  BY DEF CreditDeaths, Crediting
<1>2. Is(f)
  BY CreditingExists
<1>3. \A i \in 0..n : f[i] = IF i = 0 THEN [d |-> d, rows |-> << >>]
                             ELSE CreditDeath(f[i - 1], dead[i], snap)
  BY <1>2 DEF Crediting
<1> HIDE DEF f, n, Is
<1>4. n \in Nat
  BY DEF n
<1> DEFINE T == {i \in 0..n : ~CreditsSo(f[i], i, d, dead)}
<1>5. T = {}
  <2> SUFFICES ASSUME T # {} PROVE FALSE
    OBVIOUS
  <2>1. PICK m \in T : \A k \in T : m <= k
    <3>1. T \in SUBSET Nat
      BY <1>4
    <3> QED
      BY <3>1, LeastNat
  <2>2. m \in 0..n /\ ~CreditsSo(f[m], m, d, dead)
    OBVIOUS
  <2>3. m # 0
    <3>1. f[0] = [d |-> d, rows |-> << >>]
      BY <1>3, <1>4
    <3>2. CreditsSo(f[0], 0, d, dead)
      BY <3>1 DEF CreditsSo, Paid
    <3> QED
      BY <2>2, <3>2
  <2> DEFINE l == m - 1
  <2>4. l \in 0..n /\ l \in Nat /\ l \notin T /\ l + 1 = m
    BY <1>4, <2>1, <2>2, <2>3
  <2>5. f[m] = CreditDeath(f[l], dead[m], snap)
    BY <1>3, <2>2, <2>3
  <2> HIDE DEF l
  <2>6. CreditsSo(f[l], l, d, dead)
    BY <2>4
  <2>7. CreditsSo(CreditDeath(f[l], dead[l + 1], snap), l + 1, d, dead)
    BY <2>4, <2>6, CreditDeathOwes
  <2> QED
    BY <2>2, <2>4, <2>5, <2>7
<1>6. n \in 0..n
  BY <1>4
<1> QED
  BY <1>1, <1>5, <1>6 DEF n

\* What the one event of a frame does to the feed.
Joined(b, d, ev, now) ==
  /\ DOMAIN b = DOMAIN NewDiff /\ Listed(b.buffer) /\ Listed(b.seen)
  /\ \/ b.buffer = d.buffer
     \/ IsAttack(ev) /\ b.buffer = Append(d.buffer, [ev |-> ev, at |-> now, used |-> FALSE])

LEMMA EventJoins ==
  ASSUME NEW d, DOMAIN d = DOMAIN NewDiff, Listed(d.buffer), Listed(d.seen), NEW ev, NEW now
  PROVE  Joined(BufferEvent(d, ev, now), d, ev, now)
<1> DEFINE b == BufferEvent(d, ev, now)
           e == [ev |-> ev, at |-> now, used |-> FALSE]
           fp == Fingerprint(ev)
<1>1. \/ b = d
      \/ IsAttack(ev) /\ b = [d EXCEPT !.seen = Append(@, fp), !.buffer = Append(@, e)]
  BY DEF BufferEvent
<1>2. Listed(Append(d.buffer, e)) /\ Listed(Append(d.seen, fp))
  BY AppendIs
<1>3. {"seen", "buffer"} \subseteq DOMAIN d
  BY DEF NewDiff
<1> HIDE DEF b, e, fp
<1>4. CASE b = d
  BY <1>4 DEF Joined, b
<1>5. CASE IsAttack(ev) /\ b = [d EXCEPT !.seen = Append(@, fp), !.buffer = Append(@, e)]
  <2>1. /\ DOMAIN b = DOMAIN NewDiff /\ b.seen = Append(d.seen, fp)
        /\ b.buffer = Append(d.buffer, e)
    BY <1>3, <1>5
  <2> QED
    BY <1>2, <1>5, <2>1 DEF Joined, b, e
<1> QED
  BY <1>1, <1>4, <1>5

\* The new entries of a buffer are attacks among the first of these events,
\* each there once.
Grown(B, b, events, n, now) ==
  /\ Listed(B) /\ Len(b) <= Len(B)
  /\ \A i \in 1..Len(b) : B[i] = b[i]
  /\ \A i \in Len(b) + 1..Len(B) : \E m \in 1..n :
       IsAttack(events[m]) /\ B[i] = [ev |-> events[m], at |-> now, used |-> FALSE]
  /\ \A i, j \in Len(b) + 1..Len(B) : SameAttack(B[i], B[j]) => i = j

\* No two attacks of one frame are from one hand.
Apart(events) ==
  \A k, m \in 1..Len(events) :
    /\ IsAttack(events[k]) /\ IsAttack(events[m])
    /\ events[k].attacker = events[m].attacker
    => k = m

AllJoined(x, d, events, n, now) ==
  /\ DOMAIN x = DOMAIN NewDiff /\ Listed(x.seen)
  /\ Grown(x.buffer, d.buffer, events, n, now)

LEMMA GrownOnce ==
  ASSUME NEW b, Listed(b), NEW events, Len(events) \in Nat, Apart(events), NEW now,
         NEW l \in Nat, l + 1 \in 1..Len(events), NEW A, Grown(A, b, events, l, now), NEW B,
         \/ B = A
         \/ /\ IsAttack(events[l + 1])
            /\ B = Append(A, [ev |-> events[l + 1], at |-> now, used |-> FALSE])
  PROVE  Grown(B, b, events, l + 1, now)
<1>1. /\ Listed(A) /\ Len(b) <= Len(A) /\ Len(b) \in Nat /\ Len(A) \in Nat
      /\ \A i \in 1..Len(b) : A[i] = b[i]
      /\ \A i, j \in Len(b) + 1..Len(A) : SameAttack(A[i], A[j]) => i = j
  BY DEF Grown, Listed
<1>2. ASSUME NEW i \in Len(b) + 1..Len(A)
      PROVE  \E m \in 1..l :
               IsAttack(events[m]) /\ A[i] = [ev |-> events[m], at |-> now, used |-> FALSE]
  BY DEF Grown
<1>3. \A m \in 1..l : m \in 1..l + 1 /\ m \in 1..Len(events) /\ m # l + 1
  OBVIOUS
<1>4. CASE B = A
  <2>1. ASSUME NEW i \in Len(b) + 1..Len(B)
        PROVE  \E m \in 1..l + 1 :
                 IsAttack(events[m]) /\ B[i] = [ev |-> events[m], at |-> now, used |-> FALSE]
    BY <1>2, <1>3, <1>4
  <2> QED
    BY <1>1, <1>4, <2>1 DEF Grown
<1>5. CASE B # A
  <2> DEFINE e == [ev |-> events[l + 1], at |-> now, used |-> FALSE]
             n == Len(A)
  <2>1. IsAttack(events[l + 1]) /\ B = Append(A, e)
    BY <1>5
  <2>2. e.ev = events[l + 1]
    OBVIOUS
  <2> HIDE DEF e
  <2>3. /\ Listed(B) /\ Len(B) = n + 1 /\ B[n + 1] = e
        /\ \A i \in 1..n : B[i] = A[i]
    BY <1>1, <2>1, AppendIs
  <2>4. n \in Nat /\ Len(b) \in Nat /\ Len(b) <= n
    BY <1>1
  <2> HIDE DEF n
  <2>5. \A i \in Len(b) + 1..n + 1 : i = n + 1 \/ (i \in Len(b) + 1..n /\ B[i] = A[i])
    BY <2>3, <2>4
  <2>6. ASSUME NEW i \in Len(b) + 1..n + 1
        PROVE  \E m \in 1..l + 1 :
                 IsAttack(events[m]) /\ B[i] = [ev |-> events[m], at |-> now, used |-> FALSE]
    <3>1. CASE i = n + 1
      <4>1. B[i] = [ev |-> events[l + 1], at |-> now, used |-> FALSE] /\ l + 1 \in 1..l + 1
        BY <2>3, <3>1 DEF e
      <4> QED
        BY <2>1, <4>1
    <3>2. CASE i # n + 1
      BY <1>2, <1>3, <2>5, <3>2 DEF n
    <3> QED
      BY <3>1, <3>2
  <2>7. ASSUME NEW i \in Len(b) + 1..n PROVE ~SameAttack(A[i], e) /\ ~SameAttack(e, A[i])
    <3>1. PICK m \in 1..l :
            IsAttack(events[m]) /\ A[i] = [ev |-> events[m], at |-> now, used |-> FALSE]
      BY <1>2 DEF n
    <3>2. A[i].ev = events[m]
      BY <3>1
    <3>3. events[m].attacker # events[l + 1].attacker
      BY <1>3, <2>1, <3>1 DEF Apart
    <3> QED
      BY <2>2, <3>2, <3>3 DEF SameAttack
  <2>8. \A i, j \in Len(b) + 1..n + 1 : SameAttack(B[i], B[j]) => i = j
    <3> SUFFICES ASSUME NEW i \in Len(b) + 1..n + 1, NEW j \in Len(b) + 1..n + 1,
                        SameAttack(B[i], B[j])
                 PROVE  i = j
      OBVIOUS
    <3>1. CASE i = n + 1
      BY <2>3, <2>5, <2>7, <3>1
    <3>2. CASE j = n + 1
      BY <2>3, <2>5, <2>7, <3>2
    <3>3. CASE i # n + 1 /\ j # n + 1
      BY <1>1, <2>5, <3>3 DEF n
    <3> QED
      BY <3>1, <3>2, <3>3
  <2>9. \A i \in 1..Len(b) : B[i] = b[i]
    <3>1. \A i \in 1..Len(b) : i \in 1..n
      BY <2>4
    <3> QED
      BY <1>1, <2>3, <3>1
  <2>10. Len(b) <= Len(B)
    BY <2>3, <2>4
  <2> QED
    BY <2>3, <2>6, <2>8, <2>9, <2>10 DEF Grown, e
<1> QED
  BY <1>4, <1>5

LEMMA EventsJoin ==
  ASSUME NEW d, DOMAIN d = DOMAIN NewDiff, Listed(d.buffer), Listed(d.seen),
         NEW snap, Len(snap.events) \in Nat, Apart(snap.events)
  PROVE  AllJoined(BufferEvents(d, snap), d, snap.events, Len(snap.events), snap.time)
<1> DEFINE n == Len(snap.events)
           Is(g) == Buffering(g, n, d, snap.events, snap.time)
           f == CHOOSE g : Is(g)
           Ok(i) == AllJoined(f[i], d, snap.events, i, snap.time)
<1>1. BufferEvents(d, snap) = f[n]
  BY DEF BufferEvents, Buffering
<1>2. Is(f)
  BY BufferingExists
<1>3. \A i \in 0..n : f[i] = IF i = 0 THEN d
                             ELSE BufferEvent(f[i - 1], snap.events[i], snap.time)
  BY <1>2 DEF Buffering
<1> HIDE DEF f, n, Is
<1>4. n \in Nat
  BY DEF n
<1> DEFINE T == {i \in 0..n : ~Ok(i)}
<1>5. T = {}
  <2> SUFFICES ASSUME T # {} PROVE FALSE
    OBVIOUS
  <2>1. PICK m \in T : \A k \in T : m <= k
    <3>1. T \in SUBSET Nat
      BY <1>4
    <3> QED
      BY <3>1, LeastNat
  <2>2. m \in 0..n /\ ~Ok(m)
    OBVIOUS
  <2>3. m # 0
    <3>1. f[0] = d
      BY <1>3, <1>4
    <3>2. Grown(d.buffer, d.buffer, snap.events, 0, snap.time)
      BY DEF Grown, Listed
    <3>3. Ok(0)
      BY <3>1, <3>2 DEF AllJoined
    <3> QED
      BY <2>2, <3>3
  <2> DEFINE l == m - 1
  <2>4. l \in 0..n /\ l \in Nat /\ l \notin T /\ l + 1 = m /\ m \in 1..n
    BY <1>4, <2>1, <2>2, <2>3
  <2>5. f[m] = BufferEvent(f[l], snap.events[m], snap.time)
    BY <1>3, <2>2, <2>3
  <2> DEFINE a == f[l]
             ev == snap.events[m]
             now == snap.time
  <2>6. AllJoined(a, d, snap.events, l, now)
    BY <2>4
  <2> HIDE DEF l, a, ev, now
  <2>7. DOMAIN a = DOMAIN NewDiff /\ Listed(a.buffer) /\ Listed(a.seen)
    BY <2>6 DEF AllJoined, Grown
  <2>8. Joined(f[m], a, ev, now)
    BY <2>5, <2>7, EventJoins DEF a, ev, now
  <2>9. Grown(f[m].buffer, d.buffer, snap.events, l + 1, now)
    <3>1. \/ f[m].buffer = a.buffer
          \/ /\ IsAttack(snap.events[l + 1])
             /\ f[m].buffer = Append(a.buffer, [ev |-> snap.events[l + 1], at |-> now, used |-> FALSE])
      BY <2>4, <2>8 DEF Joined, ev
    <3>2. Grown(a.buffer, d.buffer, snap.events, l, now) /\ l + 1 \in 1..Len(snap.events)
      BY <2>4, <2>6 DEF AllJoined, n
    <3> QED
      BY <2>4, <3>1, <3>2, GrownOnce
  <2>10. Ok(m)
    BY <2>4, <2>8, <2>9 DEF AllJoined, Joined, now
  <2> QED
    BY <2>2, <2>10
<1>6. n \in 0..n
  BY <1>4
<1> HIDE DEF Ok
<1>7. Ok(n)
  BY <1>5, <1>6
<1> QED
  BY <1>1, <1>7 DEF n, Ok

\* One snapshot that is not skipped: what is left of the buffer was in it or
\* joined with the snapshot's events and is not consumed, and every row that
\* names a killer consumed an entry that does, each its own.
PassedBy(B, U, r, d, snap, dead) ==
  /\ B = d.buffer \/ Grown(B, d.buffer, snap.events, Len(snap.events), snap.time)
  /\ Attempts(B) /\ U \in SUBSET (1..Len(B))
  /\ Paid(r.rows, Len(r.rows), U, B, dead)
  /\ Attempts(r.d.buffer)
  /\ \A m \in 1..Len(r.d.buffer) : \E k \in (1..Len(B)) \ U :
       /\ r.d.buffer[m].ev = B[k].ev /\ r.d.buffer[m].at = B[k].at
       /\ \/ ~d.inited \/ InTransition(snap, dead)
          \/ snap.time = None \/ snap.time - B[k].at <= AttackTtl
Passed(r, d, snap, dead) == \E B, U : PassedBy(B, U, r, d, snap, dead)

\* The bounds of the feed.
Bounded(d) ==
  /\ Listed(d.buffer) /\ Len(d.buffer) <= BufferMax
  /\ Listed(d.seen) /\ Len(d.seen) <= SeenMax

\* Attacks come with the time of the frame, at which there was none before,
\* and from different hands.
Reported(snap, b) ==
  /\ Len(snap.events) \in Nat /\ Apart(snap.events)
  /\ \A m \in 1..Len(snap.events) : IsAttack(snap.events[m]) =>
       /\ snap.time \in Int
       /\ \A i \in 1..Len(b) : b[i].at # snap.time

LEMMA GrownAttempts ==
  ASSUME NEW b, Attempts(b), NEW snap, Reported(snap, b), NEW B,
         Grown(B, b, snap.events, Len(snap.events), snap.time)
  PROVE  Attempts(B)
<1> DEFINE l == Len(b)
<1>1. /\ Listed(B) /\ l <= Len(B) /\ l \in Nat /\ Len(B) \in Nat
      /\ \A i \in 1..l : B[i] = b[i]
      /\ \A i, j \in l + 1..Len(B) : SameAttack(B[i], B[j]) => i = j
  BY DEF Grown, Attempts, Listed
<1>2. ASSUME NEW i \in l + 1..Len(B)
      PROVE  /\ DOMAIN B[i] = {"ev", "at", "used"} /\ ~B[i].used /\ B[i].at \in Int
             /\ \A j \in 1..l : b[j].at # B[i].at
  <2>1. PICK m \in 1..Len(snap.events) :
          /\ IsAttack(snap.events[m])
          /\ B[i] = [ev |-> snap.events[m], at |-> snap.time, used |-> FALSE]
    BY DEF Grown
  <2>2. snap.time \in Int /\ \A j \in 1..l : b[j].at # snap.time
    BY <2>1 DEF Reported
  <2>3. DOMAIN B[i] = {"ev", "at", "used"} /\ ~B[i].used /\ B[i].at = snap.time
    BY <2>1
  <2> QED
    BY <2>2, <2>3
<1>3. /\ \A i \in 1..l : DOMAIN b[i] = {"ev", "at", "used"} /\ ~b[i].used /\ b[i].at \in Int
      /\ \A i, j \in 1..l : SameAttack(b[i], b[j]) => i = j
  BY DEF Attempts
<1> HIDE DEF l
<1>4. \A i \in 1..Len(B) : (i \in 1..l /\ B[i] = b[i]) \/ i \in l + 1..Len(B)
  BY <1>1
<1>5. \A i \in 1..Len(B) : DOMAIN B[i] = {"ev", "at", "used"} /\ ~B[i].used /\ B[i].at \in Int
  BY <1>2, <1>3, <1>4
<1>6. ASSUME NEW i \in 1..Len(B), NEW j \in 1..Len(B), SameAttack(B[i], B[j]) PROVE i = j
  <2>1. B[i].at = B[j].at
    BY <1>6 DEF SameAttack
  <2>2. CASE i \in 1..l /\ j \in 1..l
    BY <1>1, <1>3, <1>6, <2>2
  <2>3. CASE i \in l + 1..Len(B) /\ j \in l + 1..Len(B)
    BY <1>1, <1>6, <2>3
  <2>4. CASE i \in 1..l /\ j \in l + 1..Len(B)
    BY <1>1, <1>2, <2>1, <2>4
  <2>5. CASE i \in l + 1..Len(B) /\ j \in 1..l
    BY <1>1, <1>2, <2>1, <2>5
  <2> QED
    BY <1>4, <2>2, <2>3, <2>4, <2>5
<1> QED
  BY <1>1, <1>5, <1>6 DEF Attempts

LEMMA PassIs ==
  ASSUME NEW d, DOMAIN d = DOMAIN NewDiff, Attempts(d.buffer), Bounded(d),
         NEW snap, Reported(snap, d.buffer),
         NEW dead, dead = Deaths(d, snap.players), Len(dead) \in Nat
  PROVE  /\ Passed(DiffSnapshot(d, snap), d, snap, dead)
         /\ Bounded(DiffSnapshot(d, snap).d)
<1> DEFINE r == DiffSnapshot(d, snap)
           held == HeldWeapons(snap.players) @@ d.weapons
           prev == Counters(snap.players)
           seeded == [d EXCEPT !.weapons = held, !.prev = prev, !.inited = TRUE]
           b == BufferEvents(seeded, snap)
           c == CreditDeaths(b, dead, snap)
           skip == ~d.inited \/ InTransition(snap, dead)
<1>1. r = IF skip THEN [d |-> seeded, rows |-> << >>]
          ELSE [d |-> Aged(c.d, snap.time), rows |-> c.rows]
  BY DEF DiffSnapshot
<1> HIDE DEF held, prev, skip
<1>2. DOMAIN seeded = DOMAIN NewDiff /\ seeded.buffer = d.buffer /\ seeded.seen = d.seen
  BY DEF NewDiff
<1> HIDE DEF seeded, b, c, r
<1>3. CASE skip
  <2>1. r.d = seeded /\ r.rows = << >>
    BY <1>1, <1>3
  <2>2. Bounded(r.d)
    BY <1>2, <2>1 DEF Bounded
  <2> DEFINE none == {}
  <2>3. /\ none \in SUBSET (1..Len(d.buffer))
        /\ Paid(r.rows, Len(r.rows), none, d.buffer, dead)
        /\ Attempts(r.d.buffer)
        /\ \A m \in 1..Len(r.d.buffer) : /\ m \in (1..Len(d.buffer)) \ none
                                         /\ r.d.buffer[m].ev = d.buffer[m].ev
                                         /\ r.d.buffer[m].at = d.buffer[m].at
    BY <1>2, <2>1 DEF Paid
  <2>4. PassedBy(d.buffer, none, r, d, snap, dead)
    BY <1>3, <2>3 DEF PassedBy, skip
  <2> QED
    BY <2>2, <2>4 DEF Passed, r
<1>4. CASE ~skip
  <2>1. Listed(d.buffer) /\ Listed(d.seen)
    BY DEF Bounded
  <2> DEFINE B == b.buffer
  <2>2. /\ DOMAIN b = DOMAIN NewDiff /\ Listed(B) /\ Listed(b.seen)
        /\ Grown(B, d.buffer, snap.events, Len(snap.events), snap.time)
    <3>1. AllJoined(b, seeded, snap.events, Len(snap.events), snap.time)
      BY <1>2, <2>1, EventsJoin DEF b, Reported
    <3> QED
      BY <1>2, <3>1 DEF AllJoined, Grown
  <2> HIDE DEF B
  <2>3. Attempts(B)
    BY <2>2, GrownAttempts
  <2>4. CreditsSo(c, Len(dead), b, dead)
    <3>1. \A j \in 1..Len(b.buffer) : DOMAIN b.buffer[j] = {"ev", "at", "used"}
      BY <2>3 DEF Attempts, B
    <3> QED
      BY <2>2, <3>1, CreditDeathsOwe DEF B, c
  <2> DEFINE E == c.d.buffer
             now == snap.time
             U == UsedIn(E)
             D == {i \in 1..Len(E) :
                     /\ ~E[i].used
                     /\ now = None \/ E[i].at = None \/ now - E[i].at <= AttackTtl}
  <2>5. /\ DOMAIN c.d = DOMAIN NewDiff /\ Listed(E) /\ Listed(c.d.seen) /\ Len(E) = Len(B)
        /\ \A j \in 1..Len(B) : /\ DOMAIN E[j] = {"ev", "at", "used"}
                                /\ E[j].ev = B[j].ev /\ E[j].at = B[j].at
    BY <2>2, <2>4 DEF CreditsSo, B
  <2>6. Paid(c.rows, Len(c.rows), U, B, dead)
    BY <2>4 DEF CreditsSo, B
  <2>7. r.d = Aged(c.d, now) /\ r.rows = c.rows
    BY <1>1, <1>4
  <2>8. /\ Taken(r.d.buffer, E, D) /\ Len(r.d.buffer) <= BufferMax
        /\ Listed(r.d.seen) /\ Len(r.d.seen) <= SeenMax
    <3> DEFINE a == c.d
               out == Aged(a, now)
               F == {i \in 1..Len(a.buffer) :
                       /\ ~a.buffer[i].used
                       /\ now = None \/ a.buffer[i].at = None \/ now - a.buffer[i].at <= AttackTtl}
    <3>1. DOMAIN a = DOMAIN NewDiff /\ Listed(a.buffer) /\ Listed(a.seen)
      BY <2>5
    <3>2. /\ Taken(out.buffer, a.buffer, F) /\ Len(out.buffer) <= BufferMax
          /\ Listed(out.seen) /\ Len(out.seen) <= SeenMax
      <4> HIDE DEF a
      <4> QED
        BY <3>1, AgedIs
    <3> QED
      BY <2>7, <3>2
  <2> HIDE DEF E, U, D, now
  <2>9. PICK f \in [1..Len(r.d.buffer) -> D] :
          /\ \A m \in 1..Len(r.d.buffer) : r.d.buffer[m] = E[f[m]]
          /\ \A m, n \in 1..Len(r.d.buffer) : f[m] = f[n] => m = n
    BY <2>8 DEF Taken
  <2>10. \A i \in D : /\ i \in 1..Len(B) /\ i \notin U /\ ~E[i].used
                      /\ now = None \/ now - B[i].at <= AttackTtl
    <3> SUFFICES ASSUME NEW i \in D
                 PROVE  /\ i \in 1..Len(B) /\ i \notin U /\ ~E[i].used
                        /\ now = None \/ now - B[i].at <= AttackTtl
      OBVIOUS
    <3>1. /\ i \in 1..Len(E) /\ ~E[i].used
          /\ now = None \/ E[i].at = None \/ now - E[i].at <= AttackTtl
      BY DEF D
    <3>2. i \in 1..Len(B) /\ E[i].at = B[i].at /\ B[i].at \in Int
      BY <2>3, <2>5, <3>1 DEF Attempts
    <3>3. B[i].at # None
      BY <3>2, ReplayAssumption
    <3> QED
      BY <3>1, <3>2, <3>3 DEF U, UsedIn
  <2>11. \A i \in 1..Len(B) : B[i].at \in Int
    BY <2>3 DEF Attempts
  <2>12. \A i, j \in 1..Len(B) : SameAttack(B[i], B[j]) => i = j
    BY <2>3 DEF Attempts
  <2>13. \A m \in 1..Len(r.d.buffer) : f[m] \in D
    BY <2>9
  <2>14. \A m \in 1..Len(r.d.buffer) :
           /\ DOMAIN r.d.buffer[m] = {"ev", "at", "used"} /\ ~r.d.buffer[m].used
           /\ r.d.buffer[m].ev = B[f[m]].ev /\ r.d.buffer[m].at = B[f[m]].at
           /\ f[m] \in 1..Len(B) /\ f[m] \notin U
           /\ now = None \/ now - B[f[m]].at <= AttackTtl
    BY <2>5, <2>9, <2>10, <2>13
  <2>15. Attempts(r.d.buffer)
    <3>1. Listed(r.d.buffer)
      BY <2>8 DEF Taken
    <3>2. \A m \in 1..Len(r.d.buffer) : r.d.buffer[m].at \in Int
      BY <2>11, <2>14
    <3>3. \A m, n \in 1..Len(r.d.buffer) : SameAttack(r.d.buffer[m], r.d.buffer[n]) => m = n
      <4> SUFFICES ASSUME NEW m \in 1..Len(r.d.buffer), NEW n \in 1..Len(r.d.buffer),
                          SameAttack(r.d.buffer[m], r.d.buffer[n])
                   PROVE  m = n
        OBVIOUS
      <4>1. f[m] \in 1..Len(B) /\ f[n] \in 1..Len(B) /\ SameAttack(B[f[m]], B[f[n]])
        BY <2>14 DEF SameAttack
      <4>2. f[m] = f[n]
        BY <2>12, <4>1
      <4> QED
        BY <2>9, <4>2
    <3> QED
      BY <2>14, <3>1, <3>2, <3>3 DEF Attempts
  <2>16. \A m \in 1..Len(r.d.buffer) : \E k \in (1..Len(B)) \ U :
           /\ r.d.buffer[m].ev = B[k].ev /\ r.d.buffer[m].at = B[k].at
           /\ now = None \/ now - B[k].at <= AttackTtl
    BY <2>14
  <2>17. U \in SUBSET (1..Len(B))
    BY <2>5 DEF U, UsedIn
  <2>18. Paid(r.rows, Len(r.rows), U, B, dead)
    BY <2>6, <2>7
  <2>19. PassedBy(B, U, r, d, snap, dead)
    BY <2>2, <2>3, <2>15, <2>16, <2>17, <2>18 DEF PassedBy, now
  <2>20. Bounded(r.d)
    BY <2>8 DEF Bounded, Taken
  <2> QED
    BY <2>19, <2>20 DEF Passed, r
<1> QED
  BY <1>3, <1>4

-----------------------------------------------------------------------------
(* Who is credited *)

\* This attack is the entry in the buffer; and as the feed can tell, it is.
Reports(h, ev) ==
  /\ Name[h.by] = ev.attacker /\ Name[h.of] = ev.victim
  /\ ev.victimEos = IF source = "log" THEN None ELSE Eos[h.of]
Known(h, a) == Reports(h, a.ev) /\ h.at = a.at
Meant(h, a) == h.at = a.at /\ Name[h.by] = a.ev.attacker

\* The attacks of a pair, as far as the events tell, and those of them that are
\* no longer in the buffer.
Aimed(h, x) == Name[h.by] = Name[x[1]] /\ SameVictim(Name[h.of], Team[h.of], x[2])
Settled(x) ==
  {h \in hits : Aimed(h, x) /\ \A i \in 1..Len(diff.buffer) : ~Meant(h, diff.buffer[i])}

\* Attacks are of the past.
HitsOk ==
  /\ IsFiniteSet(hits) /\ world.clock \in Int
  /\ \A h \in hits : <<h.by, h.of>> \in Attacks /\ h.at \in Int /\ h.at <= world.clock

\* Every entry of the buffer is an attack that has not run out.
BufferOk ==
  /\ timed.now \in Int /\ timed.now <= world.clock
  /\ Attempts(diff.buffer) /\ Bounded(diff)
  /\ ~diff.inited => Len(diff.buffer) = 0
  /\ \A i \in 1..Len(diff.buffer) :
       /\ \E h \in hits : Known(h, diff.buffer[i])
       /\ timed.now - diff.buffer[i].at <= AttackTtl

\* Of the attacks of a pair no more are credited than have left the buffer.
CreditOk ==
  /\ HitsOk /\ BufferOk /\ KillerDidHit
  /\ \A x \in Attacks : credited[x] \in Nat /\ credited[x] <= Cardinality(Settled(x))

\* These are the new attacks.
Struck(New) ==
  /\ hits' = hits \cup New /\ IsFiniteSet(New)
  /\ world'.clock \in Int /\ world.clock <= world'.clock
  /\ \A g \in New : /\ <<g.by, g.of>> \in Attacks
                    /\ g.at = world'.clock /\ world.clock < world'.clock

\* The frame reports them, and the feed goes on with the time.
Watched(snap, New) ==
  /\ Len(snap.events) \in Nat /\ Apart(snap.events)
  /\ Len(snap.events) # 0 => diff.inited
  /\ \A m \in 1..Len(snap.events) : IsAttack(snap.events[m]) =>
       /\ snap.time = world'.clock /\ world.clock < world'.clock
       /\ \E g \in New : Reports(g, snap.events[m])
  /\ timed'.before = timed.now
  /\ \/ timed'.now = timed.now
     \/ /\ timed'.now = snap.time /\ snap.time = world'.clock
        /\ ~diff.inited \/ ~InTransition(snap, Deaths(diff, snap.players))

\* The rows are of players.
Mourned(dead) ==
  /\ Len(dead) \in Nat /\ Len(rows') \in Nat
  /\ \A i \in 1..Len(rows') :
       /\ i \in 1..Len(dead)
       /\ rows'[i].victim = dead[i].name /\ rows'[i].victimTeam = dead[i].team
       /\ \E q \in People :
            dead[i].name = Name[q] /\ dead[i].team = Team[q] /\ dead[i].eos = Eos[q]
  /\ credited' = [x \in Attacks |-> credited[x] + Cardinality(CreditsTo(x))]

LEMMA HitsStay ==
  ASSUME HitsOk, NEW New, Struck(New)
  PROVE  HitsOk'
<1>1. IsFiniteSet(hits')
  BY FS_Union DEF HitsOk, Struck
<1>2. world.clock \in Int /\ world'.clock \in Int /\ world.clock <= world'.clock
  BY DEF HitsOk, Struck
<1>3. ASSUME NEW h \in hits'
      PROVE  <<h.by, h.of>> \in Attacks /\ h.at \in Int /\ h.at <= world'.clock
  <2>1. CASE h \in hits
    <3>1. <<h.by, h.of>> \in Attacks /\ h.at \in Int /\ h.at <= world.clock
      BY <2>1 DEF HitsOk
    <3> QED
      BY <1>2, <3>1
  <2>2. CASE h \notin hits
    <3>1. <<h.by, h.of>> \in Attacks /\ h.at = world'.clock
      BY <2>2 DEF Struck
    <3> QED
      BY <1>2, <3>1
  <2> QED
    BY <2>1, <2>2
<1> QED
  BY <1>1, <1>2, <1>3 DEF HitsOk

\* What the feed knows after it has read the frame's events.
Backed(B) ==
  \A j \in 1..Len(B) :
    /\ \E h \in hits' : Known(h, B[j])
    /\ B[j].at \in Int /\ timed.now - B[j].at <= AttackTtl
    /\ \A h \in hits : Meant(h, B[j]) =>
         \E i \in 1..Len(diff.buffer) : Meant(h, diff.buffer[i])

LEMMA BufferBacked ==
  ASSUME HitsOk, BufferOk, NEW snap, NEW New, Struck(New), Watched(snap, New), NEW B,
         B = diff.buffer \/ Grown(B, diff.buffer, snap.events, Len(snap.events), snap.time)
  PROVE  Backed(B)
<1>1. ASSUME NEW i \in 1..Len(diff.buffer)
      PROVE  /\ \E h \in hits' : Known(h, diff.buffer[i])
             /\ diff.buffer[i].at \in Int /\ timed.now - diff.buffer[i].at <= AttackTtl
  BY DEF BufferOk, Struck, Attempts
<1>2. CASE B = diff.buffer
  <2>1. \A j \in 1..Len(B) : \A h \in hits : Meant(h, B[j]) =>
          \E i \in 1..Len(diff.buffer) : Meant(h, diff.buffer[i])
    BY <1>2
  <2> QED
    BY <1>1, <1>2, <2>1 DEF Backed
<1>3. CASE Grown(B, diff.buffer, snap.events, Len(snap.events), snap.time)
  <2> DEFINE l == Len(diff.buffer)
  <2>1. /\ \A i \in 1..l : B[i] = diff.buffer[i]
        /\ l \in Nat /\ Len(B) \in Nat
    BY <1>3 DEF Grown, Listed, BufferOk, Bounded
  <2>2. ASSUME NEW j \in l + 1..Len(B)
        PROVE  /\ \E h \in hits' : Known(h, B[j])
               /\ B[j].at \in Int /\ timed.now - B[j].at <= AttackTtl
               /\ \A h \in hits : ~Meant(h, B[j])
    <3>1. PICK m \in 1..Len(snap.events) :
            /\ IsAttack(snap.events[m])
            /\ B[j] = [ev |-> snap.events[m], at |-> snap.time, used |-> FALSE]
      BY <1>3 DEF Grown
    <3>2. B[j].ev = snap.events[m] /\ B[j].at = snap.time
      BY <3>1
    <3>3. /\ snap.time = world'.clock /\ world.clock < world'.clock
          /\ \E g \in New : Reports(g, snap.events[m])
      BY <3>1 DEF Watched
    <3>4. PICK g \in New : Reports(g, snap.events[m])
      BY <3>3
    <3>5. g \in hits' /\ g.at = world'.clock
      BY <3>4 DEF Struck
    <3>6. Known(g, B[j])
      BY <3>2, <3>3, <3>4, <3>5 DEF Known
    <3>7. /\ timed.now \in Int /\ world.clock \in Int /\ timed.now <= world.clock
          /\ world'.clock \in Int /\ AttackTtl \in Nat
      BY CreditAssumption DEF BufferOk, HitsOk, Struck
    <3>8. B[j].at \in Int /\ timed.now - B[j].at <= AttackTtl /\ world.clock < B[j].at
      BY <3>2, <3>3, <3>7
    <3>9. \A h \in hits : h.at # B[j].at
      <4>1. \A h \in hits : h.at \in Int /\ h.at <= world.clock
        BY DEF HitsOk
      <4>2. ASSUME NEW h \in hits PROVE h.at # B[j].at
        <5>1. h.at \in Int /\ h.at <= world.clock
          BY <4>1
        <5> QED
          BY <3>7, <3>8, <5>1
      <4> QED
        BY <4>2
    <3> QED
      BY <3>5, <3>6, <3>8, <3>9 DEF Meant
  <2>3. ASSUME NEW j \in 1..Len(B)
        PROVE  /\ \E h \in hits' : Known(h, B[j])
               /\ B[j].at \in Int /\ timed.now - B[j].at <= AttackTtl
               /\ \A h \in hits : Meant(h, B[j]) =>
                    \E i \in 1..Len(diff.buffer) : Meant(h, diff.buffer[i])
    <3>1. CASE j \in 1..l
      <4>1. B[j] = diff.buffer[j]
        BY <2>1, <3>1
      <4> QED
        BY <1>1, <3>1, <4>1
    <3>2. CASE j \notin 1..l
      <4>1. j \in l + 1..Len(B)
        BY <2>1, <3>2
      <4> QED
        BY <2>2, <4>1
    <3> QED
      BY <3>1, <3>2
  <2> QED
    BY <2>3 DEF Backed
<1> QED
  BY <1>2, <1>3

\* Two of one name have a stable id each, so a name and an id that do not
\* contradict it tell who was hit.
LEMMA VictimTold ==
  ASSUME NEW p \in People, NEW q \in People, Name[p] = Name[q],
         Eos[p] = None \/ Eos[q] = None \/ Eos[p] = Eos[q]
  PROVE  p = q
<1> SUFFICES ASSUME p # q PROVE FALSE
  OBVIOUS
<1>1. Eos[p] # None /\ Eos[q] # None
  BY CreditAssumption
<1>2. OrElse(Eos[p], Name[p]) = OrElse(Eos[q], Name[q])
  BY <1>1 DEF OrElse
<1> QED
  BY <1>2, RosterAssumption

\* A row that names a killer is owed to an attack.
Deserved(i, a, h) ==
  /\ Known(h, a) /\ Name[h.by] = rows'[i].killer
  /\ SameVictim(rows'[i].victim, rows'[i].victimTeam, h.of)
  /\ rows'[i].victim = a.ev.victim

LEMMA RowDeserved ==
  ASSUME HitsOk', NEW B, Backed(B), NEW j \in 1..Len(B), NEW dead, Mourned(dead),
         NEW i \in 1..Len(rows'), Owes(rows'[i], B[j], dead[i])
  PROVE  \E h \in hits' : Deserved(i, B[j], h)
<1>1. PICK h \in hits' : Known(h, B[j])
  BY DEF Backed
<1>2. PICK q \in People :
        /\ dead[i].name = Name[q] /\ dead[i].team = Team[q] /\ dead[i].eos = Eos[q]
  BY DEF Mourned
<1>3. rows'[i].victim = Name[q] /\ rows'[i].victimTeam = Team[q]
  BY <1>2 DEF Mourned
<1>4. /\ Name[h.by] = B[j].ev.attacker /\ Name[h.of] = B[j].ev.victim
      /\ B[j].ev.victimEos = IF source = "log" THEN None ELSE Eos[h.of]
  BY <1>1 DEF Known, Reports
<1>5. /\ rows'[i].killer = B[j].ev.attacker /\ B[j].ev.victim = Name[q]
      /\ Eos[q] = None \/ B[j].ev.victimEos = None \/ Eos[q] = B[j].ev.victimEos
  BY <1>2 DEF Owes
<1>6. h.of \in People
  <2>1. <<h.by, h.of>> \in Attacks
    BY DEF HitsOk
  <2> QED
    BY <2>1, RosterAssumption
<1>7. SameVictim(rows'[i].victim, rows'[i].victimTeam, h.of)
  <2>1. CASE source = "log"
    BY <1>3, <1>4, <1>5, <2>1 DEF SameVictim
  <2>2. CASE source # "log"
    <3>1. Name[q] = Name[h.of] /\ (Eos[q] = None \/ Eos[h.of] = None \/ Eos[q] = Eos[h.of])
      BY <1>4, <1>5, <2>2
    <3>2. q = h.of
      BY <1>6, <3>1, VictimTold
    <3> QED
      BY <1>3, <3>2 DEF SameVictim
  <2> QED
    BY <2>1, <2>2
<1> QED
  BY <1>1, <1>3, <1>4, <1>5, <1>7 DEF Deserved

\* These entries are no longer in the buffer.
Consumed(B, U) ==
  \A m \in 1..Len(diff'.buffer) : \E k \in (1..Len(B)) \ U :
    diff'.buffer[m].ev = B[k].ev /\ diff'.buffer[m].at = B[k].at

\* As many attacks of the pair are settled as rows consumed one each.
LEMMA SettledGrows ==
  ASSUME HitsOk, HitsOk', hits \subseteq hits', source' = source, NEW B, Backed(B), Attempts(B),
         NEW U \in SUBSET (1..Len(B)), Consumed(B, U), NEW x \in Attacks,
         NEW C, NEW f,
         \A i \in C : f[i] \in U /\ \E h \in hits' : Known(h, B[f[i]]) /\ Aimed(h, x),
         \A i, k \in C : f[i] = f[k] => i = k
  PROVE  /\ Cardinality(Settled(x)) \in Nat /\ Cardinality(Settled(x)') \in Nat
         /\ Cardinality(C) \in Nat
         /\ Cardinality(Settled(x)) + Cardinality(C) <= Cardinality(Settled(x)')
<1> DEFINE S == Settled(x)
           T == Settled(x)'
           Hit(i) == CHOOSE h \in hits' : Known(h, B[f[i]]) /\ Aimed(h, x)
           g == [i \in C |-> Hit(i)]
<1>1. IsFiniteSet(S) /\ IsFiniteSet(T)
  <2>1. S \subseteq hits /\ T \subseteq hits'
    BY DEF Settled
  <2> QED
    BY <2>1, FS_Subset DEF HitsOk
<1>2. \A h \in S : h \in hits /\ Aimed(h, x) /\ \A i \in 1..Len(diff.buffer) : ~Meant(h, diff.buffer[i])
  BY DEF Settled
<1>3. \A h \in hits' : h \in T <=> /\ Aimed(h, x)
                                   /\ \A i \in 1..Len(diff'.buffer) : ~Meant(h, diff'.buffer[i])
  BY DEF Settled, Aimed, Meant, SameVictim
<1> HIDE DEF S, T
<1>4. \A h, j, k : Meant(h, B[j]) /\ Meant(h, B[k]) /\ j \in 1..Len(B) /\ k \in 1..Len(B) => j = k
  BY DEF Meant, Attempts, SameAttack
<1>5. S \subseteq T
  <2> SUFFICES ASSUME NEW h \in S PROVE h \in T
    OBVIOUS
  <2>1. h \in hits /\ h \in hits' /\ Aimed(h, x)
    BY <1>2
  <2>2. \A k \in 1..Len(B) : ~Meant(h, B[k])
    BY <1>2, <2>1 DEF Backed
  <2>3. \A m \in 1..Len(diff'.buffer) : ~Meant(h, diff'.buffer[m])
    BY <2>2 DEF Consumed, Meant
  <2> QED
    BY <1>3, <2>1, <2>3
<1>6. ASSUME NEW i \in C
      PROVE  /\ g[i] \in T \ S /\ Meant(g[i], B[f[i]]) /\ f[i] \in 1..Len(B)
  <2>1. g[i] \in hits' /\ Known(g[i], B[f[i]]) /\ Aimed(g[i], x) /\ f[i] \in U /\ f[i] \in 1..Len(B)
    OBVIOUS
  <2> HIDE DEF g
  <2>2. Meant(g[i], B[f[i]])
    BY <2>1 DEF Known, Reports, Meant
  <2>3. g[i] \notin S
    BY <1>2, <2>1, <2>2 DEF Backed
  <2>4. \A m \in 1..Len(diff'.buffer) : ~Meant(g[i], diff'.buffer[m])
    <3> SUFFICES ASSUME NEW m \in 1..Len(diff'.buffer), Meant(g[i], diff'.buffer[m])
                 PROVE  FALSE
      OBVIOUS
    <3>1. PICK k \in (1..Len(B)) \ U :
            diff'.buffer[m].ev = B[k].ev /\ diff'.buffer[m].at = B[k].at
      BY DEF Consumed
    <3>2. Meant(g[i], B[k])
      BY <3>1 DEF Meant
    <3>3. k = f[i]
      BY <1>4, <2>1, <2>2, <3>1, <3>2
    <3> QED
      BY <2>1, <3>1, <3>3
  <2>5. g[i] \in T
    BY <1>3, <2>1, <2>4
  <2> QED
    BY <2>1, <2>2, <2>3, <2>5
<1> HIDE DEF Hit
<1>7. g \in Injection(C, T \ S)
  <2>1. \A i, k \in C : g[i] = g[k] => i = k
    <3> SUFFICES ASSUME NEW i \in C, NEW k \in C, g[i] = g[k] PROVE i = k
      OBVIOUS
    <3>1. Meant(g[i], B[f[i]]) /\ Meant(g[i], B[f[k]]) /\ f[i] \in 1..Len(B) /\ f[k] \in 1..Len(B)
      BY <1>6
    <3>2. f[i] = f[k]
      BY <1>4, <3>1
    <3> QED
      BY <3>2
  <2>2. g \in [C -> T \ S]
    BY <1>6
  <2> HIDE DEF g
  <2> QED
    BY <2>1, <2>2 DEF Injection, IsInjective
<1> HIDE DEF g
<1>8. IsFiniteSet(T \ S) /\ Cardinality(T \ S) = Cardinality(T) - Cardinality(S)
  <2>1. IsFiniteSet(T \ S) /\ Cardinality(T \ S) = Cardinality(T) - Cardinality(T \cap S)
    BY <1>1, FS_Difference
  <2>2. T \cap S = S
    BY <1>5
  <2> QED
    BY <2>1, <2>2
<1>9. IsFiniteSet(C) /\ Cardinality(C) <= Cardinality(T \ S)
  BY <1>7, <1>8, FS_Injection
<1>10. Cardinality(S) \in Nat /\ Cardinality(T) \in Nat /\ Cardinality(C) \in Nat
  BY <1>1, <1>9, FS_CardinalityType
<1>11. Cardinality(S) + Cardinality(C) <= Cardinality(T)
  BY <1>8, <1>9, <1>10
<1> QED
  BY <1>10, <1>11 DEF S, T

\* With a snapshot as the agent saw it the accounts of the feed stay true.
LEMMA CreditStays ==
  ASSUME CreditOk, NEW snap, NEW New, Struck(New), Watched(snap, New), source' = source,
         DOMAIN diff = DOMAIN NewDiff,
         NEW dead, dead = Deaths(diff, snap.players), Mourned(dead),
         diff' = DiffSnapshot(diff, snap).d, rows' = DiffSnapshot(diff, snap).rows,
         diff'.inited
  PROVE  CreditOk'
<1>1. HitsOk /\ BufferOk /\ HitsOk' /\ hits \subseteq hits'
  BY HitsStay DEF CreditOk, Struck
<1>2. /\ timed.now \in Int /\ world.clock \in Int /\ timed.now <= world.clock
      /\ world'.clock \in Int /\ world.clock <= world'.clock /\ AttackTtl \in Nat
  BY <1>1, CreditAssumption DEF HitsOk, BufferOk, Struck
<1>3. timed'.before = timed.now /\ timed'.now \in Int /\ timed'.now <= world'.clock
  BY <1>2 DEF Watched
<1>4. Reported(snap, diff.buffer)
  <2>1. ASSUME NEW i \in 1..Len(diff.buffer)
        PROVE  diff.buffer[i].at <= world.clock /\ diff.buffer[i].at \in Int
    <3>1. PICK h \in hits : Known(h, diff.buffer[i])
      BY <1>1 DEF BufferOk
    <3>2. h.at = diff.buffer[i].at
      BY <3>1 DEF Known
    <3> QED
      BY <1>1, <3>2 DEF HitsOk
  <2>2. ASSUME NEW m \in 1..Len(snap.events), IsAttack(snap.events[m])
        PROVE  snap.time \in Int /\ \A i \in 1..Len(diff.buffer) : diff.buffer[i].at # snap.time
    <3>1. snap.time = world'.clock /\ world.clock < world'.clock
      BY <2>2 DEF Watched
    <3>2. snap.time \in Int /\ world.clock < snap.time
      BY <1>2, <3>1
    <3> QED
      BY <1>2, <2>1, <3>2
  <2> QED
    BY <2>2 DEF Reported, Watched
<1>5. /\ Passed(DiffSnapshot(diff, snap), diff, snap, dead)
      /\ Bounded(DiffSnapshot(diff, snap).d)
  <2>1. Attempts(diff.buffer) /\ Bounded(diff) /\ Len(dead) \in Nat
    BY <1>1 DEF BufferOk, Mourned
  <2> QED
    BY <1>4, <2>1, PassIs
<1>6. Bounded(diff')
  BY <1>5
<1>7. PICK B, U : PassedBy(B, U, DiffSnapshot(diff, snap), diff, snap, dead)
  BY <1>5 DEF Passed
<1>8. /\ B = diff.buffer \/ Grown(B, diff.buffer, snap.events, Len(snap.events), snap.time)
      /\ Attempts(B) /\ U \in SUBSET (1..Len(B))
      /\ Paid(rows', Len(rows'), U, B, dead)
      /\ Attempts(diff'.buffer)
      /\ \A m \in 1..Len(diff'.buffer) : \E k \in (1..Len(B)) \ U :
           /\ diff'.buffer[m].ev = B[k].ev /\ diff'.buffer[m].at = B[k].at
           /\ \/ ~diff.inited \/ InTransition(snap, dead)
              \/ snap.time = None \/ snap.time - B[k].at <= AttackTtl
  BY <1>7 DEF PassedBy
<1>9. Backed(B)
  BY <1>1, <1>8, BufferBacked
<1>10. ASSUME NEW m \in 1..Len(diff'.buffer)
       PROVE  /\ \E h \in hits' : Known(h, diff'.buffer[m])
              /\ timed'.now - diff'.buffer[m].at <= AttackTtl
  <2>1. PICK k \in (1..Len(B)) \ U :
          /\ diff'.buffer[m].ev = B[k].ev /\ diff'.buffer[m].at = B[k].at
          /\ \/ ~diff.inited \/ InTransition(snap, dead)
             \/ snap.time = None \/ snap.time - B[k].at <= AttackTtl
    BY <1>8
  <2>2. PICK h \in hits' : Known(h, B[k])
    BY <1>9 DEF Backed
  <2>3. Known(h, diff'.buffer[m])
    BY <2>1, <2>2 DEF Known
  <2>4. B[k].at \in Int /\ timed.now - B[k].at <= AttackTtl
    BY <1>9 DEF Backed
  <2>5. CASE timed'.now = timed.now
    BY <2>1, <2>3, <2>4, <2>5
  <2>6. CASE timed'.now # timed.now
    <3>1. /\ timed'.now = snap.time /\ snap.time \in Int
          /\ ~diff.inited \/ ~InTransition(snap, dead)
      BY <1>2, <2>6 DEF Watched
    <3>2. diff.inited
      <4> SUFFICES ASSUME ~diff.inited PROVE FALSE
        OBVIOUS
      <4>1. Len(snap.events) = 0 /\ Len(diff.buffer) = 0
        BY <1>1 DEF Watched, BufferOk
      <4>2. k \in 1..Len(B) /\ Len(B) \in Nat
        BY <1>8 DEF Attempts, Listed
      <4>3. B # diff.buffer
        BY <4>1, <4>2
      <4>4. k \in Len(diff.buffer) + 1..Len(B)
        BY <4>1, <4>2
      <4>5. \E n \in 1..Len(snap.events) : IsAttack(snap.events[n])
        BY <1>8, <4>3, <4>4 DEF Grown
      <4> QED
        BY <4>1, <4>5
    <3>3. snap.time # None
      BY <3>1, ReplayAssumption
    <3> QED
      BY <2>1, <2>3, <3>1, <3>2, <3>3
  <2> QED
    BY <2>5, <2>6
<1>11. BufferOk'
  <2>1. source' = source
    OBVIOUS
  <2>2. ASSUME NEW i \in 1..Len(diff'.buffer)
        PROVE  \E h \in hits' :
                 /\ Name[h.by] = diff'.buffer[i].ev.attacker
                 /\ Name[h.of] = diff'.buffer[i].ev.victim
                 /\ diff'.buffer[i].ev.victimEos = IF source' = "log" THEN None ELSE Eos[h.of]
                 /\ h.at = diff'.buffer[i].at
    BY <1>10, <2>1 DEF Known, Reports
  <2>3. /\ timed'.now \in Int /\ timed'.now <= world'.clock
        /\ Attempts(diff'.buffer) /\ Bounded(diff') /\ diff'.inited
        /\ \A i \in 1..Len(diff'.buffer) : timed'.now - diff'.buffer[i].at <= AttackTtl
    BY <1>3, <1>6, <1>8, <1>10
  <2> QED
    BY <2>2, <2>3 DEF BufferOk, Known, Reports
<1>12. PICK f : \A i \in 1..Len(rows') : rows'[i].killer # None =>
         /\ f[i] \in U /\ Owes(rows'[i], B[f[i]], dead[i])
         /\ \A k \in 1..Len(rows') : rows'[k].killer # None /\ f[k] = f[i] => k = i
  BY <1>8 DEF Paid
<1>13. ASSUME NEW i \in 1..Len(rows'), rows'[i].killer # None
       PROVE  f[i] \in 1..Len(B) /\ \E h \in hits' : Deserved(i, B[f[i]], h)
  <2>1. f[i] \in 1..Len(B) /\ Owes(rows'[i], B[f[i]], dead[i])
    BY <1>8, <1>12, <1>13
  <2> QED
    BY <1>1, <1>9, <2>1, RowDeserved
<1>14. KillerDidHit'
  <2> SUFFICES ASSUME NEW i \in 1..Len(rows'), rows'[i].killer # None
               PROVE  \E h \in hits' :
                        /\ Name[h.by] = rows'[i].killer
                        /\ SameVictim(rows'[i].victim, rows'[i].victimTeam, h.of)
                        /\ timed'.before - h.at <= AttackTtl
    BY DEF KillerDidHit, SameVictim
  <2>1. PICK h \in hits' : Deserved(i, B[f[i]], h)
    BY <1>13
  <2>2. /\ Known(h, B[f[i]]) /\ Name[h.by] = rows'[i].killer
        /\ SameVictim(rows'[i].victim, rows'[i].victimTeam, h.of)
    BY <2>1 DEF Deserved
  <2>3. h.at = B[f[i]].at /\ timed.now - B[f[i]].at <= AttackTtl
    BY <1>9, <1>13, <2>2 DEF Known, Backed
  <2> QED
    BY <1>3, <2>2, <2>3
<1>15. Consumed(B, U)
  BY <1>8 DEF Consumed
<1>16. ASSUME NEW x \in Attacks
       PROVE  credited'[x] \in Nat /\ credited'[x] <= Cardinality(Settled(x)')
  <2> DEFINE C == CreditsTo(x)
             s == Cardinality(Settled(x))
             t == Cardinality(Settled(x)')
             c == Cardinality(C)
  <2>1. credited'[x] = credited[x] + c /\ credited[x] \in Nat /\ credited[x] <= s
    BY DEF Mourned, CreditOk
  <2>2. ASSUME NEW i \in C
        PROVE  /\ i \in 1..Len(rows') /\ rows'[i].killer # None
               /\ rows'[i].killer = Name[x[1]]
               /\ SameVictim(rows'[i].victim, rows'[i].victimTeam, x[2])
    BY CreditAssumption DEF CreditsTo
  <2>3. ASSUME NEW i \in C
        PROVE  f[i] \in U /\ \E h \in hits' : Known(h, B[f[i]]) /\ Aimed(h, x)
    <3>1. PICK h \in hits' : Deserved(i, B[f[i]], h)
      BY <1>13, <2>2
    <3>2. /\ Known(h, B[f[i]]) /\ Name[h.by] = Name[x[1]]
          /\ SameVictim(rows'[i].victim, rows'[i].victimTeam, h.of)
          /\ SameVictim(rows'[i].victim, rows'[i].victimTeam, x[2])
      BY <2>2, <3>1 DEF Deserved
    <3>3. Aimed(h, x)
      BY <3>2 DEF Aimed, SameVictim
    <3> QED
      BY <1>12, <2>2, <3>2, <3>3
  <2>4. \A i, k \in C : f[i] = f[k] => i = k
    BY <1>12, <2>2
  <2> HIDE DEF C
  <2>5. s \in Nat /\ t \in Nat /\ c \in Nat /\ s + c <= t
    BY <1>1, <1>8, <1>9, <1>15, <2>3, <2>4, SettledGrows
  <2> HIDE DEF s, t, c
  <2>6. credited[x] + c \in Nat /\ credited[x] + c <= t
    BY <2>1, <2>5
  <2> QED
    BY <2>1, <2>6 DEF t
<1> QED
  BY <1>1, <1>11, <1>14, <1>16 DEF CreditOk

\* The event tells of this attack.
Tells(ev, x) ==
  /\ ev.attacker = Name[x[1]] /\ ev.victim = Name[x[2]]
  /\ ev.victimEos = IF source = "log" THEN None ELSE Eos[x[2]]

\* What happens is reported, and every attack that is reported has happened.
Reporting(w, h) ==
  /\ h.w.clock \in Int /\ w.clock <= h.w.clock
  /\ IsFiniteSet(h.hit) /\ h.hit \subseteq Attacks
  /\ Len(h.events) \in Nat /\ Apart(h.events)
  /\ Len(h.events) # 0 => h.fault = "none"
  /\ \A m \in 1..Len(h.events) : IsAttack(h.events[m]) =>
       \E x \in h.hit : Tells(h.events[m], x)

LEMMA EventTells ==
  ASSUME NEW att, NEW vic, NEW kind, NEW w
  PROVE  LET ev == Event(att, vic, kind, w)
         IN  /\ ev.victim = Name[vic]
             /\ ev.victimEos = IF source = "log" THEN None ELSE Eos[vic]
             /\ IsAttack(ev) => ev.attacker = att /\ att # None /\ att # Name[vic]
<1> DEFINE ev == Event(att, vic, kind, w)
           self == att = Name[vic]
           common == [victim |-> Name[vic], ts |-> w.full, self |-> self,
                      killed |-> kind = "killed", wounded |-> kind = "wounded",
                      cause |-> IF att = None THEN "fall" ELSE None]
           own == IF source = "log"
                  THEN [attacker |-> IF self THEN None ELSE att, victimEos |-> None,
                        weapon |-> IF att = None THEN None ELSE "rifle", causer |-> None]
                  ELSE [attacker |-> att, victimEos |-> Eos[vic],
                        weapon |-> IF kind = "killed" THEN "rifle" ELSE None,
                        causer |-> "soldier"]
<1>1. ev = Overlay(own, common)
  BY DEF Event
<1>2. /\ DOMAIN own = {"attacker", "victimEos", "weapon", "causer"}
      /\ own.victimEos = IF source = "log" THEN None ELSE Eos[vic]
      /\ own.attacker = IF source = "log" /\ self THEN None ELSE att
  OBVIOUS
<1>3. "victim" \in DOMAIN common /\ common.victim = Name[vic]
  OBVIOUS
<1> HIDE DEF own, common, ev
<1>4. /\ ev.victim = common.victim /\ ev.victimEos = own.victimEos
      /\ ev.attacker = own.attacker
  BY <1>1, <1>2, <1>3 DEF Overlay
<1>5. ev.victim = Name[vic] /\ ev.victimEos = IF source = "log" THEN None ELSE Eos[vic]
  BY <1>2, <1>3, <1>4
<1>6. IsAttack(ev) => ev.attacker = att /\ att # None /\ att # Name[vic]
  BY <1>2, <1>3, <1>4 DEF IsAttack
<1> QED
  BY <1>5, <1>6 DEF ev

LEMMA HappeningsReport ==
  ASSUME NEW w, WorldOk(w), w.clock \in Int, NEW h \in Happenings(w)
  PROVE  Reporting(w, h)
<1>1. AttackTtl \in Nat /\ "clock" \in DOMAIN w
  BY CreditAssumption DEF WorldOk, World0
<1>2. ASSUME NEW v, v.clock = w.clock \/ v.clock = w.clock + AttackTtl,
             NEW fault, NEW dead, h = Happening(v, << >>, fault, dead, {})
      PROVE  Reporting(w, h)
  <2>1. h.w = v /\ h.events = << >> /\ h.hit = {}
    BY <1>2 DEF Happening
  <2>2. v.clock \in Int /\ w.clock <= v.clock
    BY <1>1, <1>2
  <2> QED
    BY <2>1, <2>2, FS_EmptySet DEF Reporting, Apart
<1>3. ASSUME NEW v, v.clock = w.clock, NEW ev, NEW dead, NEW hit \in SUBSET Attacks,
             IsFiniteSet(hit), IsAttack(ev) => \E x \in hit : Tells(ev, x),
             h = Happening(v, <<ev>>, "none", dead, hit)
      PROVE  Reporting(w, h)
  <2>1. h.w = v /\ h.events = <<ev>> /\ h.hit = hit /\ h.fault = "none"
    BY <1>3 DEF Happening
  <2>2. v.clock \in Int /\ w.clock <= v.clock
    BY <1>3
  <2>3. Len(h.events) = 1 /\ h.events[1] = ev
    BY <2>1
  <2>4. \A m \in 1..Len(h.events) : m = 1
    BY <2>3
  <2> QED
    BY <1>3, <2>1, <2>2, <2>3, <2>4 DEF Reporting, Apart
<1>4. \A V : Kill(w, V).clock = w.clock /\ "clock" \in DOMAIN Kill(w, V)
  BY <1>1 DEF Kill
<1>5. ASSUME NEW x \in Attacks, NEW kind PROVE
        LET ev == Event(Name[x[1]], x[2], kind, w)
        IN  IsAttack(ev) => Tells(ev, x)
  BY EventTells DEF Tells
<1>6. CASE h \in Quiet(w)
  <2> DEFINE Is(v) == v.clock = w.clock \/ v.clock = w.clock + AttackTtl
             gone == [w EXCEPT !.here = IF Leaver \in @ THEN @ \ {Leaver} ELSE @ \cup {Leaver},
                               !.cond[Leaver] = "up"]
             phase == [w EXCEPT !.phase = IF @ = "Post" THEN "InProgress" ELSE "Post"]
             mounted == [w EXCEPT !.mounted = ~@ /\ w.car = "runs"]
             less == [w EXCEPT !.tickets[Drained] = @ - 1]
             more == [w EXCEPT !.tickets[Drained] = @ + 2]
  <2>1. /\ Is(w) /\ Is([w EXCEPT !.clock = @ + AttackTtl]) /\ Is([w EXCEPT !.squad = ~@])
        /\ Is(gone) /\ Is(phase) /\ Is(mounted) /\ Is(less) /\ Is(more)
    BY <1>1
  <2>2. \/ h = Plain(w) \/ h = Plain([w EXCEPT !.clock = @ + AttackTtl])
        \/ h = Plain([w EXCEPT !.squad = ~@]) \/ h = Plain(mounted) \/ h = Plain(phase)
        \/ h = Plain(less) \/ h = Plain(more) \/ h = Plain(gone)
        \/ h = Happening(w, << >>, "blind", {}, {}) \/ h = Happening(less, << >>, "unread", {}, {})
    BY <1>6 DEF Quiet
  <2> HIDE DEF gone, phase, mounted, less, more
  <2>3. \E v, fault : Is(v) /\ h = Happening(v, << >>, fault, {}, {})
    <3>1. \A v : Plain(v) = Happening(v, << >>, "none", {}, {})
      BY DEF Plain
    <3> HIDE DEF Is
    <3> QED
      BY <2>1, <2>2, <3>1
  <2>4. PICK v, fault : Is(v) /\ h = Happening(v, << >>, fault, {}, {})
    BY <2>3
  <2> QED
    BY <1>2, <2>4
<1>7. CASE h \in Fights(w)
  <2>1. CASE \E x \in Attacks : h = Happening([w EXCEPT !.cond[x[2]] = "down"],
               <<Event(Name[x[1]], x[2], "wounded", w)>>, "none", {}, {x})
    <3>1. PICK x \in Attacks : h = Happening([w EXCEPT !.cond[x[2]] = "down"],
               <<Event(Name[x[1]], x[2], "wounded", w)>>, "none", {}, {x})
      BY <2>1
    <3> DEFINE v == [w EXCEPT !.cond[x[2]] = "down"]
               ev == Event(Name[x[1]], x[2], "wounded", w)
               hit == {x}
               none == {}
    <3>2. v.clock = w.clock /\ IsFiniteSet(hit) /\ hit \in SUBSET Attacks
      BY <1>1, FS_Singleton
    <3>3. IsAttack(ev) => \E y \in hit : Tells(ev, y)
      BY <1>5
    <3>4. h = Happening(v, <<ev>>, "none", none, hit)
      BY <3>1
    <3> HIDE DEF v, ev, hit, none
    <3> QED
      BY <1>3, <3>2, <3>3, <3>4
  <2>2. CASE \E x \in Attacks : /\ x[2] \in w.here
              /\ h = Happening(Kill(w, {x[2]}), <<Event(Name[x[1]], x[2], "killed", w)>>,
                               "none", {x[2]}, {x})
    <3>1. PICK x \in Attacks :
            h = Happening(Kill(w, {x[2]}), <<Event(Name[x[1]], x[2], "killed", w)>>,
                          "none", {x[2]}, {x})
      BY <2>2
    <3> DEFINE dead == {x[2]}
               v == Kill(w, dead)
               ev == Event(Name[x[1]], x[2], "killed", w)
               hit == {x}
    <3>2. v.clock = w.clock /\ IsFiniteSet(hit) /\ hit \in SUBSET Attacks
      BY <1>4, FS_Singleton
    <3>3. IsAttack(ev) => \E y \in hit : Tells(ev, y)
      BY <1>5
    <3>4. h = Happening(v, <<ev>>, "none", dead, hit)
      BY <3>1
    <3> HIDE DEF v, ev, hit, dead
    <3> QED
      BY <1>3, <3>2, <3>3, <3>4
  <2>3. CASE \E x, y \in Attacks : /\ x # y /\ x[2] = y[2] /\ x[2] \in w.here
              /\ h = Happening(Kill(w, {x[2]}), <<Event(Name[x[1]], x[2], "wounded", w),
                                                 Event(Name[y[1]], x[2], "killed", w)>>,
                               "none", {x[2]}, {x, y})
    <3>1. PICK x, y : /\ x \in Attacks /\ y \in Attacks /\ x # y /\ x[2] = y[2]
              /\ h = Happening(Kill(w, {x[2]}), <<Event(Name[x[1]], x[2], "wounded", w),
                                                 Event(Name[y[1]], x[2], "killed", w)>>,
                               "none", {x[2]}, {x, y})
      BY <2>3
    <3> DEFINE dead == {x[2]}
               v == Kill(w, dead)
               ev1 == Event(Name[x[1]], x[2], "wounded", w)
               ev2 == Event(Name[y[1]], y[2], "killed", w)
               hit == {x, y}
    <3>2. v.clock = w.clock /\ IsFiniteSet(hit) /\ hit \in SUBSET Attacks
      <4>1. hit = {x} \cup {y} /\ hit \in SUBSET Attacks
        BY <3>1
      <4>2. IsFiniteSet({x} \cup {y})
        BY FS_Singleton, FS_Union
      <4> QED
        BY <1>4, <4>1, <4>2
    <3>3. (IsAttack(ev1) => Tells(ev1, x)) /\ (IsAttack(ev2) => Tells(ev2, y))
      BY <1>5, <3>1
    <3>4. Name[x[1]] # Name[y[1]]
      BY <3>1, CreditAssumption
    <3>5. IsAttack(ev1) /\ IsAttack(ev2) => ev1.attacker # ev2.attacker
      BY <3>3, <3>4 DEF Tells
    <3>6. h = Happening(v, <<ev1, ev2>>, "none", dead, hit)
      BY <3>1
    <3>7. x \in hit /\ y \in hit
      OBVIOUS
    <3> HIDE DEF v, ev1, ev2, hit, dead
    <3>8. h.w = v /\ h.events = <<ev1, ev2>> /\ h.hit = hit /\ h.fault = "none"
      BY <3>6 DEF Happening
    <3>9. /\ Len(h.events) = 2 /\ h.events[1] = ev1 /\ h.events[2] = ev2
          /\ \A m \in 1..Len(h.events) : m = 1 \/ m = 2
      BY <3>8
    <3>10. v.clock \in Int /\ w.clock <= v.clock
      BY <3>2
    <3>11. Apart(h.events)
      BY <3>5, <3>9 DEF Apart
    <3>12. \A m \in 1..Len(h.events) : IsAttack(h.events[m]) =>
            \E z \in hit : Tells(h.events[m], z)
      BY <3>3, <3>7, <3>9
    <3> QED
      BY <3>2, <3>8, <3>9, <3>10, <3>11, <3>12 DEF Reporting
  <2> QED
    BY <1>7, <2>1, <2>2, <2>3, FightsAre
<1>8. CASE h \in Fates(w)
  <2>1. CASE \/ \E p \in w.here : h = Happening(Kill(w, {p}), << >>, "none", {p}, {})
             \/ h = Happening(Kill(w, w.here \ {Gunner}), << >>, "none", w.here \ {Gunner}, {})
    <3>1. PICK V : h = Happening(Kill(w, V), << >>, "none", V, {})
      BY <2>1
    <3> DEFINE v == Kill(w, V)
               fault == "none"
    <3>2. v.clock = w.clock /\ h = Happening(v, << >>, fault, V, {})
      BY <1>4, <3>1
    <3> HIDE DEF v, fault
    <3> QED
      BY <1>2, <3>2
  <2>2. CASE \E p \in w.here : \E att \in {None, Name[p]} :
              h = Happening(Kill(w, {p}), <<Event(att, p, "killed", w)>>, "none", {p}, {})
    <3>1. PICK p \in w.here : \E att \in {None, Name[p]} :
              h = Happening(Kill(w, {p}), <<Event(att, p, "killed", w)>>, "none", {p}, {})
      BY <2>2
    <3>2. PICK att \in {None, Name[p]} :
              h = Happening(Kill(w, {p}), <<Event(att, p, "killed", w)>>, "none", {p}, {})
      BY <3>1
    <3> DEFINE dead == {p}
               v == Kill(w, dead)
               ev == Event(att, p, "killed", w)
               hit == {}
    <3>3. v.clock = w.clock /\ hit \in SUBSET Attacks /\ IsFiniteSet(hit)
      BY <1>4, FS_EmptySet
    <3>4. ~IsAttack(ev)
      BY EventTells
    <3>5. h = Happening(v, <<ev>>, "none", dead, hit)
      BY <3>2
    <3> HIDE DEF v, ev, dead, hit
    <3> QED
      BY <1>3, <3>3, <3>4, <3>5
  <2>3. CASE \E p : h = Plain([w EXCEPT !.cond[p] = "up"])
    <3>1. PICK p : h = Plain([w EXCEPT !.cond[p] = "up"])
      BY <2>3
    <3> DEFINE v == [w EXCEPT !.cond[p] = "up"]
               fault == "none"
               dead == {}
    <3>2. v.clock = w.clock
      BY <1>1
    <3>3. h = Happening(v, << >>, fault, dead, {})
      BY <3>1 DEF Plain
    <3> HIDE DEF v, fault, dead
    <3> QED
      BY <1>2, <3>2, <3>3
  <2> QED
    BY <1>8, <2>1, <2>2, <2>3, FatesAre
<1>9. CASE h \in CarHappens(w)
  <2> DEFINE crew == IF w.mounted THEN {Gunner} ELSE {}
             k == Kill(w, crew)
             shot == [k EXCEPT !.car = "wreck", !.mounted = FALSE,
                               !.tickets[CarTeam] = @ - CarPrice]
             gone == [w EXCEPT !.car = "gone"]
             back == [w EXCEPT !.car = "runs"]
  <2>1. k.clock = w.clock /\ "clock" \in DOMAIN k
    BY <1>4
  <2>2. gone.clock = w.clock /\ back.clock = w.clock
    BY <1>1
  <2>3. \/ h = Happening(shot, << >>, "none", crew, {})
        \/ h = Plain(gone) \/ h = Plain(back)
    BY <1>9 DEF CarHappens
  <2> HIDE DEF k, crew, gone, back
  <2>4. shot.clock = w.clock
    BY <2>1
  <2> HIDE DEF shot
  <2>5. PICK v, dead : v.clock = w.clock /\ h = Happening(v, << >>, "none", dead, {})
    BY <2>2, <2>3, <2>4 DEF Plain
  <2> QED
    BY <1>2, <2>5
<1> QED
  BY <1>6, <1>7, <1>8, <1>9 DEF Happenings

-----------------------------------------------------------------------------
(* The credits, line by line *)

\* Who died is a player of the frame.
LEMMA DeathsArePlayers ==
  ASSUME NEW v, WorldOk(v), NEW d, NEW players, Roll(players, v), NEW dead,
         dead = Deaths(d, players)
  PROVE  /\ Len(dead) \in Nat
         /\ \A i \in 1..Len(dead) : \E q \in People :
              dead[i].name = Name[q] /\ dead[i].team = Team[q] /\ dead[i].eos = Eos[q]
<1> DEFINE n == Len(players)
           D == {i \in 1..n : /\ players[i].name # None /\ IdOf(players[i]) \in DOMAIN d.prev
                              /\ players[i].deaths > d.prev[IdOf(players[i])]}
           c == Cardinality(D)
           who == Present(v)
<1>1. dead = [m \in 1..c |-> players[NthOf(D, m)]]
  BY DEF Deaths, AtPlaces
<1>2. D \in SUBSET (1..n)
  OBVIOUS
<1>3. n \in Nat /\ InOrder(who, n, v.here) /\ v.here \subseteq People
  BY PresentAre DEF Roll, WorldOk
<1>4. \A i \in 1..n : /\ players[i].name = Name[who[i]] /\ players[i].team = Team[who[i]]
                      /\ players[i].eos = Eos[who[i]] /\ who[i] \in People
  BY <1>3 DEF Roll, Shows, InOrder
<1> HIDE DEF n, D, who
<1>5. c \in Nat /\ \A m \in 1..c : NthOf(D, m) \in 1..n
  BY <1>2, <1>3, RanksAre, NthOfIs
<1> HIDE DEF c
<1>6. Len(dead) = c
  BY <1>1, <1>5
<1> QED
  BY <1>1, <1>4, <1>5, <1>6, SMTT(30)

LEMMA SnapshotMourned ==
  ASSUME NEW v, WorldOk(v), NEW snap, Roll(snap.players, v), Len(snap.events) \in Nat,
         DOMAIN diff = DOMAIN NewDiff, rows' = DiffSnapshot(diff, snap).rows,
         credited' = [x \in Attacks |-> credited[x] + Cardinality(CreditsTo(x))],
         NEW dead, dead = Deaths(diff, snap.players)
  PROVE  Mourned(dead)
<1>1. /\ Len(dead) \in Nat
      /\ \A i \in 1..Len(dead) : \E q \in People :
           dead[i].name = Name[q] /\ dead[i].team = Team[q] /\ dead[i].eos = Eos[q]
  BY DeathsArePlayers
<1>2. Diffed(DiffSnapshot(diff, snap), diff, snap, dead)
  BY <1>1, DiffIs
<1>3. /\ Len(rows') = 0 \/ Len(rows') = Len(dead)
      /\ \A i \in 1..Len(rows') :
           rows'[i].victim = dead[i].name /\ rows'[i].victimTeam = dead[i].team
  BY <1>2 DEF Diffed
<1>4. Len(rows') \in Nat /\ \A i \in 1..Len(rows') : i \in 1..Len(dead)
  BY <1>1, <1>3
<1> QED
  BY <1>1, <1>3, <1>4 DEF Mourned

LEMMA SampleTimed ==
  ASSUME NEW w, NEW events, NEW fault
  PROVE  LET f == Sample(w, events, fault)
         IN  /\ "time" \in DOMAIN f /\ f.time = IF fault = "blind" THEN None ELSE w.clock
             /\ f.events = events
             /\ f.phase = IF fault = "blind" THEN None ELSE w.phase
<1> DEFINE f == Sample(w, events, fault)
           s == IF w.squad THEN [markers |-> 1] ELSE << >>
           players == [i \in 1..Cardinality(w.here) |-> Player(w, Present(w)[i])]
           vehicles == IF w.car = "gone" THEN << >> ELSE <<Vehicle(w)>>
           phase == IF fault = "blind" THEN None ELSE w.phase
           time == IF fault = "blind" THEN None ELSE w.clock
           teams == [t \in TicketTeams |->
                       [deaths |-> TeamDeaths(w, t),
                        tickets |-> IF fault = "unread" /\ t = Drained THEN None
                                    ELSE w.tickets[t]]]
           r == [tick |-> TickOf(w), players |-> players, vehicles |-> vehicles,
                 events |-> events, phase |-> phase, time |-> time, teams |-> teams]
<1>1. f = Overlay(s, r)
  BY DEF Sample
<1>2. DOMAIN s \subseteq {"markers"}
  OBVIOUS
<1> HIDE DEF players, vehicles, phase, time, teams
<1>3. /\ {"time", "events", "phase"} \subseteq DOMAIN r
      /\ r.time = time /\ r.events = events /\ r.phase = phase
  OBVIOUS
<1> HIDE DEF f, r, s
<1>4. DOMAIN f = DOMAIN s \cup DOMAIN r /\ \A x \in DOMAIN r \ DOMAIN s : f[x] = r[x]
  BY <1>1 DEF Overlay
<1>5. "time" \in DOMAIN f /\ f.time = time /\ f.events = events /\ f.phase = phase
  BY <1>2, <1>3, <1>4
<1> QED
  BY <1>5 DEF f, time, phase

\* The last full frame has the time of the match, or none.
FrameTimed ==
  world.full # 0 =>
    /\ "time" \in DOMAIN enc.prev /\ enc.prev.time \in {None, world.clock}
    /\ enc.prev.time # None => enc.prev.phase = world.phase

LEMMA FullLineCredits ==
  LoadInv /\ FeedOk /\ CreditOk /\ FullLine => CreditOk' /\ FrameTimed'
<1> SUFFICES ASSUME LoadInv, FeedOk, CreditOk, FullLine PROVE CreditOk' /\ FrameTimed'
  OBVIOUS
<1>1. PICK h : Sampled(h)
  BY FullLineSamples
<1>2. FullTold(h)
  BY <1>1, FullLineTold
<1> DEFINE w0 == Respawned(world)
           snap == seen'
           New == {[by |-> x[1], of |-> x[2], at |-> h.w.clock,
                    life |-> world.deaths[x[2]]] : x \in h.hit}
<1>3. /\ world' = h.w /\ seen' = Sample(h.w, h.events, h.fault) /\ Len(h.events) \in Nat
      /\ enc' = EncodeFull(enc, seen').e /\ History(h, world.here) /\ Drawn(h)
      /\ source' = source
  BY <1>1 DEF Sampled, FullLine
<1>4. /\ world.clock \in Int /\ HitsOk /\ BufferOk /\ WorldOk(world) /\ WorldOk(w0)
      /\ WorldOk(world') /\ DOMAIN diff = DOMAIN NewDiff
  <2>1. WorldOk(world) /\ WorldOk(world')
    BY <1>2 DEF FullTold
  <2> QED
    BY <2>1, RespawnedKeeps DEF CreditOk, HitsOk, FeedOk
<1>5. w0.clock = world.clock + 1
  BY <1>4 DEF Respawned, WorldOk, World0
<1> HIDE DEF w0
<1>6. Reporting(w0, h) /\ (world.full = 0 => h.events = << >> /\ h.hit = {})
  <2>1. w0.clock \in Int
    BY <1>4, <1>5
  <2>2. CASE world.full = 0
    <3>1. h = Plain(w0)
      BY <1>3, <2>2 DEF Drawn, w0
    <3>2. h.w = w0 /\ h.events = << >> /\ h.hit = {}
      BY <3>1 DEF Plain, Happening
    <3>3. Len(h.events) = 0 /\ w0.clock <= h.w.clock /\ h.w.clock \in Int
      BY <2>1, <3>2
    <3>4. IsFiniteSet(h.hit) /\ h.hit \subseteq Attacks
      BY <3>2, FS_EmptySet
    <3>5. Apart(h.events) /\ \A m \in 1..Len(h.events) : FALSE
      BY <3>3 DEF Apart
    <3> QED
      BY <3>2, <3>3, <3>4, <3>5 DEF Reporting
  <2>3. CASE world.full # 0
    <3>1. h \in Happenings(w0)
      BY <1>3, <2>3 DEF Drawn, w0
    <3> QED
      BY <1>4, <2>1, <2>3, <3>1, HappeningsReport
  <2> QED
    BY <2>2, <2>3
<1>7. world'.clock = h.w.clock /\ world'.clock \in Int /\ world.clock < world'.clock
  BY <1>3, <1>4, <1>5, <1>6 DEF Reporting
<1>8. /\ "time" \in DOMAIN snap /\ snap.events = h.events
      /\ snap.time = IF h.fault = "blind" THEN None ELSE world'.clock
      /\ snap.phase = IF h.fault = "blind" THEN None ELSE world'.phase
  BY <1>3, SampleTimed
<1>9. /\ hits' = hits \cup New /\ timed'.before = timed.now
      /\ timed'.now = IF snap = NoFrame \/ snap.time = None \/ Broken(h)
                      THEN timed.now ELSE snap.time
      /\ credited' = [x \in Attacks |-> credited[x] + Cardinality(CreditsTo(x))]
  BY <1>3 DEF History
<1>10. /\ Roll(snap.players, world') /\ Told(snap, world', WithName(h.dead))
       /\ diff' = DiffSnapshot(diff, snap).d /\ rows' = DiffSnapshot(diff, snap).rows
       /\ diff.inited /\ h.fault # "blind"
            => (InTransition(snap, Deaths(diff, snap.players)) <=> Broken(h))
  BY <1>2 DEF FullTold
<1>11. enc'.prev = snap
  BY <1>3 DEF EncodeFull
<1> HIDE DEF snap
<1>12. FrameTimed'
  BY <1>7, <1>8, <1>11 DEF FrameTimed
<1>13. Struck(New)
  <2> DEFINE Hit(x) == [by |-> x[1], of |-> x[2], at |-> h.w.clock, life |-> world.deaths[x[2]]]
             mark == [x \in h.hit |-> Hit(x)]
  <2>1. IsFiniteSet(h.hit) /\ h.hit \subseteq Attacks
    BY <1>6 DEF Reporting
  <2>2. mark \in Surjection(h.hit, New)
    BY DEF Surjection
  <2>3. IsFiniteSet(New)
    <3> HIDE DEF mark, New
    <3> QED
      BY <2>1, <2>2, FS_Surjection
  <2>4. ASSUME NEW g \in New
        PROVE  <<g.by, g.of>> \in Attacks /\ g.at = world'.clock /\ world.clock < world'.clock
    <3>1. PICK x \in h.hit : g = Hit(x)
      OBVIOUS
    <3>2. g.by = x[1] /\ g.of = x[2] /\ g.at = world'.clock
      BY <1>7, <3>1
    <3>3. x \in Attacks /\ x = <<x[1], x[2]>>
      BY <2>1, RosterAssumption
    <3> QED
      BY <1>7, <3>2, <3>3
  <2>5. hits' = hits \cup New /\ world'.clock \in Int /\ world.clock <= world'.clock
    BY <1>4, <1>7, <1>9
  <2> HIDE DEF New
  <2> QED
    BY <2>3, <2>4, <2>5 DEF Struck
<1>14. /\ Len(snap.events) \in Nat /\ Apart(snap.events)
       /\ Len(snap.events) # 0 => diff.inited
       /\ \A m \in 1..Len(snap.events) : IsAttack(snap.events[m]) =>
            /\ snap.time = world'.clock /\ world.clock < world'.clock
            /\ \E g \in New : Reports(g, snap.events[m])
  <2>1. /\ Len(snap.events) \in Nat /\ Apart(snap.events)
        /\ Len(snap.events) # 0 => h.fault = "none"
    BY <1>6, <1>8 DEF Reporting
  <2>2. Len(snap.events) # 0 => diff.inited
    BY <1>6, <1>8 DEF FeedOk
  <2>3. ASSUME NEW m \in 1..Len(snap.events), IsAttack(snap.events[m])
        PROVE  \E g \in New : Reports(g, snap.events[m])
    <3>1. PICK x \in h.hit : Tells(snap.events[m], x)
      BY <1>6, <1>8, <2>3 DEF Reporting
    <3> DEFINE g == [by |-> x[1], of |-> x[2], at |-> h.w.clock, life |-> world.deaths[x[2]]]
    <3>2. g \in New /\ g.by = x[1] /\ g.of = x[2]
      OBVIOUS
    <3>3. Reports(g, snap.events[m])
      BY <3>1, <3>2 DEF Reports, Tells
    <3> QED
      BY <3>2, <3>3
  <2>4. ASSUME NEW m \in 1..Len(snap.events)
        PROVE  snap.time = world'.clock /\ world.clock < world'.clock
    <3>1. Len(snap.events) # 0
      BY <2>1
    <3>2. h.fault # "blind"
      BY <2>1, <3>1
    <3> QED
      BY <1>7, <1>8, <3>2
  <2> HIDE DEF New
  <2> QED
    BY <2>1, <2>2, <2>3, <2>4
<1> HIDE DEF New
<1>15. \/ timed'.now = timed.now
       \/ /\ timed'.now = snap.time /\ snap.time = world'.clock
          /\ ~diff.inited \/ ~InTransition(snap, Deaths(diff, snap.players))
  <2> SUFFICES ASSUME timed'.now # timed.now
               PROVE  /\ timed'.now = snap.time /\ snap.time = world'.clock
                      /\ ~diff.inited \/ ~InTransition(snap, Deaths(diff, snap.players))
    OBVIOUS
  <2>1. timed'.now = snap.time /\ snap.time # None /\ ~Broken(h)
    BY <1>9
  <2>2. h.fault # "blind" /\ snap.time = world'.clock
    BY <1>8, <2>1
  <2> QED
    BY <1>10, <2>1, <2>2
<1>16. Watched(snap, New)
  BY <1>9, <1>14, <1>15 DEF Watched
<1>17. Len(snap.events) \in Nat
  BY <1>3, <1>8
<1> DEFINE dead == Deaths(diff, snap.players)
<1>18. dead = Deaths(diff, snap.players)
  OBVIOUS
<1> HIDE DEF dead
<1>19. Mourned(dead)
  BY <1>4, <1>9, <1>10, <1>17, <1>18, SnapshotMourned
<1>20. diff'.inited
  BY <1>10 DEF Told
<1>21. CreditOk'
  BY <1>3, <1>4, <1>10, <1>13, <1>16, <1>18, <1>19, <1>20, CreditStays
<1> QED
  BY <1>12, <1>21

\* What a position line is to the match and to the feed's clock.
PositionClock ==
  /\ enc' = enc /\ world'.clock = world.clock /\ world'.phase = world.phase
  /\ \E w : world' = w /\ History(Plain(w), world.here)
  /\ world.full # 0 =>
       /\ reader'.snap = seen' /\ seen' # NoFrame /\ seen'.phase = enc.prev.phase
       /\ "time" \in DOMAIN enc.prev => seen'.time = enc.prev.time

LEMMA PositionLineClock == LoadInv /\ PositionLine => PositionClock
<1> SUFFICES ASSUME LoadInv, PositionLine PROVE PositionClock
  OBVIOUS
<1>1. LoadInv' /\ world'.full = world.full
  BY PositionLineKeeps
<1>2. DOMAIN world = DOMAIN World0
  BY DEF LoadInv, WorldOk
<1>3. enc' = enc /\ world'.clock = world.clock /\ world'.phase = world.phase
  BY <1>2 DEF PositionLine, World0
<1>4. \E w : world' = w /\ History(Plain(w), world.here)
  BY DEF PositionLine
<1>5. ASSUME world.full # 0
      PROVE  /\ reader'.snap = seen' /\ seen' # NoFrame /\ seen'.phase = enc.prev.phase
             /\ "time" \in DOMAIN enc.prev => seen'.time = enc.prev.time
  <2>1. reader'.snap = seen' /\ seen' # NoFrame /\ seen'.phase = enc'.prev.phase
    BY <1>1, <1>5 DEF LoadInv, NoFrame, Empty
  <2> DEFINE w == [world EXCEPT !.where = 1 - @, !.pos = @ + 1]
             car == Vehicle(w)
             F(S, whole) ==
               [t |-> "pos", tick |-> TickOf(w),
                players |-> [k \in {OrElse(Eos[p], Name[p]) : p \in S} |->
                               [at |-> w.where, health |-> IF whole THEN 1 + w.where ELSE None]],
                vehicles |-> IF w.car = "gone" THEN << >>
                             ELSE [car |-> IF whole THEN [health |-> car.health, team |-> CarTeam]
                                           ELSE [health |-> None, team |-> None]]]
  <2>2. PICK S, whole :
               /\ whole \in BOOLEAN /\ world' = w
               /\ Load([kind |-> "pos", pos |-> F(S, whole)])
               /\ seen' = IF world.full = 0 THEN NoFrame
                          ELSE SeenAt(enc.prev, F(S, whole), w.where, whole)
               /\ enc' = enc
    BY DEF PositionLine, SeenAt
  <2>3. "time" \in DOMAIN enc.prev => seen'.time = enc.prev.time
    <3> DEFINE f == F(S, whole)
    <3>1. seen' = SeenAt(enc.prev, f, w.where, whole)
      BY <1>5, <2>2
    <3> HIDE DEF w, F, f
    <3> QED
      BY <3>1 DEF SeenAt
  <2> QED
    BY <1>3, <2>1, <2>3
<1> QED
  BY <1>3, <1>4, <1>5 DEF PositionClock

LEMMA PositionLineCredits ==
  LoadInv /\ FeedOk /\ CreditOk /\ FrameTimed /\ PositionLine => CreditOk' /\ FrameTimed'
<1> SUFFICES ASSUME LoadInv, FeedOk, CreditOk, FrameTimed, PositionLine
             PROVE  CreditOk' /\ FrameTimed'
  OBVIOUS
<1>1. LoadInv' /\ world'.here = world.here /\ world'.full = world.full
  BY PositionLineKeeps
<1>2. WorldOk(world) /\ WorldOk(world') /\ DOMAIN diff = DOMAIN NewDiff
  BY <1>1 DEF LoadInv, FeedOk
<1>3. PositionClock
  BY PositionLineClock
<1>4. PICK w : world' = w /\ History(Plain(w), world.here)
  BY <1>3 DEF PositionClock
<1>5. /\ Plain(w).w = world' /\ Plain(w).dead = {} /\ Plain(w).hit = {}
      /\ Plain(w).events = << >>
  BY <1>4 DEF Plain, Happening
<1>6. /\ hits' = hits /\ timed'.before = timed.now
      /\ timed'.now = IF seen' = NoFrame \/ seen'.time = None \/ Broken(Plain(w))
                      THEN timed.now ELSE seen'.time
      /\ credited' = [x \in Attacks |-> credited[x] + Cardinality(CreditsTo(x))]
      /\ source' = source
  BY <1>4, <1>5 DEF History, PositionLine
<1>7. FrameTimed'
  BY <1>1, <1>3 DEF FrameTimed, PositionClock
<1>8. world.clock \in Int /\ world'.clock = world.clock
  BY <1>3 DEF PositionClock, CreditOk, HitsOk
<1> DEFINE none == {}
<1>9. Struck(none)
  BY <1>6, <1>8, FS_EmptySet DEF Struck
<1>10. CASE world.full = 0
  <2>1. reader'.snap = NoFrame /\ seen' = NoFrame
    BY <1>1, <1>10 DEF LoadInv
  <2>2. diff' = diff /\ rows' = << >> /\ timed'.now = timed.now
    BY <1>6, <2>1 DEF PositionLine, Load
  <2>3. HitsOk'
    BY <1>9, HitsStay DEF CreditOk
  <2>4. BufferOk'
    BY <1>6, <1>8, <2>2 DEF CreditOk, BufferOk, Attempts, Bounded, Known, Reports
  <2>5. KillerDidHit'
    <3>1. Len(rows') = 0
      BY <2>2
    <3> QED
      BY <3>1 DEF KillerDidHit
  <2>6. ASSUME NEW x \in Attacks
        PROVE  credited'[x] \in Nat /\ credited'[x] <= Cardinality(Settled(x)')
    <3>1. Len(rows') = 0
      BY <2>2
    <3>2. CreditsTo(x) = {}
      BY <3>1 DEF CreditsTo
    <3>3. credited'[x] = credited[x] + 0
      BY <1>6, <3>2, FS_EmptySet
    <3>4. credited[x] \in Nat /\ credited[x] <= Cardinality(Settled(x))
      BY DEF CreditOk
    <3>5. Settled(x)' = Settled(x)
      BY <1>6, <2>2 DEF Settled, Aimed, Meant, SameVictim
    <3> QED
      BY <3>3, <3>4, <3>5
  <2> QED
    BY <1>7, <2>3, <2>4, <2>5, <2>6 DEF CreditOk
<1>11. CASE world.full # 0
  <2>1. PositionTold
    BY <1>11, PositionLineTold
  <2> DEFINE snap == seen'
             dead == Deaths(diff, snap.players)
  <2>2. /\ Roll(snap.players, world') /\ snap.events = << >>
        /\ diff' = DiffSnapshot(diff, snap).d /\ rows' = DiffSnapshot(diff, snap).rows
        /\ diff'.inited
    BY <2>1 DEF PositionTold, Told
  <2>3. /\ snap # NoFrame /\ snap.phase = enc.prev.phase
        /\ "time" \in DOMAIN enc.prev /\ snap.time = enc.prev.time
        /\ snap.time \in {None, world'.clock}
        /\ snap.time # None => snap.phase = world'.phase
    BY <1>3, <1>8, <1>11 DEF PositionClock, FrameTimed
  <2>4. timed'.now = IF snap = NoFrame \/ snap.time = None \/ Broken(Plain(w))
                     THEN timed.now ELSE snap.time
    BY <1>6
  <2>5. dead = Deaths(diff, snap.players)
    OBVIOUS
  <2> HIDE DEF snap, dead
  <2>6. Len(snap.events) \in Nat
    BY <2>2
  <2>7. Mourned(dead)
    BY <1>2, <1>6, <2>2, <2>5, <2>6, SnapshotMourned
  <2>8. ASSUME timed'.now # timed.now
        PROVE  /\ timed'.now = snap.time /\ snap.time = world'.clock
               /\ ~InTransition(snap, Deaths(diff, snap.players))
    <3>1. timed'.now = snap.time /\ snap.time # None /\ ~Broken(Plain(w))
      BY <2>4, <2>8
    <3>2. snap.time = world'.clock /\ snap.phase = world'.phase
      BY <2>3, <3>1
    <3>3. Len(dead) = Cardinality(WithName(none))
      <4>1. \A p \in People : world'.deaths[p] = world.deaths[p] + 0
        <5>1. world'.deaths = world.deaths
          BY PositionLineKeeps
        <5>2. \A p \in People : world.deaths[p] \in Nat
          BY <1>2 DEF WorldOk
        <5> QED
          BY <5>1, <5>2
      <4>2. After(world, world', none) /\ none \in SUBSET world.here
        BY <1>1, <1>2, <4>1 DEF After
      <4>3. diff.inited /\ Counted(diff.prev, world)
        BY <1>11 DEF FeedOk
      <4>4. world'.here = world.here /\ none \in SUBSET world.here
        BY <1>1, <4>2
      <4> HIDE DEF none
      <4>5. Named(dead, WithName(none))
        BY <1>2, <2>2, <2>5, <4>2, <4>3, <4>4, DeathsAre
      <4> QED
        BY <4>5 DEF Named
    <3> DEFINE h == Plain(w)
    <3>4. /\ h.w = world' /\ h.events = snap.events
          /\ Len(dead) = Cardinality(WithName(h.dead)) /\ ~Broken(h)
      BY <1>5, <2>2, <3>1, <3>3
    <3> HIDE DEF h
    <3>5. InTransition(snap, dead) <=> Broken(h)
      BY <1>2, <2>2, <3>2, <3>4, TransitionIs
    <3> QED
      BY <2>5, <3>1, <3>2, <3>4, <3>5
  <2>9. Watched(snap, none)
    <3>1. Len(snap.events) = 0 /\ timed'.before = timed.now
      BY <1>6, <2>2
    <3> QED
      BY <2>8, <3>1 DEF Watched, Apart
  <2> HIDE DEF none
  <2>10. CreditOk'
    BY <1>2, <1>6, <1>9, <2>2, <2>5, <2>7, <2>9, CreditStays
  <2> QED
    BY <1>7, <2>10
<1> QED
  BY <1>10, <1>11

\* The account holds from the start and over every line.
CreditInv == FeedOk /\ CreditOk /\ FrameTimed

LEMMA CreditInvHolds == Spec => []CreditInv
<1>1. Init => CreditInv
  <2> SUFFICES ASSUME Init PROVE CreditInv
    OBVIOUS
  <2>1. FeedOk
    BY FeedOkStarts
  <2>2. /\ hits = {} /\ rows = << >> /\ timed = [now |-> 0, before |-> 0]
        /\ world.clock = 0 /\ world.full = 0 /\ credited = [x \in Attacks |-> 0]
        /\ diff = NewDiff
    BY DEF Init, World0
  <2>3. HitsOk
    BY <2>2, FS_EmptySet DEF HitsOk
  <2>4. BufferOk
    <3>1. diff.buffer = << >> /\ diff.seen = << >>
      BY <2>2 DEF NewDiff
    <3>2. Listed(diff.buffer) /\ Listed(diff.seen) /\ Len(diff.buffer) = 0 /\ Len(diff.seen) = 0
      BY <3>1 DEF Listed
    <3> QED
      BY <2>2, <3>2, CreditAssumption DEF BufferOk, Attempts, Bounded
  <2>5. KillerDidHit
    BY <2>2 DEF KillerDidHit
  <2>6. \A x \in Attacks : Settled(x) = {} /\ credited[x] = 0
    BY <2>2 DEF Settled
  <2>7. CreditOk
    BY <2>3, <2>4, <2>5, <2>6, FS_EmptySet DEF CreditOk
  <2>8. FrameTimed
    BY <2>2 DEF FrameTimed
  <2> QED
    BY <2>1, <2>7, <2>8 DEF CreditInv
<1>2. LoadInv /\ CreditInv /\ [Next]_vars => CreditInv'
  <2> SUFFICES ASSUME LoadInv, CreditInv, [Next]_vars PROVE CreditInv'
    OBVIOUS
  <2>1. FeedOk /\ CreditOk /\ FrameTimed /\ FeedOk'
    BY FeedOkStays DEF CreditInv
  <2>2. CASE FullLine
    BY <2>1, <2>2, FullLineCredits DEF CreditInv
  <2>3. CASE PositionLine
    BY <2>1, <2>3, PositionLineCredits DEF CreditInv
  <2>4. CASE OtherLine \/ UNCHANGED vars
    <3>1. UNCHANGED <<source, world, enc, diff, rows, hits, credited, timed>>
      BY <2>4 DEF OtherLine, vars, viewer
    <3>2. \A x \in Attacks : Settled(x)' = Settled(x)
      BY <3>1 DEF Settled, Aimed, Meant, SameVictim
    <3>3. HitsOk' /\ KillerDidHit'
      BY <2>1, <3>1 DEF CreditOk, HitsOk, KillerDidHit, SameVictim
    <3>4. BufferOk'
      BY <2>1, <3>1 DEF CreditOk, BufferOk, Attempts, Bounded, Known, Reports
    <3>5. CreditOk'
      BY <2>1, <3>1, <3>2, <3>3, <3>4 DEF CreditOk
    <3>6. FrameTimed'
      BY <2>1, <3>1 DEF FrameTimed
    <3> QED
      BY <2>1, <3>5, <3>6 DEF CreditInv
  <2> QED
    BY <2>2, <2>3, <2>4 DEF Next
<1> QED
  BY <1>1, <1>2, LoadInvHolds, PTL DEF Spec

\* Over a whole replay a row that names a killer names somebody who hit that
\* victim not longer ago than an attack is kept, no attack pays for two rows,
\* and the feed's buffers stay within their bounds, whoever shares a name or
\* has no stable id and however position frames and breaks of the match come
\* between the attack and the death (killfeed/diff.ts).  Where the events give
\* the victim's stable id the victim is that very player; those of the game's
\* log do not (squad/logtail.py:282), and there he is whoever has the name.
THEOREM CreditGoesToHits == Spec => []CreditIsDue
<1>1. LoadInv /\ CreditInv /\ LossOk => CreditIsDue
  <2> SUFFICES ASSUME LoadInv, CreditInv, LossOk PROVE CreditIsDue
    OBVIOUS
  <2>1. HitsOk /\ BufferOk /\ KillerDidHit
    BY DEF CreditInv, CreditOk
  <2>2. TypeOK
    <3>1. diff.inited <=> world.full > 0
      <4>1. world.full \in Nat
        BY DEF LoadInv, WorldOk
      <4> QED
        BY <4>1 DEF CreditInv, FeedOk
    <3>2. /\ Len(diff.buffer) <= BufferMax /\ Len(diff.seen) <= SeenMax
          /\ \A i \in 1..Len(diff.buffer) : ~diff.buffer[i].used
      BY <2>1 DEF BufferOk, Bounded, Attempts
    <3>3. \A t \in TicketTeams : tickets.acc[t] \in Nat /\ tickets.bk[t].total \in Nat
      BY DEF LossOk, LossesExplained, LossesAddUp
    <3> QED
      BY <3>1, <3>2, <3>3 DEF TypeOK
  <2>3. CreditedOnce
    <3> SUFFICES ASSUME NEW x \in Attacks
                 PROVE  credited[x] <=
                          Cardinality({h \in hits : /\ Name[h.by] = Name[x[1]]
                                                    /\ SameVictim(Name[h.of], Team[h.of], x[2])})
      BY DEF CreditedOnce
    <3> DEFINE S == Settled(x)
               T == {h \in hits : /\ Name[h.by] = Name[x[1]]
                               /\ SameVictim(Name[h.of], Team[h.of], x[2])}
    <3>1. credited[x] \in Nat /\ credited[x] <= Cardinality(S)
      BY DEF CreditInv, CreditOk
    <3>2. S \subseteq T /\ T \subseteq hits
      BY DEF Settled, Aimed
    <3>3. IsFiniteSet(hits)
      BY <2>1 DEF HitsOk
    <3> HIDE DEF S, T
    <3>4. IsFiniteSet(T)
      BY <3>2, <3>3, FS_Subset
    <3>5. IsFiniteSet(S) /\ Cardinality(S) <= Cardinality(T)
      BY <3>2, <3>4, FS_Subset
    <3>6. Cardinality(S) \in Nat /\ Cardinality(T) \in Nat
      BY <3>4, <3>5, FS_CardinalityType
    <3> QED
      BY <3>1, <3>5, <3>6 DEF T
  <2> QED
    BY <2>1, <2>2, <2>3 DEF CreditIsDue
<1> QED
  BY <1>1, LoadInvHolds, CreditInvHolds, LossOkHolds, PTL
=============================================================================
