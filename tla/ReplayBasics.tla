---------------------------- MODULE ReplayBasics ----------------------------
(* What the modules about replays and panels share. *)
EXTENDS Integers, Sequences, FiniteSets, SequencesExt, Functions, TLC

CONSTANT None      \* null, undefined or a field that is not there

MinOf(a, b) == IF a < b THEN a ELSE b
MaxOf(a, b) == IF a < b THEN b ELSE a

Far(a, b) == IF a < b THEN b - a ELSE a - b
Sign(d) == IF d > 0 THEN 1 ELSE IF d < 0 THEN -1 ELSE 0

SumSeqOf(s) ==
  LET sum[n \in 0..Len(s)] == IF n = 0 THEN 0 ELSE sum[n - 1] + s[n]
  IN  sum[Len(s)]

(* The last n entries of a sequence. *)
LastOf(s, n) == IF Len(s) > n THEN SubSeq(s, Len(s) - n + 1, Len(s)) ELSE s

(* a ?? b *)
OrElse(a, b) == IF a # None THEN a ELSE b

(* { ...under, ...over }: the keys of both, the values of over first. *)
Overlay(over, under) ==
  [x \in DOMAIN over \cup DOMAIN under |-> IF x \in DOMAIN over THEN over[x] ELSE under[x]]

(* The n-th of a set of places. *)
NthOf(S, n) == CHOOSE i \in S : Cardinality({j \in S : j <= i}) = n

(* The entries of a sequence at these places, in their order. *)
AtPlaces(s, S) == [n \in 1..Cardinality(S) |-> s[NthOf(S, n)]]

(* A map filled by going through a sequence: of two entries under one key  *)
(* the later one stays.                                                    *)
MapBy(s, Key(_), Val(_)) ==
  LET At(k) == CHOOSE i \in 1..Len(s) :
                 Key(s[i]) = k /\ \A j \in i + 1..Len(s) : Key(s[j]) # k
  IN  [k \in {Key(s[i]) : i \in 1..Len(s)} |-> Val(s[At(k)])]
=============================================================================
