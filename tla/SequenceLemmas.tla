--------------------------- MODULE SequenceLemmas ---------------------------
(* What the operations on the listing, the registry and the queues of        *)
(* messages do to a sequence, and what it is to put a finite set in order.   *)
EXTENDS Integers, Sequences, SequencesExt, FiniteSets, Ordered, TLAPS, SequenceTheorems,
        FiniteSetTheorems, WellFoundedInduction, NaturalsInduction

\* What taking the first element away does to the others.
LEMMA TailProperties ==
  ASSUME NEW S, NEW s \in Seq(S), s # << >>
  PROVE  /\ Head(s) \in S /\ Tail(s) \in Seq(S)
         /\ Len(Tail(s)) = Len(s) - 1
         /\ \A k \in 1..(Len(s) - 1) : Tail(s)[k] = s[k + 1]
  OBVIOUS

\* RemoveAt drops one element and moves those behind it up by one, as the loop
\* of remove_from_struct and Vec::retain do.
LEMMA RemoveAtProperties ==
  ASSUME NEW S, NEW s \in Seq(S), NEW i \in 1..Len(s)
  PROVE  /\ RemoveAt(s, i) \in Seq(S)
         /\ Len(RemoveAt(s, i)) = Len(s) - 1
         /\ \A k \in 1..(Len(s) - 1) :
              RemoveAt(s, i)[k] = IF k < i THEN s[k] ELSE s[k + 1]
<1> DEFINE front == SubSeq(s, 1, i - 1)
           back  == SubSeq(s, i + 1, Len(s))
<1>1. front \in Seq(S) /\ Len(front) = i - 1 /\ \A k \in 1..(i - 1) : front[k] = s[k]
  OBVIOUS
<1>2. back \in Seq(S) /\ Len(back) = Len(s) - i /\ \A k \in 1..(Len(s) - i) : back[k] = s[i + k]
  OBVIOUS
<1>3. RemoveAt(s, i) = front \o back
  BY DEF RemoveAt
<1> HIDE DEF front, back
<1>4. front \o back \in Seq(S) /\ Len(front \o back) = Len(s) - 1
  BY <1>1, <1>2
<1>5. ASSUME NEW k \in 1..(Len(s) - 1)
      PROVE  (front \o back)[k] = IF k < i THEN s[k] ELSE s[k + 1]
  <2>1. (front \o back)[k] = IF k <= Len(front) THEN front[k] ELSE back[k - Len(front)]
    BY <1>1, <1>2
  <2> QED
    BY <1>1, <1>2, <2>1
<1> QED
  BY <1>3, <1>4, <1>5

-----------------------------------------------------------------------------
(* Sequences of the elements of a finite set *)

\* A nonempty set of natural numbers has a smallest element.
LEMMA SmallestExists ==
  ASSUME NEW T \in SUBSET Nat, T # {}
  PROVE  \E n \in T : \A m \in T : n <= m
<1>1. IsWellFoundedOn(OpToRel(<, Nat), Nat)
  BY NatLessThanWellFounded
<1>2. PICK n \in T : \A m \in T : <<m, n>> \notin OpToRel(<, Nat)
  BY <1>1, WFMin, Zenon
<1>3. ASSUME NEW m \in T PROVE n <= m
  <2>1. ~(m < n)
    BY <1>2 DEF OpToRel
  <2> QED
    BY <2>1
<1> QED
  BY <1>3

\* A set of chunks is put in order by way of its smaller elements.
LEMMA AppendKeepsOrder ==
  ASSUME NEW n \in Nat, NEW S, S \subseteq 0..(n - 1), NEW ids \in SetToSeqs(S),
         Increasing(ids)
  PROVE  /\ Append(ids, n) \in SetToSeqs(S \union {n})
         /\ Increasing(Append(ids, n))
<1> DEFINE c == Cardinality(S)
<1>1. IsFiniteSet(S) /\ c \in Nat /\ n \notin S /\ S \subseteq Nat
  <2>1. IsFiniteSet(0..(n - 1))
    BY FS_Interval
  <2>2. IsFiniteSet(S)
    BY <2>1, FS_Subset
  <2> QED
    BY <2>2, FS_CardinalityType
<1>2. /\ IsFiniteSet(S \union {n}) /\ Cardinality(S \union {n}) = c + 1
  BY <1>1, FS_AddElement
<1>3. ids \in [1..c -> S] /\ \A i, j \in 1..c : i # j => ids[i] # ids[j]
  BY DEF SetToSeqs
<1> HIDE DEF c
<1>4. ids \in Seq(S) /\ Len(ids) = c
  BY <1>1, <1>3, SeqDef
<1> DEFINE more == Append(ids, n)
<1>5. /\ more \in [1..(c + 1) -> S \union {n}]
      /\ \A i \in 1..c : more[i] = ids[i]
      /\ more[c + 1] = n
  <2>1. ids \in Seq(S \union {n})
    BY <1>4, SeqMonotonic
  <2> QED
    <3>1. /\ more \in Seq(S \union {n}) /\ Len(more) = c + 1
          /\ \A i \in 1..c : more[i] = ids[i]
          /\ more[c + 1] = n
      BY <1>4, <2>1, AppendProperties
    <3> HIDE DEF more
    <3>2. more \in [1..Len(more) -> S \union {n}]
      BY <3>1
    <3> QED
      BY <3>1, <3>2
<1> HIDE DEF more
<1>6. ASSUME NEW i \in 1..(c + 1), NEW j \in 1..(c + 1), i < j
      PROVE  more[i] < more[j]
  <2>1. i \in 1..c /\ more[i] = ids[i] /\ ids[i] \in 0..(n - 1)
    <3>1. i \in 1..c
      BY <1>1, <1>6
    <3>2. ids[i] \in S
      BY <1>3, <3>1
    <3> QED
      BY <1>5, <3>1, <3>2
  <2>2. CASE j = c + 1
    BY <2>1, <2>2, <1>5
  <2>3. CASE j # c + 1
    BY <1>1, <1>3, <1>5, <1>6, <2>1, <2>3 DEF Increasing
  <2> QED
    BY <2>2, <2>3
<1>7. \A i, j \in 1..(c + 1) : i # j => more[i] # more[j]
  <2> SUFFICES ASSUME NEW i \in 1..(c + 1), NEW j \in 1..(c + 1), i # j
               PROVE  more[i] # more[j]
    OBVIOUS
  <2>1. more[i] \in Nat /\ more[j] \in Nat
    BY <1>1, <1>5
  <2>2. i < j \/ j < i
    BY <1>1
  <2> QED
    BY <2>1, <2>2, <1>6
<1>8. Increasing(more)
  BY <1>5, <1>6 DEF Increasing
<1>9. more \in SetToSeqs(S \union {n})
  BY <1>2, <1>5, <1>7 DEF SetToSeqs
<1> QED
  BY <1>8, <1>9 DEF more

\* The elements of a finite set of numbers can be put in order: a smallest bound
\* below which some set cannot has no place.
LEMMA OrderExists ==
  ASSUME NEW n \in Nat, NEW S, S \subseteq 0..(n - 1)
  PROVE  \E ids \in SetToSeqs(S) : Increasing(ids)
<1> DEFINE Ordered(m) == \A R \in SUBSET (0..(m - 1)) : \E ids \in SetToSeqs(R) : Increasing(ids)
           bad == {m \in Nat : ~Ordered(m)}
<1>1. SUFFICES bad = {}
  BY <1>1
<1>2. SUFFICES ASSUME bad # {} PROVE FALSE
  OBVIOUS
<1> HIDE DEF Ordered
<1>3. PICK m \in bad : \A x \in bad : m <= x
  <2>1. bad \in SUBSET Nat
    OBVIOUS
  <2> HIDE DEF bad
  <2> QED
    BY <1>2, <2>1, SmallestExists
<1>4. Ordered(0)
  <2>1. << >> \in SetToSeqs({}) /\ Increasing(<< >>)
    <3>1. Cardinality({}) = 0
      BY FS_EmptySet
    <3>2. 1..Cardinality({}) = {}
      BY <3>1
    <3> QED
      BY <3>2 DEF SetToSeqs, Increasing
  <2>2. 0..(0 - 1) = {}
    OBVIOUS
  <2> QED
    BY <2>1, <2>2 DEF Ordered
<1>5. m \in Nat /\ m # 0 /\ ~Ordered(m)
  BY <1>3, <1>4
<1>6. m - 1 \in Nat
  BY <1>5
<1>7. Ordered(m - 1)
  <2>1. ~(m <= m - 1)
    BY <1>5
  <2> QED
    BY <1>3, <1>6, <2>1
<1>8. ASSUME NEW R \in SUBSET (0..(m - 1))
      PROVE  \E ids \in SetToSeqs(R) : Increasing(ids)
  <2> DEFINE rest == R \ {m - 1}
  <2>1. rest \subseteq 0..((m - 1) - 1)
    BY <1>5, <1>6
  <2>2. PICK ids \in SetToSeqs(rest) : Increasing(ids)
    BY <1>7, <2>1 DEF Ordered
  <2>3. CASE m - 1 \notin R
    <3>1. rest = R
      BY <2>3
    <3> QED
      BY <2>2, <3>1
  <2>4. CASE m - 1 \in R
    <3>1. rest \union {m - 1} = R
      BY <2>4
    <3> HIDE DEF rest
    <3>2. /\ Append(ids, m - 1) \in SetToSeqs(rest \union {m - 1})
          /\ Increasing(Append(ids, m - 1))
      BY <1>6, <2>1, <2>2, AppendKeepsOrder
    <3> QED
      BY <3>1, <3>2
  <2> QED
    BY <2>3, <2>4
<1> QED
  BY <1>5, <1>8 DEF Ordered

\* A sequence that names no element of a finite set twice, and is as long as the
\* set is large, names each of them.
LEMMA SetToSeqsProperties ==
  ASSUME NEW S, IsFiniteSet(S), NEW ids \in SetToSeqs(S)
  PROVE  /\ ids \in Seq(S) /\ Len(ids) = Cardinality(S)
         /\ Range(ids) = S
<1> DEFINE c == Cardinality(S)
<1>1. c \in Nat
  BY FS_CardinalityType
<1>2. ids \in [1..c -> S] /\ \A i, j \in 1..c : i # j => ids[i] # ids[j]
  BY DEF SetToSeqs
<1>3. ids \in Injection(1..c, S)
  BY <1>2 DEF Injection, IsInjective
<1>4. Cardinality(1..c) = c
  BY <1>1, FS_Interval
<1>5. ids \in Surjection(1..c, S)
  <2>1. IsFiniteSet(1..c)
    BY <1>1, FS_Interval
  <2> HIDE DEF c
  <2>2. Cardinality(1..c) = Cardinality(S)
    BY <1>4 DEF c
  <2> QED
    BY <1>3, <2>2, FS_Injection, Zenon
<1> HIDE DEF c
<1>6. Range(ids) = S
  BY <1>2, <1>5 DEF Surjection, Range
<1>7. ids \in Seq(S) /\ Len(ids) = c
  BY <1>1, <1>2, SeqDef
<1> QED
  BY <1>6, <1>7 DEF c

\* InOrder has every element of the set, in increasing order.
LEMMA InOrderProperties ==
  ASSUME NEW n \in Nat, NEW S, S \subseteq 0..(n - 1)
  PROVE  /\ InOrder(S) \in Seq(S) /\ Increasing(InOrder(S))
         /\ Range(InOrder(S)) = S
<1>1. IsFiniteSet(S)
  <2>1. IsFiniteSet(0..(n - 1))
    BY FS_Interval
  <2> QED
    BY <2>1, FS_Subset
<1>2. InOrder(S) \in SetToSeqs(S) /\ Increasing(InOrder(S))
  <2>1. \E ids \in SetToSeqs(S) : Increasing(ids)
    BY OrderExists
  <2> QED
    BY <2>1, Zenon DEF InOrder
<1> QED
  BY <1>1, <1>2, SetToSeqsProperties

\* An increasing sequence is no longer than the range it is from.
LEMMA IncreasingIsShort ==
  ASSUME NEW n \in Nat, NEW ids \in Seq(0..(n - 1)), Increasing(ids)
  PROVE  Len(ids) <= n
<1> DEFINE c == Len(ids)
<1>1. c \in Nat /\ ids \in [1..c -> 0..(n - 1)]
  OBVIOUS
<1>2. ids \in Injection(1..c, 0..(n - 1))
  <2> SUFFICES ASSUME NEW i \in 1..c, NEW j \in 1..c, ids[i] = ids[j], i # j
               PROVE  FALSE
    BY <1>1 DEF Injection, IsInjective
  <2>1. ids[i] \in Int /\ (i < j \/ j < i)
    BY <1>1
  <2> QED
    BY <1>1, <2>1 DEF Increasing
<1>3. 1 \in Int /\ c \in Int /\ 0 \in Int /\ n - 1 \in Int
  BY <1>1
<1>4. Cardinality(1..c) = c /\ Cardinality(0..(n - 1)) = n /\ IsFiniteSet(0..(n - 1))
  <2>1. Cardinality(1..c) = IF 1 > c THEN 0 ELSE c - 1 + 1
    BY <1>3, FS_Interval
  <2>2. /\ Cardinality(0..(n - 1)) = IF 0 > n - 1 THEN 0 ELSE (n - 1) - 0 + 1
        /\ IsFiniteSet(0..(n - 1))
    BY <1>3, FS_Interval
  <2> HIDE DEF c
  <2> QED
    BY <1>1, <2>1, <2>2
<1>5. Cardinality(1..c) <= Cardinality(0..(n - 1))
  <2> HIDE DEF c
  <2> QED
    BY <1>2, <1>4, FS_Injection, Zenon
<1> QED
  BY <1>4, <1>5
=============================================================================
