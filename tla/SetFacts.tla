------------------------------ MODULE SetFacts ------------------------------
(***************************************************************************)
(* Facts the proofs of several components rest on: extremes of bounded     *)
(* sets of integers, the sequence of a set and the arithmetic of periods.  *)
(***************************************************************************)
EXTENDS Integers, Sequences, FiniteSets, FiniteSetsExt, SequencesExt, FiniteSetTheorems,
        WellFoundedInduction, TLAPS

\* A non-empty set of naturals has a least element.
LEMMA LeastNatural ==
  ASSUME NEW S \in SUBSET Nat, S # {}
  PROVE  \E x \in S : \A y \in S : x <= y
<1>1. PICK x \in S : \A y \in S : <<y, x>> \notin OpToRel(<, Nat)
  BY NatLessThanWellFounded, WFMin
<1>2. \A y \in S : ~(y < x)
  BY <1>1 DEF OpToRel
<1> QED
  BY <1>2

\* Min of a non-empty set of integers bounded below is its least element.
LEMMA MinIsLeast ==
  ASSUME NEW S \in SUBSET Int, S # {}, NEW b \in Int, \A x \in S : b <= x
  PROVE  Min(S) \in S /\ \A y \in S : Min(S) <= y
<1> DEFINE T == {x - b : x \in S}
<1>1. T \in SUBSET Nat /\ T # {}
  <2>1. \A x \in S : x - b \in Nat
    OBVIOUS
  <2> QED
    BY <2>1
<1>2. PICK t \in T : \A u \in T : t <= u
  BY <1>1, LeastNatural
<1>3. PICK x \in S : t = x - b
  OBVIOUS
<1>4. \A y \in S : x <= y
  <2> TAKE y \in S
  <2>1. y - b \in T
    OBVIOUS
  <2> QED
    BY <2>1, <1>2, <1>3
<1> QED
  BY <1>4 DEF Min

\* Max of a non-empty set of integers bounded above is its greatest element.
LEMMA MaxIsGreatest ==
  ASSUME NEW S \in SUBSET Int, S # {}, NEW b \in Int, \A x \in S : x <= b
  PROVE  Max(S) \in S /\ \A y \in S : y <= Max(S)
<1> DEFINE T == {b - x : x \in S}
<1>1. T \in SUBSET Nat /\ T # {}
  <2>1. \A x \in S : b - x \in Nat
    OBVIOUS
  <2> QED
    BY <2>1
<1>2. PICK t \in T : \A u \in T : t <= u
  BY <1>1, LeastNatural
<1>3. PICK x \in S : t = b - x
  OBVIOUS
<1>4. \A y \in S : x >= y
  <2> TAKE y \in S
  <2>1. b - x <= b - y
    BY <1>2, <1>3
  <2> QED
    BY <2>1
<1>5. PICK m \in S : m = Max(S) /\ \A y \in S : m >= y
  BY <1>4 DEF Max
<1> QED
  BY <1>5

\* The period of a day: it starts at or before the day and ends after it.
LEMMA DivBounds ==
  ASSUME NEW d \in Nat, NEW g \in Nat \ {0}
  PROVE  /\ d \div g \in Nat /\ (d \div g) * g \in Nat
         /\ (d \div g) * g <= d
         /\ d < (d \div g) * g + g
  OBVIOUS

\* Rounding down twice is rounding down once.
LEMMA DivIdempotent ==
  ASSUME NEW q \in Nat, NEW g \in Nat \ {0}
  PROVE  (q * g) \div g = q
  OBVIOUS

\* A finite set has a sequence of its elements, each once (SetToSeq).
LEMMA SetHasSequence ==
  ASSUME NEW S, IsFiniteSet(S)
  PROVE  /\ SetToSeq(S) \in Seq(S) /\ Len(SetToSeq(S)) = Cardinality(S) /\ Cardinality(S) \in Nat
         /\ \A i, j \in 1 .. Len(SetToSeq(S)) : SetToSeq(S)[i] = SetToSeq(S)[j] => i = j
<1>1. Cardinality(S) \in Nat /\ ExistsBijection(1..Cardinality(S), S)
  BY FS_CardinalityType
<1>2. \E f \in [1..Cardinality(S) -> S] : IsInjective(f)
  BY <1>1 DEF ExistsBijection, Bijection, Injection, IsInjective
<1>3. SetToSeq(S) \in [1..Cardinality(S) -> S] /\ IsInjective(SetToSeq(S))
  BY <1>2 DEF SetToSeq
<1> QED
  BY <1>1, <1>3 DEF IsInjective

\* The places of two sequences put together.
LEMMA Appended ==
  ASSUME NEW T, NEW a \in Seq(T), NEW b \in Seq(T)
  PROVE  /\ a \o b \in Seq(T) /\ Len(a \o b) = Len(a) + Len(b)
         /\ \A d \in 1 .. Len(a) : (a \o b)[d] = a[d]
         /\ \A d \in Len(a) + 1 .. Len(a) + Len(b) : (a \o b)[d] = b[d - Len(a)]
  OBVIOUS

\* Every rank up to the size of a set of positions is the rank of one of them.
LEMMA RankOf ==
  ASSUME NEW n \in Nat, NEW S \in SUBSET (1 .. n), NEW k \in Nat \ {0}, k <= Cardinality(S)
  PROVE  \E i \in S : Cardinality({j \in S : j <= i}) = k
<1>1. IsFiniteSet(S) /\ Cardinality(S) \in Nat
  <2>1. IsFiniteSet(1 .. n)
    BY FS_Interval
  <2> QED
    BY <2>1, FS_Subset, FS_CardinalityType
<1>a. PICK B : B = [i \in Nat |-> {j \in S : j <= i}]
  OBVIOUS
<1>2. /\ \A i \in Nat : B[i] = {j \in S : j <= i}
      /\ \A i \in Nat : \A j : j \in B[i] <=> j \in S /\ j <= i
      /\ \A j \in S : j \in Nat /\ 1 <= j /\ j <= n
  BY <1>a
<1>3. ASSUME NEW i \in Nat
      PROVE  IsFiniteSet(B[i]) /\ Cardinality(B[i]) \in Nat
  <2>1. B[i] \in SUBSET S
    BY <1>2
  <2> QED
    BY <1>1, <2>1, FS_Subset, FS_CardinalityType
<1>4. PICK T : T = {i \in Nat : k <= Cardinality(B[i])}
  OBVIOUS
<1>5. n \in T
  <2>1. B[n] = S
    BY <1>2
  <2> QED
    BY <1>4, <2>1
<1>6. PICK i \in T : \A j \in T : i <= j
  BY <1>4, <1>5, LeastNatural
<1>7. i # 0
  <2>0. B[0] = {j \in S : j <= 0} /\ \A j \in S : ~(j <= 0)
    BY <1>2
  <2>1. B[0] = {}
    BY <2>0, Zenon
  <2>2. Cardinality(B[0]) = 0
    BY <2>1, FS_EmptySet
  <2> QED
    BY <1>4, <1>6, <2>2
<1>8. PICK h \in Nat : i = h + 1
  BY <1>4, <1>6, <1>7
<1>9. Cardinality(B[h]) < k
  BY <1>3, <1>4, <1>6, <1>8
<1>10. i \in S
  <2>1. ASSUME i \notin S PROVE FALSE
    <3>1. \A j \in S : j <= i <=> j <= h
      BY <1>2, <1>8, <2>1
    <3>a. /\ \A j : j \in B[i] <=> j \in S /\ j <= i
          /\ \A j : j \in B[h] <=> j \in S /\ j <= h
      BY <1>2, <1>8
    <3>2. \A j : j \in B[i] <=> j \in B[h]
      BY <3>1, <3>a, Zenon
    <3>3. B[i] = B[h]
      BY <1>2, <1>8, <3>2
    <3> QED
      BY <1>3, <1>4, <1>6, <1>8, <1>9, <3>3
  <2> QED
    BY <2>1
<1>11. B[i] = B[h] \cup {i}
  <2>1. \A j \in S : j <= i <=> j <= h \/ j = i
    BY <1>2, <1>8
  <2>2. /\ \A j : j \in B[i] <=> j \in S /\ j <= i
        /\ \A j : j \in B[h] <=> j \in S /\ j <= h
    BY <1>2, <1>8
  <2>3. \A j : j \in B[i] <=> j \in B[h] \/ j = i
    BY <1>10, <2>1, <2>2, Zenon
  <2> QED
    BY <2>3
<1>12. Cardinality(B[i]) <= Cardinality(B[h]) + 1
  <2>1. \/ Cardinality(B[h] \cup {i}) = Cardinality(B[h])
        \/ Cardinality(B[h] \cup {i}) = Cardinality(B[h]) + 1
    BY <1>3, FS_AddElement
  <2> QED
    BY <1>3, <1>11, <2>1
<1>13. Cardinality(B[i]) = k
  BY <1>3, <1>4, <1>6, <1>9, <1>8, <1>12
<1> QED
  BY <1>2, <1>4, <1>6, <1>10, <1>13

\* Some elements of a finite set exchanged for others.
LEMMA Exchanged ==
  ASSUME NEW A, NEW R, NEW I, NEW B, IsFiniteSet(A), R \in SUBSET A, IsFiniteSet(I),
         \A x \in I : x \in A => x \in R, B = (A \ R) \cup I
  PROVE  /\ IsFiniteSet(B)
         /\ Cardinality(A) \in Nat /\ Cardinality(R) \in Nat /\ Cardinality(I) \in Nat
         /\ Cardinality(B) = Cardinality(A) - Cardinality(R) + Cardinality(I)
<1>1. IsFiniteSet(R) /\ Cardinality(R) \in Nat /\ Cardinality(A) \in Nat /\ Cardinality(I) \in Nat
  <2>1. IsFiniteSet(R)
    BY FS_Subset
  <2>2. Cardinality(A) \in Nat /\ Cardinality(I) \in Nat
    BY FS_CardinalityType
  <2>3. Cardinality(R) \in Nat
    BY <2>1, FS_CardinalityType
  <2> QED
    BY <2>1, <2>2, <2>3
<1>2. A \cap R = R /\ (A \ R) \cap I = {}
  OBVIOUS
<1>3. IsFiniteSet(A \ R) /\ Cardinality(A \ R) = Cardinality(A) - Cardinality(R)
  <2>1. IsFiniteSet(A \ R) /\ Cardinality(A \ R) = Cardinality(A) - Cardinality(A \cap R)
    BY FS_Difference
  <2> QED
    BY <1>2, <2>1
<1>4. /\ IsFiniteSet((A \ R) \cup I)
      /\ Cardinality((A \ R) \cup I) = Cardinality(A \ R) + Cardinality(I) - Cardinality((A \ R) \cap I)
  BY <1>3, FS_Union
<1>5. Cardinality((A \ R) \cap I) = 0
  BY <1>2, FS_EmptySet
<1> QED
  BY <1>1, <1>3, <1>4, <1>5

\* Two finite sets without a common element.
LEMMA Together ==
  ASSUME NEW A, NEW B, NEW C, IsFiniteSet(A), IsFiniteSet(B), A \cap B = {}, C = A \cup B
  PROVE  /\ IsFiniteSet(C) /\ Cardinality(A) \in Nat /\ Cardinality(B) \in Nat
         /\ Cardinality(C) = Cardinality(A) + Cardinality(B)
<1>1. Cardinality(A) \in Nat /\ Cardinality(B) \in Nat
  BY FS_CardinalityType
<1>2. /\ IsFiniteSet(A \cup B)
      /\ Cardinality(A \cup B) = Cardinality(A) + Cardinality(B) - Cardinality(A \cap B)
  BY FS_Union
<1>3. Cardinality(A \cap B) = 0
  BY FS_EmptySet
<1> QED
  BY <1>1, <1>2, <1>3

\* A finite set of integers has an upper bound: a smallest one without a bound
\* would have one as soon as it loses an element.
LEMMA FiniteHasBound ==
  ASSUME NEW S \in SUBSET Int, IsFiniteSet(S)
  PROVE  \E b \in Int : \A x \in S : x <= b
<1> DEFINE Bounded(A) == \E b \in Int : \A x \in A : x <= b
           Bad == {n \in Nat : \E A \in SUBSET Int : IsFiniteSet(A) /\ Cardinality(A) = n /\ ~Bounded(A)}
<1>1. ASSUME Bad # {} PROVE FALSE
  <2>1. PICK n \in Bad : \A m \in Bad : n <= m
    BY <1>1, LeastNatural
  <2>2. PICK A \in SUBSET Int : IsFiniteSet(A) /\ Cardinality(A) = n /\ ~Bounded(A)
    BY <2>1
  <2>3. PICK x \in A : TRUE
    <3>1. A # {}
      BY <2>2
    <3> QED
      BY <3>1
  <2>4. IsFiniteSet(A \ {x}) /\ Cardinality(A \ {x}) = Cardinality(A) - 1
    BY <2>2, <2>3, FS_RemoveElement
  <2>5. Cardinality(A \ {x}) \in Nat
    BY <2>4, FS_CardinalityType
  <2>6. Bounded(A \ {x})
    <3>1. ~(n <= Cardinality(A \ {x}))
      BY <2>1, <2>2, <2>4, <2>5
    <3> QED
      BY <2>1, <2>2, <2>4, <2>5, <3>1
  <2>7. PICK b \in Int : \A y \in A \ {x} : y <= b
    BY <2>6
  <2>8. \A y \in A : y <= (IF x <= b THEN b ELSE x)
    BY <2>2, <2>3, <2>7
  <2>9. (IF x <= b THEN b ELSE x) \in Int
    BY <2>2, <2>3, <2>7
  <2> QED
    BY <2>2, <2>8, <2>9
<1>2. Cardinality(S) \in Nat
  BY FS_CardinalityType
<1> QED
  BY <1>1, <1>2
=============================================================================
