------------------------------ MODULE Counting ------------------------------
(***************************************************************************)
(* Counting the elements of a set of numbers from its least one: how       *)
(* alloc_block takes the next free block, and how the entries that unlink  *)
(* keeps find their places.                                                *)
(***************************************************************************)
EXTENDS Integers, FiniteSetTheorems, FunctionTheorems, TLAPS

\* The rank of b in S.
Rank(S, b) == Cardinality({c \in S : c <= b})

\* A larger element has a larger rank, and no rank exceeds the size of the set.
LEMMA RankFacts ==
    ASSUME NEW S \in SUBSET Int, IsFiniteSet(S)
    PROVE  /\ Cardinality(S) \in Nat
           /\ \A b \in S : Rank(S, b) \in 1 .. Cardinality(S)
           /\ \A a, b \in S : a < b => Rank(S, a) < Rank(S, b)
           /\ \A a, b \in S : Rank(S, a) = Rank(S, b) => a = b
<1> DEFINE Upto(b) == {c \in S : c <= b}
<1>1. Cardinality(S) \in Nat
  BY FS_CardinalityType
<1>2. ASSUME NEW b \in S
      PROVE  IsFiniteSet(Upto(b)) /\ b \in Upto(b) /\ Cardinality(Upto(b)) \in 1 .. Cardinality(S)
  <2>1. Upto(b) \in SUBSET S /\ b \in Upto(b)
    OBVIOUS
  <2>2. IsFiniteSet(Upto(b)) /\ Cardinality(Upto(b)) <= Cardinality(S)
    BY <2>1, FS_Subset
  <2>3. Cardinality(Upto(b)) \in Nat /\ Cardinality(Upto(b)) # 0
    BY <2>1, <2>2, FS_CardinalityType, FS_EmptySet
  <2> QED
    BY <1>1, <2>1, <2>2, <2>3
<1>3. ASSUME NEW a \in S, NEW b \in S, a < b
      PROVE  Cardinality(Upto(a)) < Cardinality(Upto(b))
  <2>1. Upto(a) \in SUBSET Upto(b) /\ b \notin Upto(a)
    <3>1. a \in Int /\ b \in Int /\ \A c \in S : c \in Int
      OBVIOUS
    <3>2. ~ (b <= a) /\ \A c \in S : c <= a => c <= b
      BY <1>3, <3>1
    <3> QED
      BY <3>2
  <2>2. Cardinality(Upto(a)) <= Cardinality(Upto(b)) /\ Cardinality(Upto(b)) # Cardinality(Upto(a))
    BY <1>2, <2>1, FS_Subset
  <2> QED
    BY <1>1, <1>2, <2>2
<1>4. \A b \in S : Rank(S, b) = Cardinality(Upto(b))
  BY DEF Rank
<1>5. \A b \in S : Rank(S, b) \in 1 .. Cardinality(S)
  BY <1>2, <1>4
<1>6. \A a, b \in S : a < b => Rank(S, a) < Rank(S, b)
  BY <1>3, <1>4
<1>7. \A a, b \in S : a < b \/ a = b \/ b < a
  OBVIOUS
<1> QED
  BY <1>1, <1>5, <1>6, <1>7

\* Every number up to the size of the set is the rank of an element.
LEMMA RankOnto ==
    ASSUME NEW S \in SUBSET Int, IsFiniteSet(S), NEW n \in 1 .. Cardinality(S)
    PROVE  \E b \in S : Rank(S, b) = n
<1> DEFINE T == 1 .. Cardinality(S)
           f == [b \in S |-> Rank(S, b)]
<1>1. f \in [S -> T] /\ \A a, b \in S : f[a] = f[b] => a = b
  BY RankFacts
<1>2. f \in Injection(S, T)
  BY <1>1, Fun_IsInj
<1>3. Cardinality(S) \in Nat /\ IsFiniteSet(T) /\ Cardinality(T) = Cardinality(S)
  BY RankFacts, FS_Interval
<1>4. f \in Surjection(S, T)
  BY <1>2, <1>3, FS_Injection
<1>5. \A t \in T : \E b \in S : f[b] = t
  <2> HIDE DEF f, T
  <2> QED
    BY <1>4, Fun_SurjectionProperties
<1> QED
  BY <1>5

\* A set of numbers that is finite and not empty has a least element.
LEMMA LeastElement ==
    ASSUME NEW S \in SUBSET Int, IsFiniteSet(S), S # {}
    PROVE  \E m \in S : \A c \in S : m <= c
<1>1. Cardinality(S) \in Nat /\ Cardinality(S) # 0
  BY FS_CardinalityType, FS_EmptySet
<1>2. PICK m \in S : Rank(S, m) = 1
  BY <1>1, RankOnto
<1>3. \A c \in S : ~ (c < m)
  BY <1>2, RankFacts
<1> QED
  BY <1>3

=============================================================================
