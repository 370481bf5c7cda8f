---------------------------- MODULE NumberLemmas ----------------------------
(***************************************************************************)
(* Sets of natural numbers: the least of one, and induction over one.      *)
(***************************************************************************)
EXTENDS Integers, FiniteSetsExt, FiniteSetTheorems, WellFoundedInduction

\* Among subsets of a finite set none has smaller and smaller subsets for ever:
\* take the least of the intervals below the elements.
LEMMA LeastNumber ==
    ASSUME NEW S, S \subseteq Nat, S # {}
    PROVE  \E m \in S : \A x \in S : m <= x
<1>1. PICK b \in S : TRUE
  OBVIOUS
<1> DEFINE U == 0 .. b
           T == {x \in SUBSET U : \E m \in S : m <= b /\ x = 0 .. m - 1}
<1>2. b \in Nat /\ IsFiniteSet(U)
  BY <1>1, FS_Interval
<1>3. IsWellFoundedOn(StrictSubsetOrdering(U), SUBSET U)
  BY <1>2, FS_StrictSubsetOrderingWellFounded, FS_FiniteSubsetsOfFinite
<1>4. T \subseteq SUBSET U /\ 0 .. b - 1 \in T
  BY <1>1, <1>2
<1>5. PICK x \in T : \A y \in T : ~ (<<y, x>> \in StrictSubsetOrdering(U))
  <2> HIDE DEF T, U
  <2>1. T # {}
    BY <1>4
  <2> QED
    BY <1>3, <1>4, <2>1, WFMin
<1>6. PICK m \in S : m <= b /\ x = 0 .. m - 1
  BY <1>5
<1>7. ASSUME NEW y \in S, ~ (m <= y)
      PROVE  FALSE
  <2>1. y \in Nat /\ m \in Nat /\ y < m /\ y <= b
    BY <1>2, <1>6, <1>7
  <2>2. 0 .. y - 1 \in T
    BY <1>2, <2>1, <1>7
  <2>3. 0 .. y - 1 \subseteq x /\ y \in x /\ y \notin 0 .. y - 1
    BY <1>6, <2>1
  <2>4. 0 .. y - 1 \subseteq x /\ 0 .. y - 1 # x
    BY <2>3
  <2>5. x \in SUBSET U /\ 0 .. y - 1 \in SUBSET U
    BY <1>5, <2>2
  <2>6. <<0 .. y - 1, x>> \in StrictSubsetOrdering(U)
    <3> HIDE DEF U
    <3> QED
      BY <2>4, <2>5 DEF StrictSubsetOrdering
  <2> QED
    BY <1>5, <2>2, <2>6
<1> QED
  BY <1>7

\* The least element of a set of natural numbers.
LEMMA MinIs ==
    ASSUME NEW S, S \subseteq Nat, S # {}
    PROVE  Min(S) \in S /\ \A x \in S : Min(S) <= x
<1>1. \E m \in S : \A x \in S : m <= x
  BY LeastNumber
<1> QED
  BY <1>1 DEF Min

\* A set that has 0, and with each number below N the next, has all of them.
LEMMA UpTo ==
    ASSUME NEW N \in Nat, NEW S, 0 \in S, \A d \in 0 .. N - 1 : d \in S => d + 1 \in S
    PROVE  \A d \in 0 .. N : d \in S
<1> DEFINE T == {d \in 0 .. N : d \notin S}
<1>1. ASSUME T # {}
      PROVE  FALSE
  <2>1. T \subseteq Nat
    OBVIOUS
  <2>2. PICK m \in T : \A x \in T : m <= x
    <3> HIDE DEF T
    <3> QED
      BY <1>1, <2>1, LeastNumber
  <2>3. m \in 0 .. N /\ m \notin S /\ m # 0
    BY <2>2
  <2>4. m - 1 \in 0 .. N - 1 /\ m - 1 \in 0 .. N /\ (m - 1) + 1 = m /\ ~ (m <= m - 1)
    BY <2>3
  <2>5. m - 1 \in S
    BY <2>2, <2>4
  <2> QED
    BY <2>3, <2>4, <2>5
<1> QED
  BY <1>1

=============================================================================
