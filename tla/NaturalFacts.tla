---------------------------- MODULE NaturalFacts ----------------------------
(***************************************************************************)
(* Induction over the natural numbers, in terms of sets, and what follows  *)
(* from it: least and greatest elements, powers of two, and division by    *)
(* them.  The library's induction theorems have an operator as a parameter;*)
(* here the property is the set of the numbers that have it.  That finite  *)
(* sets are well-founded under inclusion is what it all rests on.          *)
(***************************************************************************)
EXTENDS Integers, FiniteSets, TLAPS, FiniteSetTheorems, FunctionTheorems, WellFoundedInduction

\* A set of numbers has a least one.
LEMMA LeastOf ==
  ASSUME NEW S \in SUBSET Nat, S # {}
  PROVE  \E m \in S : \A k \in S : m <= k
<1> DEFINE R == StrictSubsetOrdering(Nat)
           T == {0..k : k \in S}
<1>1. IsWellFoundedOn(R, FiniteSubsetsOf(Nat))
  BY FS_StrictSubsetOrderingWellFounded
<1>2. T \subseteq FiniteSubsetsOf(Nat) /\ T # {}
  <2>1. ASSUME NEW k \in S PROVE 0..k \in FiniteSubsetsOf(Nat)
    <3>1. k \in Int /\ 0..k \subseteq Nat
      OBVIOUS
    <3>2. IsFiniteSet(0..k)
      BY <3>1, FS_Interval
    <3> QED
      BY <3>1, <3>2 DEF FiniteSubsetsOf
  <2> QED
    BY <2>1
<1>3. \E x \in T : \A y \in T : ~(<<y, x>> \in R)
  <2> HIDE DEF R, T
  <2> QED
    BY <1>1, <1>2, WFMin
<1>4. PICK m \in S : \A k \in S : <<0..k, 0..m>> \notin R
  BY <1>3
<1>5. ASSUME NEW k \in S, k < m PROVE FALSE
  <2>1. m \in 0..m /\ m \notin 0..k /\ 0..k \subseteq 0..m
    BY <1>5
  <2>2. <<0..k, 0..m>> \in R
    BY <2>1 DEF StrictSubsetOrdering
  <2> QED
    BY <1>4, <2>2
<1> QED
  BY <1>4, <1>5

\* A bounded one has a greatest one.
LEMMA GreatestOf ==
  ASSUME NEW S \in SUBSET Nat, S # {}, NEW n \in Nat, \A k \in S : k <= n
  PROVE  \E m \in S : \A k \in S : k <= m
<1> DEFINE T == {n - k : k \in S}
<1>1. T \in SUBSET Nat /\ T # {}
  <2>1. \A k \in S : n - k \in Nat
    OBVIOUS
  <2> QED
    BY <2>1
<1>2. PICK t \in T : \A u \in T : t <= u
  BY <1>1, LeastOf
<1>3. PICK m \in S : t = n - m
  BY <1>2
<1>4. \A k \in S : n - m <= n - k
  BY <1>2, <1>3
<1> QED
  BY <1>3, <1>4

\* Induction from all smaller numbers.
LEMMA StrongInduction ==
  ASSUME NEW S, \A n \in Nat : (\A m \in Nat : m < n => m \in S) => n \in S
  PROVE  \A n \in Nat : n \in S
<1> SUFFICES ASSUME Nat \ S # {} PROVE FALSE
  OBVIOUS
<1>1. PICK n \in Nat \ S : \A k \in Nat \ S : n <= k
  BY LeastOf
<1> QED
  BY <1>1

\* Induction from the number before.
LEMMA Induction ==
  ASSUME NEW S, 0 \in S, \A n \in Nat : n \in S => n + 1 \in S
  PROVE  \A n \in Nat : n \in S
<1>1. ASSUME NEW n \in Nat, \A m \in Nat : m < n => m \in S PROVE n \in S
  <2>1. CASE n = 0
    BY <2>1
  <2>2. CASE n # 0
    <3>1. n - 1 \in Nat /\ n - 1 < n /\ (n - 1) + 1 = n
      BY <2>2
    <3> QED
      BY <1>1, <3>1
  <2> QED
    BY <2>1, <2>2
<1> QED
  BY <1>1, StrongInduction

-----------------------------------------------------------------------------
(* Powers of two and division.                                             *)

\* 2^n counts the subsets of a set of n elements; so it is known how it grows.
LEMMA PowerCardinality ==
  ASSUME NEW n \in Nat
  PROVE  IsFiniteSet(SUBSET (1..n)) /\ Cardinality(SUBSET (1..n)) = 2^n
<1>1. IsFiniteSet(1..n) /\ Cardinality(1..n) = n
  BY FS_Interval
<1> QED
  BY <1>1, FS_SUBSET

\* A power of two is a positive number.
LEMMA PowerType ==
  ASSUME NEW n \in Nat
  PROVE  2^n \in Nat /\ 2^n # 0
<1>1. {} \in SUBSET (1..n)
  OBVIOUS
<1> QED
  BY <1>1, PowerCardinality, FS_CardinalityType, FS_EmptySet

\* The next power is twice as much.
LEMMA PowerStep ==
  ASSUME NEW n \in Nat
  PROVE  2^(n + 1) = 2 * 2^n
<1> DEFINE A == SUBSET (1..n)
           B == {T \cup {n + 1} : T \in A}
           f == [T \in A |-> T \cup {n + 1}]
<1>1. n + 1 \notin 1..n /\ 1..(n + 1) = (1..n) \cup {n + 1}
  OBVIOUS
<1>2. f \in Bijection(A, B)
  <2>1. f \in Surjection(A, B)
    BY DEF Surjection
  <2>2. ASSUME NEW T \in A, NEW U \in A, f[T] = f[U] PROVE T = U
    <3>1. T \cup {n + 1} = U \cup {n + 1}
      BY <2>2
    <3>2. n + 1 \notin T /\ n + 1 \notin U
      BY <1>1
    <3> QED
      BY <3>1, <3>2
  <2>3. f \in Injection(A, B)
    BY <2>1, <2>2 DEF Injection, IsInjective, Surjection
  <2> QED
    BY <2>1, <2>3 DEF Bijection
<1>3. IsFiniteSet(A) /\ Cardinality(A) = 2^n
  BY PowerCardinality
<1>4. IsFiniteSet(B) /\ Cardinality(B) = 2^n
  <2>1. ExistsBijection(A, B)
    BY <1>2 DEF ExistsBijection
  <2> QED
    BY <1>3, <2>1, FS_Bijection
<1>5. A \cap B = {}
  BY <1>1
<1>6. SUBSET (1..(n + 1)) = A \cup B
  <2>1. ASSUME NEW T \in SUBSET (1..(n + 1)) PROVE T \in A \cup B
    <3>1. CASE n + 1 \in T
      <4>1. T \ {n + 1} \in A /\ T = (T \ {n + 1}) \cup {n + 1}
        BY <1>1, <3>1
      <4> QED
        BY <4>1
    <3>2. CASE n + 1 \notin T
      BY <1>1, <3>2
    <3> QED
      BY <3>1, <3>2
  <2>2. A \cup B \subseteq SUBSET (1..(n + 1))
    BY <1>1
  <2> QED
    BY <2>1, <2>2
<1>7. Cardinality(A \cup B) = Cardinality(A) + Cardinality(B) - Cardinality(A \cap B)
  BY <1>3, <1>4, FS_Union
<1>8. Cardinality(SUBSET (1..(n + 1))) = 2^(n + 1)
  BY PowerCardinality
<1>9. 2^n \in Nat
  BY PowerType
<1>10. Cardinality(A \cap B) = 0
  BY <1>5, FS_EmptySet
<1>11. Cardinality(A \cup B) = 2^(n + 1)
  BY <1>6, <1>8
<1> HIDE DEF A, B
<1>12. Cardinality(A \cup B) = 2^n + 2^n
  BY <1>3, <1>4, <1>7, <1>9, <1>10
<1> QED
  BY <1>9, <1>11, <1>12

\* 2^0 = 1.
LEMMA PowerZero == 2^0 = 1
  OBVIOUS

\* A greater exponent, a greater power.
LEMMA PowerMonotone ==
  ASSUME NEW a \in Nat, NEW b \in Nat, a < b
  PROVE  2^a < 2^b
<1> DEFINE S == {d \in Nat : 2^a < 2^(a + d + 1)}
<1>1. 0 \in S
  BY PowerType, PowerStep
<1>2. ASSUME NEW d \in Nat, d \in S PROVE d + 1 \in S
  <2>1. 2^(a + (d + 1) + 1) = 2 * 2^(a + d + 1)
    <3>1. a + d + 1 \in Nat /\ a + (d + 1) + 1 = (a + d + 1) + 1
      OBVIOUS
    <3> QED
      BY <3>1, PowerStep
  <2>2. 2^a \in Nat /\ 2^(a + d + 1) \in Nat /\ 2^a < 2^(a + d + 1)
    BY <1>2, PowerType
  <2> QED
    BY <2>1, <2>2
<1> HIDE DEF S
<1>3. \A d \in Nat : d \in S
  BY <1>1, <1>2, Induction
<1>4. b - a - 1 \in Nat /\ b - a - 1 \in S /\ a + (b - a - 1) + 1 = b
  BY <1>3
<1> QED
  BY <1>4 DEF S

\* A number is less than its power.
LEMMA PowerAbove ==
  ASSUME NEW n \in Nat
  PROVE  n < 2^n
<1> DEFINE S == {k \in Nat : k < 2^k}
<1>1. 0 \in S
  BY PowerZero
<1>2. ASSUME NEW k \in Nat, k \in S PROVE k + 1 \in S
  BY <1>2, PowerType, PowerStep
<1> HIDE DEF S
<1>3. n \in S
  BY <1>1, <1>2, Induction
<1> QED
  BY <1>3 DEF S

\* What division by a positive number gives.
LEMMA DivisionIs ==
  ASSUME NEW n \in Nat, NEW m \in Nat \ {0}
  PROVE  n \div m \in Nat /\ n = m * (n \div m) + (n % m) /\ n % m \in 0..(m - 1)
  OBVIOUS

\* Dividing by twice as much is halving the quotient.
LEMMA DivisionHalves ==
  ASSUME NEW n \in Nat, NEW m \in Nat \ {0}
  PROVE  n \div (2 * m) = (n \div m) \div 2
  OBVIOUS

\* So is dividing half of it.
LEMMA DivisionNested ==
  ASSUME NEW n \in Nat, NEW m \in Nat \ {0}
  PROVE  (n \div 2) \div m = n \div (2 * m)
  OBVIOUS

\* The ancestor k + 1 levels up is the one k levels above the parent.
LEMMA AncestorStep ==
  ASSUME NEW n \in Nat, NEW k \in Nat
  PROVE  n \div 2^(k + 1) = (n \div 2) \div 2^k /\ n \div 2^k \in Nat
<1>1. 2^k \in Nat \ {0} /\ 2^(k + 1) = 2 * 2^k
  BY PowerType, PowerStep
<1> QED
  BY <1>1, DivisionNested, DivisionIs

\* The exponent of a power that is reached first.
LEMMA FirstPower ==
  ASSUME NEW n \in Nat
  PROVE  \E d \in Nat : d <= n /\ n < 2^d /\ (d # 0 => 2^(d - 1) <= n)
<1> DEFINE S == {d \in Nat : n < 2^d}
<1>1. n \in S
  BY PowerAbove
<1>2. PICK d \in S : \A e \in S : d <= e
  BY <1>1, LeastOf
<1>3. ASSUME d # 0 PROVE 2^(d - 1) <= n
  <2>1. d - 1 \in Nat /\ ~(d <= d - 1)
    BY <1>3
  <2>2. ~(n < 2^(d - 1))
    BY <1>2, <2>1
  <2> QED
    BY <2>1, <2>2, PowerType
<1> QED
  BY <1>1, <1>2, <1>3
=============================================================================
