----------------------------- MODULE Arithmetic -----------------------------
(***************************************************************************)
(* What the proofs need to know of numbers: Min and Max of FiniteSetsExt   *)
(* on the sets of naturals that the models take them of, powers of two,    *)
(* and induction up to a number.                                           *)
(***************************************************************************)
EXTENDS Integers, FiniteSetsExt, TLAPS, WellFoundedInduction, FiniteSetTheorems

LEMMA MinPair ==
    ASSUME NEW a \in Int, NEW b \in Int
    PROVE  Min({a, b}) = IF a <= b THEN a ELSE b
<1> DEFINE m == IF a <= b THEN a ELSE b
<1>1. m \in {a, b} /\ \A y \in {a, b} : m =< y
  OBVIOUS
<1>2. \A x \in {a, b} : (\A y \in {a, b} : x =< y) => x = m
  OBVIOUS
<1> HIDE DEF m
<1>3. Min({a, b}) = m
  BY <1>1, <1>2 DEF Min
<1> QED
  BY <1>3 DEF m

LEMMA MaxPair ==
    ASSUME NEW a \in Int, NEW b \in Int
    PROVE  Max({a, b}) = IF a >= b THEN a ELSE b
<1> DEFINE m == IF a >= b THEN a ELSE b
<1>1. m \in {a, b} /\ \A y \in {a, b} : m >= y
  OBVIOUS
<1>2. \A x \in {a, b} : (\A y \in {a, b} : x >= y) => x = m
  OBVIOUS
<1> HIDE DEF m
<1>3. Max({a, b}) = m
  BY <1>1, <1>2 DEF Max
<1> QED
  BY <1>3 DEF m

(* The order of the naturals as a relation. *)
LEMMA NatOrder ==
    \E Lt : /\ IsWellFoundedOn(Lt, Nat)
            /\ \A m, n \in Nat : m < n => <<m, n>> \in Lt
<1>1. OpToRel(<, Nat) = {p \in Nat \X Nat : p[1] < p[2]}
  BY DEF OpToRel
<1>2. IsWellFoundedOn({p \in Nat \X Nat : p[1] < p[2]}, Nat)
  BY <1>1, NatLessThanWellFounded
<1>3. \A m, n \in Nat : m < n => <<m, n>> \in {p \in Nat \X Nat : p[1] < p[2]}
  OBVIOUS
<1> QED
  BY <1>2, <1>3

(* The least of some naturals is one of them, and none is less. *)
LEMMA MinOfNats ==
    ASSUME NEW S \in SUBSET Nat, S # {}
    PROVE  Min(S) \in S /\ \A y \in S : Min(S) =< y
<1>1. PICK Lt : /\ IsWellFoundedOn(Lt, Nat)
                /\ \A m, n \in Nat : m < n => <<m, n>> \in Lt
  BY NatOrder
<1>2. IsWellFoundedOn(Lt, Nat)
  BY <1>1
<1>3. PICK x \in S : \A y \in S : ~(<<y, x>> \in Lt)
  BY <1>2, WFMin
<1>4. ASSUME NEW y \in S PROVE x =< y
  <2>1. ~(<<y, x>> \in Lt)
    BY <1>3
  <2>2. ~(y < x)
    BY <1>1, <2>1
  <2> QED
    BY <2>2
<1> QED
  BY <1>4 DEF Min

(* The greatest of five naturals. *)
LEMMA MaxOfFive ==
    ASSUME NEW a \in Nat, NEW b \in Nat, NEW c \in Nat, NEW d \in Nat, NEW e \in Nat
    PROVE  /\ \A n \in {a, b, c, d, e} : n <= Max({a, b, c, d, e})
           /\ Max({a, b, c, d, e}) \in Nat
<1> DEFINE S == {a, b, c, d, e}
           Greater(m, n) == IF m >= n THEN m ELSE n
           m == Greater(Greater(Greater(a, b), Greater(c, d)), e)
<1>1. m \in S /\ \A n \in S : m >= n
  OBVIOUS
<1> HIDE DEF m
<1>2. \E k \in S : \A n \in S : k >= n
  BY <1>1
<1>3. \A n \in S : Max(S) >= n
  BY <1>2 DEF Max
<1>4. Max(S) \in S
  BY <1>2 DEF Max
<1>5. Max(S) \in Nat
  BY <1>4
<1> HIDE DEF S
<1>6. \A n \in S : n \in Nat
  BY DEF S
<1>7. \A n \in S : n <= Max(S)
  BY <1>3, <1>5, <1>6
<1> QED
  BY <1>5, <1>7 DEF S

-----------------------------------------------------------------------------
(* Induction up to a number, over a set of numbers. *)
LEMMA UpTo ==
    ASSUME NEW n \in Nat, NEW S, 0 \in S, \A k \in 1 .. n : k - 1 \in S => k \in S
    PROVE  \A k \in 0 .. n : k \in S
<1> DEFINE Rest == {k \in Nat : k <= n /\ k \notin S}
           m == Min(Rest)
<1>1. SUFFICES ASSUME Rest # {} PROVE FALSE
  OBVIOUS
<1>2. m \in Rest /\ \A y \in Rest : m =< y
  <2>1. Rest \in SUBSET Nat
    OBVIOUS
  <2> HIDE DEF Rest
  <2> QED
    BY <1>1, <2>1, MinOfNats
<1> HIDE DEF m
<1>3. m \in 1 .. n /\ m \notin S
  BY <1>2
<1>4. m - 1 \notin Rest
  BY <1>2, <1>3
<1> QED
  BY <1>3, <1>4

(* Twice as many subsets has a set of one more element. *)
LEMMA PowerStep ==
    ASSUME NEW n \in Nat
    PROVE  2 ^ n \in Nat /\ 2 ^ (n + 1) = 2 * 2 ^ n
<1> DEFINE S == SUBSET (1 .. n)
           T == {A \in SUBSET (1 .. n + 1) : n + 1 \in A}
           with == [A \in S |-> A \union {n + 1}]
<1>1. IsFiniteSet(1 .. n) /\ Cardinality(1 .. n) = n
  BY FS_Interval
<1>2. IsFiniteSet(1 .. n + 1) /\ Cardinality(1 .. n + 1) = n + 1
  BY FS_Interval
<1>3. IsFiniteSet(S) /\ Cardinality(S) = 2 ^ n
  BY <1>1, FS_SUBSET
<1>4. Cardinality(SUBSET (1 .. n + 1)) = 2 ^ (n + 1)
  BY <1>2, FS_SUBSET
<1>5. SUBSET (1 .. n + 1) = S \union T /\ S \intersect T = {}
  OBVIOUS
<1>6. with \in Bijection(S, T)
  <2>1. with \in [S -> T]
    OBVIOUS
  <2>2. \A A, B \in S : with[A] = with[B] => A = B
    OBVIOUS
  <2>3. \A B \in T : B \ {n + 1} \in S /\ with[B \ {n + 1}] = B
    <3>1. SUFFICES ASSUME NEW B \in T PROVE B \ {n + 1} \in S /\ with[B \ {n + 1}] = B
      OBVIOUS
    <3>2. B \ {n + 1} \in S
      OBVIOUS
    <3>3. (B \ {n + 1}) \union {n + 1} = B
      OBVIOUS
    <3> QED
      BY <3>2, <3>3
  <2> QED
    BY <2>1, <2>2, <2>3 DEF Bijection, Injection, Surjection, IsInjective
<1>7. IsFiniteSet(T) /\ Cardinality(T) = Cardinality(S)
  BY <1>3, <1>6, FS_Bijection DEF ExistsBijection
<1>8. Cardinality(S \union T) = Cardinality(S) + Cardinality(T) - Cardinality(S \intersect T)
  BY <1>3, <1>7, FS_Union
<1>9. Cardinality(S) \in Nat
  BY <1>3, FS_CardinalityType
<1>10. Cardinality(S \intersect T) = 0
  BY <1>5, FS_EmptySet
<1> HIDE DEF S, T, with
<1>11. Cardinality(S \union T) = 2 * Cardinality(S)
  BY <1>7, <1>8, <1>9, <1>10
<1>12. 2 ^ (n + 1) = 2 * Cardinality(S)
  BY <1>4, <1>5, <1>11
<1> QED
  BY <1>3, <1>9, <1>12

LEMMA PowerZero == 2 ^ 0 = 1
OBVIOUS

(* A larger exponent gives no smaller power. *)
LEMMA PowerMonotone ==
    ASSUME NEW m \in Nat, NEW n \in Nat, m <= n
    PROVE  2 ^ m <= 2 ^ n /\ 2 ^ m \in Nat \ {0} /\ 2 ^ n \in Nat
<1>1. ASSUME NEW a \in Nat, NEW b \in Nat PROVE 2 ^ a \in Nat \ {0} /\ 2 ^ a <= 2 ^ (a + b)
  <2> DEFINE S == {k \in Nat : 2 ^ k \in Nat \ {0}}
             L == {k \in Nat : 2 ^ a <= 2 ^ (a + k)}
  <2>1. 0 \in S
    BY PowerZero
  <2>2. \A k \in 1 .. a : k - 1 \in S => k \in S
    <3>1. ASSUME NEW k \in 1 .. a, k - 1 \in S PROVE 2 ^ k \in Nat \ {0}
      <4>1. k - 1 \in Nat /\ (k - 1) + 1 = k
        OBVIOUS
      <4>2. 2 ^ k = 2 * 2 ^ (k - 1)
        BY <4>1, PowerStep
      <4>3. 2 ^ (k - 1) \in Nat \ {0}
        BY <3>1
      <4> QED
        BY <4>2, <4>3
    <3> QED
      BY <3>1
  <2>3. \A k \in 0 .. a : k \in S
    <3> HIDE DEF S
    <3> QED
      BY <2>1, <2>2, UpTo
  <2>4. 2 ^ a \in Nat \ {0}
    BY <2>3
  <2>5. 0 \in L
    BY <2>4
  <2>6. \A k \in 1 .. b : k - 1 \in L => k \in L
    <3>1. ASSUME NEW k \in 1 .. b, k - 1 \in L PROVE 2 ^ a <= 2 ^ (a + k)
      <4>1. a + (k - 1) \in Nat /\ (a + (k - 1)) + 1 = a + k
        OBVIOUS
      <4>2. 2 ^ (a + k) = 2 * 2 ^ (a + (k - 1)) /\ 2 ^ (a + (k - 1)) \in Nat
        BY <4>1, PowerStep
      <4>3. 2 ^ a <= 2 ^ (a + (k - 1))
        BY <3>1
      <4> QED
        BY <2>4, <4>2, <4>3
    <3> QED
      BY <3>1
  <2>7. \A k \in 0 .. b : k \in L
    <3> HIDE DEF L
    <3> QED
      BY <2>5, <2>6, UpTo
  <2> QED
    BY <2>4, <2>7
<1>2. n - m \in Nat /\ m + (n - m) = n
  OBVIOUS
<1>3. 2 ^ m \in Nat \ {0} /\ 2 ^ m <= 2 ^ n
  BY <1>1, <1>2
<1> QED
  BY <1>3, PowerStep
=============================================================================
