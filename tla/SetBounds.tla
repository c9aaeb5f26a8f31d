----------------------------- MODULE SetBounds ------------------------------
(***************************************************************************)
(* The greatest and the least number of a set, as the community modules    *)
(* define them, and the induction they give: what the proofs about         *)
(* records, lists of waiters and recursive functions need to know.         *)
(***************************************************************************)
EXTENDS Integers, FiniteSetsExt, WellFoundedInduction, TLAPS

\* A set of numbers with a bound has a greatest element.
LEMMA MaxIn ==
    ASSUME NEW B \in Nat, NEW S \in SUBSET (0 .. B), S # {}
    PROVE  Max(S) \in S /\ \A y \in S : Max(S) >= y
  <1> DEFINE R == OpToRel(<, Nat)
             T == {B - x : x \in S}
  <1>1. IsWellFoundedOn(R, Nat)
    BY NatLessThanWellFounded
  <1>2. T \subseteq Nat
    OBVIOUS
  <1>3. T # {}
    <2>1. PICK x \in S : TRUE
      OBVIOUS
    <2>2. B - x \in T
      OBVIOUS
    <2> QED BY <2>2
  <1>4. \A a, b \in Nat : a < b => <<a, b>> \in R
    BY DEF OpToRel
  <1> HIDE DEF R
  <1>5. PICK m \in T : \A y \in T : ~(<<y, m>> \in R)
    BY <1>1, <1>2, <1>3, WFMin
  <1>6. PICK x \in S : m = B - x
    OBVIOUS
  <1>7. \A y \in S : x >= y
    <2> TAKE y \in S
    <2>1. B - y \in T
      OBVIOUS
    <2>2. ~(B - y < m)
      BY <1>2, <1>4, <1>5, <2>1
    <2> QED BY <2>2, <1>6
  <1> QED BY <1>7 DEF Max

\* A set of numbers has a least element.
LEMMA MinIn ==
    ASSUME NEW S \in SUBSET Nat, S # {}
    PROVE  /\ Min(S) \in S /\ \A y \in S : Min(S) <= y
           /\ \A n \in Int : n < Min(S) => n \notin S
  <1> DEFINE R == OpToRel(<, Nat)
  <1>1. IsWellFoundedOn(R, Nat)
    BY NatLessThanWellFounded
  <1>2. \A a, b \in Nat : a < b => <<a, b>> \in R
    BY DEF OpToRel
  <1> HIDE DEF R
  <1>3. PICK m \in S : \A y \in S : ~(<<y, m>> \in R)
    BY <1>1, WFMin
  <1>4. \A y \in S : m <= y
    <2> TAKE y \in S
    <2>1. m \in Nat /\ y \in Nat
      OBVIOUS
    <2>2. ~(y < m)
      BY <1>2, <1>3, <2>1
    <2> QED BY <2>1, <2>2
  <1>5. Min(S) \in S /\ \A y \in S : Min(S) <= y
    BY <1>4 DEF Min
  <1>6. Min(S) \in Nat
    BY <1>5
  <1> QED BY <1>5, <1>6

\* Of two numbers, Min and Max take one, and the right one.
LEMMA MinOfTwo ==
    ASSUME NEW a \in Int, NEW b \in Int
    PROVE  Min({a, b}) = IF a <= b THEN a ELSE b
  <1>1. \E x \in {a, b} : \A y \in {a, b} : x <= y
    OBVIOUS
  <1> QED BY <1>1 DEF Min

LEMMA MaxOfTwo ==
    ASSUME NEW a \in Int, NEW b \in Int
    PROVE  Max({a, b}) \in {a, b} /\ a <= Max({a, b}) /\ b <= Max({a, b})
  <1>1. \E x \in {a, b} : \A y \in {a, b} : x >= y
    OBVIOUS
  <1> QED BY <1>1 DEF Max

\* A function on 0 .. n is settled by its first value and by how each value
\* comes from the one before.
LEMMA SameFromStart ==
    ASSUME NEW n \in Nat, NEW f, NEW g, f[0] = g[0],
           \A i \in 1 .. n : f[i - 1] = g[i - 1] => f[i] = g[i]
    PROVE  f[n] = g[n]
  <1> SUFFICES ASSUME f[n] # g[n] PROVE FALSE
    OBVIOUS
  <1> DEFINE S == {i \in 0 .. n : f[i] # g[i]}
  <1>1. S \in SUBSET Nat /\ S # {}
    <2>1. n \in S
      OBVIOUS
    <2> QED BY <2>1
  <1>2. PICK k \in Nat : k = Min(S) /\ k \in S
    <2> HIDE DEF S
    <2> QED BY <1>1, MinIn
  <1>3. \A i \in Int : i < k => i \notin S
    <2> HIDE DEF S
    <2> QED BY <1>1, <1>2, MinIn
  <1>4. k \in 0 .. n /\ f[k] # g[k] /\ k # 0
    BY <1>2
  <1>5. k \in 1 .. n /\ k - 1 \in 0 .. n
    BY <1>4
  <1>6. k - 1 \notin S
    <2> HIDE DEF S
    <2> QED BY <1>3, <1>5
  <1>7. f[k - 1] = g[k - 1]
    BY <1>5, <1>6
  <1> QED BY <1>4, <1>5, <1>7
=============================================================================
