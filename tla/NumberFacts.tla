----------------------------- MODULE NumberFacts -----------------------------
(***************************************************************************)
(* Arithmetic that the proofs about kernel tables need: indices that wrap  *)
(* around, and the least element that a search from the front finds.       *)
(***************************************************************************)
EXTENDS Integers, FiniteSetsExt, WellFoundedInduction, TLAPS

\* An index into a ring of n places, at most once around.
LEMMA RingIndex ==
  ASSUME NEW n \in Nat \ {0}, NEW a \in 0..(2 * n - 1)
  PROVE  a % n = (IF a < n THEN a ELSE a - n) /\ a % n \in 0..(n - 1)
<1>1. CASE a < n
  <2>1. a \in 0..(n - 1)
    BY <1>1
  <2>2. a % n = a
    BY <2>1, Z3
  <2> QED BY <2>1, <2>2, <1>1
<1>2. CASE ~(a < n)
  <2>1. a \in n..(2 * n - 1)
    BY <1>2
  <2>2. a % n = a - n
    BY <2>1, Z3
  <2> QED BY <2>1, <2>2, <1>2
<1> QED BY <1>1, <1>2

\* The smaller and the larger of two numbers.
LEMMA MinMaxOfTwo ==
  ASSUME NEW a \in Int, NEW b \in Int
  PROVE  /\ Min({a, b}) = IF a <= b THEN a ELSE b
         /\ Max({a, b}) = IF a >= b THEN a ELSE b
<1>1. Min({a, b}) = IF a <= b THEN a ELSE b
  <2> DEFINE m == IF a <= b THEN a ELSE b
  <2>1. m \in {a, b} /\ \A y \in {a, b} : m <= y
    OBVIOUS
  <2>2. ASSUME NEW x \in {a, b}, \A y \in {a, b} : x <= y
        PROVE  x = m
    BY <2>1, <2>2
  <2> HIDE DEF m
  <2>3. Min({a, b}) = m
    BY <2>1, <2>2 DEF Min
  <2> QED BY <2>3 DEF m
<1>2. Max({a, b}) = IF a >= b THEN a ELSE b
  <2> DEFINE m == IF a >= b THEN a ELSE b
  <2>1. m \in {a, b} /\ \A y \in {a, b} : m >= y
    OBVIOUS
  <2>2. ASSUME NEW x \in {a, b}, \A y \in {a, b} : x >= y
        PROVE  x = m
    BY <2>1, <2>2
  <2> HIDE DEF m
  <2>3. Max({a, b}) = m
    BY <2>1, <2>2 DEF Max
  <2> QED BY <2>3 DEF m
<1> QED BY <1>1, <1>2

\* The least of a set of numbers.
LEMMA LeastNumber ==
  ASSUME NEW S \in SUBSET Nat, S # {}
  PROVE  Min(S) \in S /\ \A j \in S : Min(S) <= j
<1> DEFINE less == {ss \in Nat \X Nat : ss[1] < ss[2]}
<1>1. IsWellFoundedOn(less, Nat)
  BY NatLessThanWellFounded DEF OpToRel
<1>2. PICK i \in S : \A j \in S : ~(<<j, i>> \in less)
  <2> HIDE DEF less
  <2> QED BY <1>1, WFMin
<1>3. ASSUME NEW j \in S
      PROVE  i <= j
  <2>1. i \in Nat /\ j \in Nat /\ ~(j < i)
    BY <1>2
  <2> QED BY <2>1
<1> QED BY <1>3 DEF Min

\* Induction up to n, with the property as the set of the numbers that have it.
LEMMA UpTo ==
  ASSUME NEW n \in Nat, NEW S, 0 \in S, \A k \in 1..n : k - 1 \in S => k \in S
  PROVE  \A k \in 0..n : k \in S
<1> DEFINE out == {k \in 0..n : k \notin S}
<1> SUFFICES ASSUME out # {} PROVE FALSE
  OBVIOUS
<1>1. out \in SUBSET Nat
  OBVIOUS
<1>2. PICK m : m = Min(out)
  OBVIOUS
<1>3. m \in out /\ \A j \in out : m <= j
  BY <1>1, <1>2, LeastNumber
<1>4. m \in 1..n /\ m - 1 \notin out /\ m - 1 \in 0..n
  <2>1. m # 0
    BY <1>3
  <2> QED BY <1>3, <2>1
<1>5. m - 1 \in S
  BY <1>4
<1> QED BY <1>3, <1>4, <1>5

\* f goes through n states of X from a on, each made from the one before.
IsRun(f, n, X, a, step) ==
  /\ f \in [0..n -> X] /\ f[0] = a
  /\ \A k \in 1..n : f[k] = step[k][f[k - 1]]

AreSteps(step, n, X) == step \in [1..n -> [X -> X]]

\* There is a run through any sequence of steps that stay in X.
LEMMA StepsExist ==
  ASSUME NEW n \in Nat, NEW X, NEW a \in X, NEW step, AreSteps(step, n, X)
  PROVE  \E f : IsRun(f, n, X, a, step)
<1> DEFINE S == {m \in 0..n : \E f : IsRun(f, m, X, a, step)}
<1>0. step \in [1..n -> [X -> X]]
  BY DEF AreSteps
<1>1. 0 \in S
  <2>1. IsRun([k \in 0..0 |-> a], 0, X, a, step)
    BY DEF IsRun
  <2> QED BY <2>1
<1>2. ASSUME NEW k \in 1..n, k - 1 \in S
      PROVE  k \in S
  <2>1. PICK f : IsRun(f, k - 1, X, a, step)
    BY <1>2
  <2> DEFINE g == [j \in 0..k |-> IF j = k THEN step[k][f[k - 1]] ELSE f[j]]
  <2>2. f \in [0..(k - 1) -> X] /\ f[k - 1] \in X
    BY <2>1 DEF IsRun
  <2>3. step[k][f[k - 1]] \in X
    BY <2>2, <1>0
  <2>4. g \in [0..k -> X]
    BY <2>2, <2>3
  <2>5. g[0] = a
    BY <2>1 DEF IsRun
  <2>6. ASSUME NEW j \in 1..k
        PROVE  g[j] = step[j][g[j - 1]]
    <3>1. g[j - 1] = f[j - 1]
      OBVIOUS
    <3>2. CASE j = k
      BY <3>1, <3>2
    <3>3. CASE j # k
      <4>1. j \in 1..(k - 1)
        BY <3>3
      <4>2. f[j] = step[j][f[j - 1]]
        BY <2>1, <4>1 DEF IsRun
      <4> QED BY <3>1, <4>1, <4>2
    <3> QED BY <3>2, <3>3
  <2>7. IsRun(g, k, X, a, step)
    <3> HIDE DEF g
    <3> QED BY <2>4, <2>5, <2>6 DEF IsRun
  <2> HIDE DEF g
  <2> QED BY <2>7
<1>3. n \in S
  <2> HIDE DEF S
  <2>1. \A k \in 0..n : k \in S
    BY <1>1, <1>2, UpTo
  <2> QED BY <2>1
<1> QED BY <1>3

\* Division with remainder.
LEMMA DivMod ==
  ASSUME NEW a \in Nat, NEW b \in Nat \ {0}
  PROVE  a \div b \in Nat /\ a % b \in 0..(b - 1) /\ a = (a \div b) * b + (a % b)
  OBVIOUS

\* There is one way to divide.
LEMMA DivModUnique ==
  ASSUME NEW a \in Nat, NEW b \in Nat \ {0}, NEW q \in Nat, NEW r \in 0..(b - 1), a = q * b + r
  PROVE  a \div b = q /\ a % b = r
  OBVIOUS
=============================================================================
