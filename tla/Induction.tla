----------------------------- MODULE Induction -----------------------------
(***************************************************************************)
(* Induction over positions, in the two forms that the proofs need: a set  *)
(* of natural numbers has a least element (take the numbers that lack a    *)
(* property), and a recursion over the positions of a log or a sequence    *)
(* defines a function.                                                     *)
(***************************************************************************)
EXTENDS Integers, FiniteSetTheorems, WellFoundedInduction, TLAPS

(* A nonempty set of natural numbers has a least element.                   *)
LEMMA LeastElement ==
  ASSUME NEW T \in SUBSET Nat, T # {}
  PROVE  \E m \in T : \A k \in T : m <= k
<1> DEFINE I == {0..m : m \in T}
           R == StrictSubsetOrdering(Nat)
<1>1. I \subseteq FiniteSubsetsOf(Nat)
  <2> SUFFICES ASSUME NEW m \in T PROVE 0..m \in FiniteSubsetsOf(Nat)
    OBVIOUS
  <2>1. IsFiniteSet(0..m)
    BY FS_Interval
  <2> QED
    BY <2>1 DEF FiniteSubsetsOf
<1>2. I # {}
  OBVIOUS
<1>3. IsWellFoundedOn(R, FiniteSubsetsOf(Nat))
  BY FS_StrictSubsetOrderingWellFounded
<1>4. PICK x \in I : \A y \in I : ~(<<y, x>> \in R)
  <2> HIDE DEF I, R
  <2> QED BY <1>1, <1>2, <1>3, WFMin
<1>5. PICK m \in T : x = 0..m
  OBVIOUS
<1>6. ASSUME NEW k \in T, ~(m <= k)
      PROVE  FALSE
  <2>1. 0..k \in I /\ 0..k \subseteq 0..m /\ 0..k # 0..m
    BY <1>6
  <2>2. <<0..k, 0..m>> \in R
    BY <2>1 DEF StrictSubsetOrdering
  <2> QED
    BY <1>4, <1>5, <2>1, <2>2
<1> QED
  BY <1>6

(* Recursion from s over the positions 1..n, step[k] being the k-th step:  *)
(* the function it defines exists ...                                      *)
Recursion(f, S, n, s, step) ==
  /\ f \in [0..n -> S]
  /\ f[0] = s
  /\ \A k \in 1..n : f[k] = step[k][f[k - 1]]

(* ... for any steps within a set.                                         *)
LEMMA RecursionExists ==
  ASSUME NEW S, NEW n \in Nat, NEW s \in S, NEW step \in [1..n -> [S -> S]]
  PROVE  \E f : Recursion(f, S, n, s, step)
<1> DEFINE T == {m \in 0..n : ~ \E f : Recursion(f, S, m, s, step)}
<1>1. SUFFICES ASSUME T # {} PROVE FALSE
  OBVIOUS
<1>2. PICK m \in T : \A k \in T : m <= k
  <2>1. T \in SUBSET Nat
    OBVIOUS
  <2> HIDE DEF T
  <2> QED
    BY <1>1, <2>1, LeastElement
<1>3. m \in 0..n /\ ~ \E f : Recursion(f, S, m, s, step)
  OBVIOUS
<1>4. CASE m = 0
  <2>1. Recursion([k \in 0..0 |-> s], S, 0, s, step)
    BY DEF Recursion
  <2> QED
    BY <1>3, <1>4, <2>1
<1>5. CASE m # 0
  <2>1. m - 1 \in 0..n /\ ~(m <= m - 1)
    BY <1>3, <1>5
  <2>2. PICK f : Recursion(f, S, m - 1, s, step)
    BY <1>2, <2>1
  <2> DEFINE g == [k \in 0..m |-> IF k = m THEN step[m][f[m - 1]] ELSE f[k]]
  <2>3. f \in [0..m - 1 -> S] /\ f[0] = s /\ \A k \in 1..m - 1 : f[k] = step[k][f[k - 1]]
    BY <2>2 DEF Recursion
  <2>4. m \in 1..n /\ m - 1 \in 0..m - 1
    BY <1>3, <1>5
  <2>5. step[m][f[m - 1]] \in S
    BY <2>3, <2>4
  <2>6. \A k \in 0..m : k = m \/ k \in 0..m - 1
    BY <1>3
  <2>7. g \in [0..m -> S]
    BY <2>3, <2>5, <2>6
  <2>8. g[0] = s
    BY <1>3, <1>5, <2>3
  <2>9. ASSUME NEW k \in 1..m PROVE g[k] = step[k][g[k - 1]]
    <3>1. k - 1 \in 0..m /\ k - 1 # m /\ k \in 0..m
      BY <1>3
    <3>2. g[k - 1] = f[k - 1]
      BY <3>1
    <3>3. CASE k = m
      BY <3>1, <3>2, <3>3
    <3>4. CASE k # m
      <4>1. k \in 1..m - 1
        BY <1>3, <3>4
      <4> QED
        BY <2>3, <3>1, <3>2, <3>4, <4>1
    <3> QED
      BY <3>3, <3>4
  <2> HIDE DEF g
  <2>10. Recursion(g, S, m, s, step)
    BY <2>7, <2>8, <2>9 DEF Recursion
  <2> QED
    BY <1>3, <2>10
<1> QED
  BY <1>4, <1>5
=============================================================================
