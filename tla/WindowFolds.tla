----------------------------- MODULE WindowFolds -----------------------------
(***************************************************************************)
(* Induction along an observation window.  An operator folded over a       *)
(* window is a recursive function of how many observations were taken;     *)
(* that there is such a function, and that what each observation keeps the *)
(* whole window keeps, rests on the well-foundedness of the naturals.      *)
(* There is no parameter for the operator: it is given as a function.      *)
(***************************************************************************)
EXTENDS Naturals, WellFoundedInduction, TLAPS

\* What holds of 0, and of every number after one it holds of, holds of all.
LEMMA Induction ==
    ASSUME NEW S, 0 \in S, \A k \in Nat : k \in S => k + 1 \in S
    PROVE  Nat \subseteq S
<1> DEFINE R == OpToRel(<, Nat)
           T == Nat \ S
<1> SUFFICES ASSUME T # {} PROVE FALSE
  OBVIOUS
<1>1. IsWellFoundedOn(R, Nat)
  BY NatLessThanWellFounded
<1>2. PICK m \in T : \A k \in T : ~(<<k, m>> \in R)
  <2>1. T \subseteq Nat /\ T # {}
    OBVIOUS
  <2> HIDE DEF R, T
  <2> QED
    BY <1>1, <2>1, WFMin
<1>3. \A k \in T : ~(k < m)
  BY <1>2 DEF OpToRel
<1>4. m - 1 \in Nat /\ m - 1 \notin S
  OBVIOUS
<1> QED
  BY <1>3, <1>4

\* What holds before a window, and after each observation, holds after the window.
LEMMA Along ==
    ASSUME NEW n \in Nat, NEW S, 0 \in S, \A k \in 1..n : k - 1 \in S => k \in S
    PROVE  0..n \subseteq S
<1> DEFINE T == {k \in Nat : k \in 0..n => k \in S}
<1>1. 0 \in T
  OBVIOUS
<1>2. ASSUME NEW k \in Nat, k \in T PROVE k + 1 \in T
  <2>1. CASE k + 1 \in 1..n
    BY <1>2, <2>1
  <2>2. CASE k + 1 \notin 1..n
    BY <2>2
  <2> QED
    BY <2>1, <2>2
<1> HIDE DEF T
<1>3. Nat \subseteq T
  BY <1>1, <1>2, Induction
<1> QED
  BY <1>3 DEF T

\* next[k] is the k-th of n steps from values of T to values of T; f is where they lead.
Steps(next, n, T) == next \in [1..n -> [T -> T]]
Leads(f, x, next, n, T) ==
    f \in [0..n -> T] /\ f[0] = x /\ \A k \in 1..n : f[k] = next[k][f[k - 1]]

\* A step for each observation can be taken along a whole window.
LEMMA FoldExists ==
    ASSUME NEW T, NEW n \in Nat, NEW x \in T, NEW next, Steps(next, n, T)
    PROVE  \E f : Leads(f, x, next, n, T)
<1> USE DEF Steps, Leads
<1> DEFINE Upto(m, f) == f[0] = x /\ \A k \in 1..m : f[k] = next[k][f[k - 1]]
           Reached(m) == \E f \in [0..m -> T] : Upto(m, f)
           S == {m \in 0..n : Reached(m)}
<1>1. Reached(0)
  <2>1. [k \in 0..0 |-> x] \in [0..0 -> T] /\ Upto(0, [k \in 0..0 |-> x])
    OBVIOUS
  <2> HIDE DEF Upto
  <2> QED
    BY <2>1
<1>2. ASSUME NEW m \in 1..n, Reached(m - 1) PROVE Reached(m)
  <2>1. PICK f \in [0..(m - 1) -> T] : Upto(m - 1, f)
    BY <1>2
  <2> DEFINE g == [k \in 0..m |-> IF k = m THEN next[m][f[m - 1]] ELSE f[k]]
  <2>2. g \in [0..m -> T]
    OBVIOUS
  <2>3. Upto(m, g)
    BY <2>1
  <2> HIDE DEF Upto, g
  <2> QED
    BY <2>2, <2>3
<1> HIDE DEF Reached
<1>3. 0..n \subseteq S
  <2>1. 0 \in S /\ \A m \in 1..n : m - 1 \in S => m \in S
    BY <1>1, <1>2
  <2> HIDE DEF S
  <2> QED
    BY <2>1, Along
<1>4. Reached(n)
  BY <1>3
<1> QED
  BY <1>4 DEF Reached
=============================================================================
