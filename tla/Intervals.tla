------------------------------- MODULE Intervals -------------------------------
(***************************************************************************)
(* Induction and recursion over the numbers 0..N, in the form the provers  *)
(* can use: of a set, or of a function that says each step.                *)
(***************************************************************************)
EXTENDS Integers, TLAPS, WellFoundedInduction

(* A set of numbers that is not empty has a least one.                     *)
LEMMA LeastElement ==
  ASSUME NEW S \in SUBSET Nat, S # {}
  PROVE  \E m \in S : \A x \in S : m =< x
<1>1. PICK m \in S : \A x \in S : ~ (<<x, m>> \in OpToRel(<, Nat))
  BY WFMin, NatLessThanWellFounded
<1>2. ASSUME NEW x \in S, x < m
      PROVE  <<x, m>> \in OpToRel(<, Nat)
  <2>1. x \in Nat /\ m \in Nat /\ x < m
    BY <1>2
  <2> QED
    BY <2>1 DEF OpToRel
<1>3. \A x \in S : x \in Nat /\ m \in Nat /\ ~ (x < m)
  BY <1>1, <1>2
<1>4. \A x \in S : m =< x
  BY <1>3
<1> QED
  BY <1>4

(* What holds of 0, and of k if it holds of k - 1, holds up to N: stated   *)
(* of a set, so that it can be used of any.                                *)
LEMMA SetInduction ==
  ASSUME NEW N \in Nat, NEW S, 0 \in S, \A k \in 1..N : k - 1 \in S => k \in S
  PROVE  0..N \subseteq S
<1> SUFFICES ASSUME (0..N) \ S # {} PROVE FALSE
  OBVIOUS
<1> DEFINE T == (0..N) \ S
<1>1. T \subseteq Nat /\ T # {}
  OBVIOUS
<1>2. PICK m \in T : \A x \in T : ~ (<<x, m>> \in OpToRel(<, Nat))
  BY <1>1, WFMin, NatLessThanWellFounded
<1>3. m # 0 /\ m \in 1..N /\ m - 1 \in Nat /\ m - 1 < m
  OBVIOUS
<1>4. m - 1 \in T
  BY <1>3
<1>5. <<m - 1, m>> \in OpToRel(<, Nat)
  BY <1>3 DEF OpToRel
<1> QED
  BY <1>2, <1>4, <1>5

(* A recursion over 0..N in a set defines a function: step says, of a      *)
(* place and the value before it, the value there.                         *)
Recurses(f, N, base, step) ==
  f[0] = base /\ \A k \in 1..N : f[k] = step[k][f[k - 1]]

(* There is such a function for every base and step.                       *)
LEMMA RecursionDefines ==
  ASSUME NEW N \in Nat, NEW A, NEW base \in A, NEW step \in [1..N -> [A -> A]]
  PROVE  \E f \in [0..N -> A] : Recurses(f, N, base, step)
<1> DEFINE Defined(f, m) == f[0] = base /\ \A k \in 1..m : f[k] = step[k][f[k - 1]]
           S == {m \in 0..N : \E f \in [0..m -> A] : Defined(f, m)}
<1>1. 0 \in S
  <2> DEFINE g == [k \in 0..0 |-> base]
  <2>1. g \in [0..0 -> A]
    OBVIOUS
  <2>2. Defined(g, 0)
    OBVIOUS
  <2> HIDE DEF g, Defined
  <2> QED
    BY <2>1, <2>2
<1>2. ASSUME NEW m \in 1..N, m - 1 \in S PROVE m \in S
  <2>1. PICK f \in [0..m - 1 -> A] : Defined(f, m - 1)
    BY <1>2
  <2> DEFINE g == [k \in 0..m |-> IF k = m THEN step[m][f[m - 1]] ELSE f[k]]
  <2>2. m - 1 \in 0..m - 1 /\ f[m - 1] \in A
    OBVIOUS
  <2>3. step[m][f[m - 1]] \in A
    BY <2>2
  <2>4. g \in [0..m -> A]
    BY <2>3
  <2>5. g[0] = base
    BY <2>1, <2>2
  <2>6. ASSUME NEW k \in 1..m PROVE g[k] = step[k][g[k - 1]]
    <3>1. k - 1 \in 0..m /\ k - 1 # m /\ k \in 0..m
      OBVIOUS
    <3>2. g[k - 1] = f[k - 1]
      BY <3>1
    <3>3. CASE k = m
      <4>1. g[k] = step[m][f[m - 1]]
        BY <3>1, <3>3
      <4> HIDE DEF g
      <4> QED
        BY <3>2, <3>3, <4>1
    <3>4. CASE k # m
      <4>1. g[k] = f[k] /\ k \in 1..m - 1
        BY <3>1, <3>4
      <4> HIDE DEF g
      <4> QED
        BY <2>1, <3>2, <4>1
    <3> QED
      BY <3>3, <3>4
  <2>7. Defined(g, m)
    BY <2>5, <2>6
  <2> HIDE DEF g, Defined
  <2> QED
    BY <2>4, <2>7
<1>3. N \in S
  <2> HIDE DEF S
  <2>1. 0..N \subseteq S
    BY <1>1, <1>2, SetInduction
  <2> QED
    BY <2>1
<1> QED
  BY <1>3 DEF Recurses

(* Recursion over 0..n that stays in a set.                                *)
RecursiveIn(f, n, base, step) ==
  /\ f = [k \in 0..n |-> f[k]] /\ f[0] = base
  /\ \A k \in 1..n : f[k - 1] \in DOMAIN step[k] /\ f[k] = step[k][f[k - 1]]

(* A loop over n things has a value at each of them.                       *)
LEMMA LoopsRun ==
  ASSUME NEW n \in Nat, NEW A, NEW base \in A, NEW step \in [1..n -> [A -> A]]
  PROVE  \E f \in [0..n -> A] : RecursiveIn(f, n, base, step)
<1>1. PICK f \in [0..n -> A] : Recurses(f, n, base, step)
  BY RecursionDefines
<1>2. \A k \in 1..n : k - 1 \in 0..n /\ step[k] \in [A -> A]
  OBVIOUS
<1> QED
  BY <1>1, <1>2 DEF Recurses, RecursiveIn

(* What the loop starts with and every turn keeps, it ends with.           *)
LEMMA LoopsKeep ==
  ASSUME NEW n \in Nat, NEW A, NEW f, f[0] \in A,
         \A k \in 1..n : f[k - 1] \in A => f[k] \in A
  PROVE  \A k \in 0..n : f[k] \in A
<1> DEFINE Good == {k \in 0..n : f[k] \in A}
<1>1. 0 \in Good /\ \A k \in 1..n : k - 1 \in Good => k \in Good
  OBVIOUS
<1> HIDE DEF Good
<1>2. 0..n \subseteq Good
  BY <1>1, SetInduction
<1> QED
  BY <1>2 DEF Good
==============================================================================
