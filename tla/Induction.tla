------------------------------ MODULE Induction ------------------------------
(***************************************************************************)
(* Induction over the natural numbers, from the well-foundedness of their  *)
(* order, and what it gives for a definition by recursion: the function it *)
(* speaks of is there.                                                     *)
(***************************************************************************)
EXTENDS Integers, WellFoundedInduction, TLAPS

Below == {p \in Nat \X Nat : p[1] < p[2]}

LEMMA BelowIsWellFounded == IsWellFoundedOn(Below, Nat)
<1>1. IsWellFoundedOn(OpToRel(<, Nat), Nat)
  BY NatLessThanWellFounded
<1>2. OpToRel(<, Nat) = Below
  BY DEF OpToRel, Below
<1> QED BY <1>1, <1>2

LEMMA Least ==
    ASSUME NEW T, T \subseteq Nat, T # {}
    PROVE  \E n \in T : \A m \in T : n <= m
<1>2. PICK n \in T : \A y \in T : ~(<<y, n>> \in Below)
  BY BelowIsWellFounded, WFMin
<1>3. ASSUME NEW m \in T, ~(n <= m) PROVE FALSE
  <2>1. m \in Nat /\ n \in Nat /\ m < n
    BY <1>3
  <2>2. <<m, n>> \in Nat \X Nat /\ <<m, n>>[1] = m /\ <<m, n>>[2] = n
    BY <2>1
  <2>3. <<m, n>> \in Below
    BY <2>1, <2>2 DEF Below
  <2> QED BY <2>3, <1>2
<1> QED BY <1>3

\* Induction: what holds of 0 and of the successor of each number it holds of, up to a bound.
LEMMA UpTo ==
    ASSUME NEW T, NEW n \in Nat, 0 \in T, \A i \in 1..n : i - 1 \in T => i \in T
    PROVE  0..n \subseteq T
<1> SUFFICES ASSUME NEW j \in 0..n, j \notin T PROVE FALSE
  OBVIOUS
<1> DEFINE Missing == (0..n) \ T
<1>1. PICK m \in Missing : \A k \in Missing : m <= k
  <2>1. Missing \subseteq Nat /\ Missing # {}
    OBVIOUS
  <2> QED BY <2>1, Least
<1>2. m \in 1..n /\ m - 1 \in 0..n
  BY <1>1
<1>3. m - 1 \in T
  BY <1>1, <1>2
<1> QED BY <1>1, <1>2, <1>3

\* A function that goes through a set from a first element, a step for each number.
Recurs(f, n, step, x) == f[0] = x /\ \A i \in 1..n : f[i] = step[i][f[i - 1]]

LEMMA RecursExist ==
    ASSUME NEW S, NEW n \in Nat, NEW step \in [1..n -> [S -> S]], NEW x \in S
    PROVE  \E f \in [0..n -> S] : Recurs(f, n, step, x)
<1> DEFINE T == {k \in 0..n : \E f \in [0..k -> S] : Recurs(f, k, step, x)}
<1>1. 0 \in T
  <2>1. [i \in 0..0 |-> x] \in [0..0 -> S] /\ Recurs([i \in 0..0 |-> x], 0, step, x)
    BY DEF Recurs
  <2> QED BY <2>1
<1>2. ASSUME NEW k \in 1..n, k - 1 \in T PROVE k \in T
  <2>1. PICK f \in [0..(k - 1) -> S] : Recurs(f, k - 1, step, x)
    BY <1>2
  <2> DEFINE g == [i \in 0..k |-> IF i = k THEN step[k][f[k - 1]] ELSE f[i]]
  <2>2. step[k] \in [S -> S] /\ f[k - 1] \in S
    BY <2>1
  <2>3. step[k][f[k - 1]] \in S
    BY <2>2
  <2>4. g \in [0..k -> S]
    BY <2>1, <2>3
  <2>5. Recurs(g, k, step, x)
    BY <2>1 DEF Recurs
  <2> QED BY <2>4, <2>5
<1> HIDE DEF T
<1>3. 0..n \subseteq T
  BY <1>1, <1>2, UpTo
<1> QED BY <1>3 DEF T
=============================================================================
