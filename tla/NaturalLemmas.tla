---------------------------- MODULE NaturalLemmas ----------------------------
(***************************************************************************)
(* Induction for the other proof modules.  The library's theorems about it *)
(* take a predicate as a parameter, which the provers cannot instantiate.  *)
(* Here it is a set of numbers, and the step of a recursion is a function: *)
(* both follow from the well-foundedness of the order of the numbers.      *)
(***************************************************************************)
EXTENDS Integers, TLAPS, WellFoundedInduction

Less == {pair \in Nat \X Nat : pair[1] < pair[2]}

(* The order of the natural numbers, as a relation, is well-founded.       *)
LEMMA LessIsWellFounded == IsWellFoundedOn(Less, Nat)
BY NatLessThanWellFounded DEF OpToRel, Less

(* A set of natural numbers that is not empty has a least one.             *)
LEMMA LeastNumber ==
  ASSUME NEW T \in SUBSET Nat, T # {}
  PROVE  \E m \in T : \A n \in T : m <= n
<1>1. PICK m \in T : \A n \in T : ~(<<n, m>> \in Less)
  BY WFMin, LessIsWellFounded
<1>2. ASSUME NEW n \in T PROVE m <= n
  <2>1. ~(<<n, m>> \in Less)
    BY <1>1
  <2>2. m \in Nat /\ n \in Nat
    OBVIOUS
  <2> QED
    BY <2>1, <2>2 DEF Less
<1> QED
  BY <1>2

(* A set with 0 that has the successor of each number in it has them all.  *)
LEMMA NumberInduction ==
  ASSUME NEW S, 0 \in S, \A n \in Nat : n \in S => n + 1 \in S
  PROVE  Nat \subseteq S
<1> DEFINE T == {n \in Nat : n \notin S}
<1>1. SUFFICES ASSUME T # {} PROVE FALSE
  OBVIOUS
<1>2. \A n \in T : n \in Nat /\ n \notin S
  OBVIOUS
<1>3. \A n \in Nat : n \notin S => n \in T
  OBVIOUS
<1> HIDE DEF T
<1>4. PICK m \in T : \A n \in T : m <= n
  BY <1>1, <1>2, LeastNumber
<1>5. m \in Nat /\ m # 0
  BY <1>2
<1>6. m - 1 \in Nat /\ m - 1 \in S
  BY <1>3, <1>4, <1>5
<1> QED
  BY <1>2, <1>5, <1>6

(* The same up to a bound.                                                 *)
LEMMA BoundedInduction ==
  ASSUME NEW N \in Nat, NEW S, 0 \in S, \A n \in 1..N : n - 1 \in S => n \in S
  PROVE  0..N \subseteq S
<1> DEFINE T == S \cup {n \in Nat : n > N}
<1>1. 0 \in T
  OBVIOUS
<1>2. ASSUME NEW n \in Nat, n \in T PROVE n + 1 \in T
  <2>1. CASE n + 1 > N
    BY <2>1
  <2>2. CASE n + 1 <= N
    <3>1. n + 1 \in 1..N /\ n \in S /\ (n + 1) - 1 = n
      BY <1>2, <2>2
    <3> QED
      BY <3>1
  <2> QED
    BY <2>1, <2>2
<1>3. \A n \in 0..N : n \in T => n \in S
  OBVIOUS
<1> HIDE DEF T
<1>4. Nat \subseteq T
  BY <1>1, <1>2, NumberInduction
<1> QED
  BY <1>3, <1>4

\* f is the function a recursion over 0..N defines.
Recurs(f, N, base, step) == f[0] = base /\ \A n \in 1..N : f[n] = step[<<n, f[n - 1]>>]

(* There is one, if the recursion stays in a set T.                        *)
LEMMA Recursion ==
  ASSUME NEW N \in Nat, NEW T, NEW base \in T, NEW step \in [(1..N) \X T -> T]
  PROVE  \E f \in [0..N -> T] : Recurs(f, N, base, step)
<1> DEFINE Works(f, m) == f[0] = base /\ \A n \in 1..m : f[n] = step[<<n, f[n - 1]>>]
           Defined == {m \in 0..N : \E f \in [0..m -> T] : Works(f, m)}
<1>1. 0 \in Defined
  <2> DEFINE f == [i \in 0..0 |-> base]
  <2>1. f \in [0..0 -> T] /\ f[0] = base
    OBVIOUS
  <2>2. 1..0 = {}
    OBVIOUS
  <2> HIDE DEF f
  <2>3. Works(f, 0)
    BY <2>1, <2>2
  <2> QED
    BY <2>1, <2>3
<1>2. ASSUME NEW m \in 1..N, m - 1 \in Defined PROVE m \in Defined
  <2>1. PICK f \in [0..(m - 1) -> T] : Works(f, m - 1)
    BY <1>2
  <2> DEFINE g == [i \in 0..m |-> IF i = m THEN step[<<m, f[m - 1]>>] ELSE f[i]]
  <2>2. g \in [0..m -> T]
    BY <2>1
  <2>3. Works(g, m)
    <3>1. g[0] = base
      BY <2>1
    <3>2. ASSUME NEW n \in 1..m PROVE g[n] = step[<<n, g[n - 1]>>]
      <4>1. g[n - 1] = f[n - 1]
        OBVIOUS
      <4>2. CASE n = m
        <5>1. g[m] = step[<<m, f[m - 1]>>]
          OBVIOUS
        <5> QED
          BY <4>1, <4>2, <5>1
      <4>3. CASE n # m
        <5>1. n \in 1..(m - 1) /\ g[n] = f[n]
          BY <4>3
        <5> QED
          BY <2>1, <4>1, <5>1
      <4> QED
        BY <4>2, <4>3
    <3> QED
      BY <3>1, <3>2
  <2> HIDE DEF g
  <2> QED
    BY <2>2, <2>3
<1>3. \A m \in Defined : \E f \in [0..m -> T] : Works(f, m)
  OBVIOUS
<1> HIDE DEF Defined
<1>4. N \in Defined
  BY <1>1, <1>2, BoundedInduction
<1>5. \E f \in [0..N -> T] : Works(f, N)
  BY <1>3, <1>4
<1> QED
  BY <1>5 DEF Recurs
=============================================================================
