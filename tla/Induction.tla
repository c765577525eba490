------------------------------- MODULE Induction -------------------------------
(***************************************************************************)
(* Induction, as far as it can be had without an operator parameter: every *)
(* set of numbers that is not empty has a smallest one, and a computation  *)
(* of so many steps can be carried out.                                    *)
(***************************************************************************)
EXTENDS Integers, WellFoundedInduction, TLAPS

Less == {ss \in Nat \X Nat : ss[1] < ss[2]}

LEMMA LessIsWellFounded == IsWellFoundedOn(Less, Nat)
BY NatLessThanWellFounded DEF OpToRel, Less

(***************************************************************************)
(* Induction by the smallest counterexample: it is not 0, and what is      *)
(* claimed holds of its predecessor.                                       *)
(***************************************************************************)
LEMMA Smallest ==
  ASSUME NEW T, T \subseteq Nat, T # {}
  PROVE  \E m \in T : \A k \in T : m <= k
<1>1. PICK m \in T : \A k \in T : ~ (<<k, m>> \in Less)
  BY LessIsWellFounded, WFMin
<1>2. ASSUME NEW k \in T
      PROVE  m <= k
  <2>1. m \in Nat /\ k \in Nat
    OBVIOUS
  <2>2. <<k, m>> \notin Less
    BY <1>1
  <2>3. ~(k < m)
    BY <2>1, <2>2 DEF Less
  <2> QED
    BY <2>1, <2>3
<1> QED
  BY <1>2

(***************************************************************************)
(* The states that a function runs through in L steps, from a first one.   *)
(***************************************************************************)
IsRun(f, L, first, step) ==
  f[0] = first /\ \A n \in 1 .. L : f[n] = step[n][f[n - 1]]

LEMMA RunExists ==
  ASSUME NEW S, NEW first \in S, NEW L \in Nat, NEW step \in [1 .. L -> [S -> S]]
  PROVE  \E f \in [0 .. L -> S] : IsRun(f, L, first, step)
<1> DEFINE Bad == {m \in 0 .. L : ~ \E f \in [0 .. m -> S] : IsRun(f, m, first, step)}
<1>1. SUFFICES ASSUME Bad # {}
               PROVE  FALSE
  <2>1. L \in 0 .. L
    OBVIOUS
  <2> QED
    BY <1>1, <2>1
<1>2. PICK m \in Bad : \A k \in Bad : m <= k
  <2>1. Bad \subseteq Nat
    OBVIOUS
  <2> HIDE DEF Bad
  <2> QED
    BY <1>1, <2>1, Smallest
<1>3. m # 0
  <2>1. [n \in 0 .. 0 |-> first] \in [0 .. 0 -> S]
    OBVIOUS
  <2>2. IsRun([n \in 0 .. 0 |-> first], 0, first, step)
    BY DEF IsRun
  <2> QED
    BY <2>1, <2>2
<1>4. m \in 1 .. L /\ m - 1 \in 0 .. L /\ m - 1 \notin Bad
  BY <1>2, <1>3
<1>5. PICK f \in [0 .. m - 1 -> S] : IsRun(f, m - 1, first, step)
  BY <1>4
<1> DEFINE g == [n \in 0 .. m |-> IF n = m THEN step[m][f[m - 1]] ELSE f[n]]
<1>6. g \in [0 .. m -> S]
  <2>1. step[m][f[m - 1]] \in S
    BY <1>4
  <2>2. \A n \in 0 .. m : n # m => f[n] \in S
    BY <1>4
  <2> QED
    BY <2>1, <2>2
<1>7. IsRun(g, m, first, step)
  <2>1. g[0] = first
    BY <1>4, <1>5 DEF IsRun
  <2>2. ASSUME NEW n \in 1 .. m
        PROVE  g[n] = step[n][g[n - 1]]
    <3>1. n - 1 \in 0 .. m /\ n - 1 # m /\ n \in 0 .. m
      BY <1>4
    <3>2. g[n - 1] = f[n - 1]
      BY <3>1
    <3>3. CASE n = m
      BY <3>1, <3>2, <3>3
    <3>4. CASE n # m
      <4>1. n \in 1 .. m - 1
        BY <1>4, <3>4
      <4>2. f[n] = step[n][f[n - 1]]
        BY <1>5, <4>1 DEF IsRun
      <4> QED
        BY <3>1, <3>2, <3>4, <4>2
    <3> QED
      BY <3>3, <3>4
  <2> HIDE DEF g
  <2> QED
    BY <2>1, <2>2 DEF IsRun
<1> QED
  BY <1>6, <1>7
=============================================================================
