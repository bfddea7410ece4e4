----------------------------- MODULE Iteration -----------------------------
(***************************************************************************)
(* Induction over the natural numbers without an operator parameter: on a  *)
(* set of them, and for the function that a loop follows.                  *)
(***************************************************************************)
EXTENDS Integers, WellFoundedInduction, TLAPS

(* Induction over the natural numbers, on a set of them.                   *)
LEMMA SetInduction ==
  ASSUME NEW S, 0 \in S, \A n \in Nat : n \in S => n + 1 \in S
  PROVE  Nat \subseteq S
<1> DEFINE R == {p \in Nat \X Nat : p[1] < p[2]}
           T == Nat \ S
<1>1. OpToRel(<, Nat) = R
  BY DEF OpToRel
<1>2. IsWellFoundedOn(R, Nat) /\ T \subseteq Nat
  BY <1>1, NatLessThanWellFounded
<1>3. ASSUME T # {} PROVE FALSE
  <2> HIDE DEF R, T
  <2>1. PICK x \in T : \A y \in T : ~ (<<y, x>> \in R)
    BY <1>2, <1>3, WFMin, Zenon
  <2> USE DEF T
  <2>2. x \in Nat \ {0} /\ x - 1 \in Nat /\ x - 1 \in T
    BY <2>1
  <2>3. <<x - 1, x>> \in R
    BY <2>2 DEF R
  <2> QED BY <2>1, <2>2, <2>3
<1> QED BY <1>3

(* The values a loop goes through: a to begin with, and in the i-th round   *)
(* step of i and the value before it.                                      *)
Rounds(step, len, D) == step \in [(1 .. len) \X D -> D]

LEMMA IterationExists ==
  ASSUME NEW len \in Nat, NEW D, NEW a \in D, NEW step, Rounds(step, len, D)
  PROVE  \E f \in [0 .. len -> D] :
           f[0] = a /\ \A i \in 1 .. len : f[i] = step[<<i, f[i - 1]>>]
<1> USE DEF Rounds
<1> DEFINE Runs(g, n) == g[0] = a /\ \A i \in 1 .. n : g[i] = step[<<i, g[i - 1]>>]
           S == {n \in Nat : n <= len => \E g \in [0 .. n -> D] : Runs(g, n)}
<1>1. 0 \in S
  <2>1. [i \in 0 .. 0 |-> a] \in [0 .. 0 -> D] /\ Runs([i \in 0 .. 0 |-> a], 0)
    OBVIOUS
  <2> HIDE DEF Runs
  <2> QED BY <2>1
<1>2. ASSUME NEW n \in Nat, n \in S PROVE n + 1 \in S
  <2> SUFFICES ASSUME n + 1 <= len PROVE \E h \in [0 .. n + 1 -> D] : Runs(h, n + 1)
    OBVIOUS
  <2>1. PICK g \in [0 .. n -> D] : Runs(g, n)
    BY <1>2
  <2> DEFINE h == [i \in 0 .. n + 1 |-> IF i = n + 1 THEN step[<<n + 1, g[n]>>] ELSE g[i]]
  <2>2. step[<<n + 1, g[n]>>] \in D
    BY <2>1
  <2>3. h \in [0 .. n + 1 -> D]
    BY <2>1, <2>2
  <2>4. (\A i \in 0 .. n : h[i] = g[i]) /\ h[n + 1] = step[<<n + 1, g[n]>>]
    OBVIOUS
  <2> HIDE DEF h
  <2>5. ASSUME NEW i \in 1 .. n + 1 PROVE h[i] = step[<<i, h[i - 1]>>]
    <3>1. CASE i = n + 1
      BY <2>4, <3>1
    <3>2. CASE i \in 1 .. n
      <4>1. i - 1 \in 0 .. n
        BY <3>2
      <4> QED BY <2>1, <2>4, <3>2, <4>1
    <3> QED BY <3>1, <3>2
  <2> QED BY <2>1, <2>3, <2>4, <2>5
<1>3. len \in S
  <2> HIDE DEF S
  <2> QED BY <1>1, <1>2, SetInduction
<1> QED BY <1>3
=============================================================================
