------------------------------ MODULE Induction ------------------------------
(***************************************************************************)
(* Induction over the natural numbers for a set of numbers, and what it    *)
(* gives for functions that are defined by recursion: that there is such a *)
(* function, which is what it takes to unfold its definition.  The         *)
(* predicate and the step are a set and a function, not operators, so that *)
(* the provers can be given them.                                          *)
(***************************************************************************)
EXTENDS Integers, Sequences, SequenceTheorems, WellFoundedInduction, NaturalsInduction, TLAPS

\* A set of numbers that has 0 and with each number the next has all of them: the
\* least number it lacked would contradict one or the other.
LEMMA SetInduction ==
    ASSUME NEW T, 0 \in T, \A n \in Nat : n \in T => n + 1 \in T
    PROVE  Nat \subseteq T
<1> DEFINE Less == OpToRel(<, Nat)
           Lacking == {n \in Nat : n \notin T}
<1>1. SUFFICES ASSUME Lacking # {} PROVE FALSE
  OBVIOUS
<1>2. PICK m \in Lacking : \A n \in Lacking : ~(<<n, m>> \in Less)
  <2>1. IsWellFoundedOn(Less, Nat)
    BY NatLessThanWellFounded
  <2>2. Lacking \subseteq Nat
    OBVIOUS
  <2> HIDE DEF Less, Lacking
  <2> QED BY <1>1, <2>1, <2>2, WFMin
<1>3. \A n \in Lacking : ~(n < m)
  BY <1>2 DEF OpToRel
<1>4. m # 0
  OBVIOUS
<1>5. m - 1 \in Nat /\ m - 1 < m
  BY <1>4
<1>6. m - 1 \in T
  BY <1>3, <1>5
<1>7. (m - 1) + 1 \in T
  BY <1>5, <1>6
<1> QED BY <1>7

\* The same as far as a bound.
LEMMA SetInductionUpTo ==
    ASSUME NEW N \in Nat, NEW T, 0 \in T, \A n \in 0 .. N - 1 : n \in T => n + 1 \in T
    PROVE  0 .. N \subseteq T
<1> DEFINE U == {n \in Nat : n <= N => n \in T}
<1>1. 0 \in U
  OBVIOUS
<1>2. \A n \in Nat : n \in U => n + 1 \in U
  OBVIOUS
<1>3. Nat \subseteq U
  <2> HIDE DEF U
  <2> QED BY <1>1, <1>2, SetInduction
<1> QED BY <1>3

\* g starts with base and goes from each value to the next by step.
Recurses(g, S, base, N, step) ==
    /\ g \in [0 .. N -> S]
    /\ g[0] = base
    /\ \A n \in 1 .. N : g[n] = step[<<g[n - 1], n>>]

Steps(S, N) == [S \X (1 .. N) -> S]

\* A value at 0 and a step that stays in a set define a function, as far as one asks.
LEMMA Recursion ==
    ASSUME NEW S, NEW base \in S, NEW N \in Nat, NEW step \in Steps(S, N)
    PROVE  \E g : Recurses(g, S, base, N, step)
<1> USE DEF Steps
<1> DEFINE Rec(m, g) == g[0] = base /\ \A n \in 1 .. m : g[n] = step[<<g[n - 1], n>>]
           T == {m \in 0 .. N : \E g \in [0 .. m -> S] : Rec(m, g)}
<1>1. 0 \in T
  <2> DEFINE g == [n \in 0 .. 0 |-> base]
  <2>1. g \in [0 .. 0 -> S] /\ Rec(0, g)
    OBVIOUS
  <2> HIDE DEF g, Rec
  <2> QED BY <2>1
<1>2. ASSUME NEW m \in 0 .. N - 1, m \in T PROVE m + 1 \in T
  <2>1. PICK f \in [0 .. m -> S] : Rec(m, f)
    BY <1>2
  <2> DEFINE g == [n \in 0 .. m + 1 |-> IF n = m + 1 THEN step[<<f[m], m + 1>>] ELSE f[n]]
  <2>2. g \in [0 .. m + 1 -> S]
    OBVIOUS
  <2>3. ASSUME NEW n \in 1 .. m + 1
        PROVE  g[n] = step[<<g[n - 1], n>>]
    <3>1. n - 1 \in 0 .. m /\ g[n - 1] = f[n - 1]
      OBVIOUS
    <3>2. CASE n = m + 1
      <4>1. g[n] = step[<<f[m], m + 1>>] /\ n - 1 = m
        BY <3>2
      <4> QED BY <3>1, <3>2, <4>1
    <3>3. CASE n # m + 1
      <4>1. n \in 1 .. m /\ g[n] = f[n]
        BY <3>3
      <4> QED BY <2>1, <3>1, <4>1
    <3> QED BY <3>2, <3>3
  <2>4. g[0] = base
    BY <2>1
  <2> HIDE DEF g
  <2> QED BY <2>2, <2>3, <2>4
<1>3. 0 .. N \subseteq T
  <2> HIDE DEF T
  <2> QED BY <1>1, <1>2, SetInductionUpTo
<1> QED BY <1>3 DEF Recurses
=============================================================================
