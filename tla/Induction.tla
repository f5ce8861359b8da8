----------------------------- MODULE Induction -----------------------------
(***************************************************************************)
(* Induction without an induction rule: a set of counterexamples, if not   *)
(* empty, has a least one.  And recursion: a function that is given by its *)
(* first value and by how each value makes the next one exists.            *)
(***************************************************************************)
EXTENDS Integers, WellFoundedInduction, TLAPS

\* Of any natural numbers one is the least.
LEMMA LeastElement ==
    ASSUME NEW S \in SUBSET Nat, S # {}
    PROVE  \E n \in S : \A m \in S : n <= m
<1> DEFINE R == OpToRel(<, Nat)
<1>1. PICK n \in S : \A m \in S : <<m, n>> \notin R
  <2> HIDE DEF R
  <2>1. IsWellFoundedOn(R, Nat)
    BY NatLessThanWellFounded DEF R
  <2> QED
    BY <2>1, WFMin
<1>2. \A m \in S : ~(m < n)
  BY <1>1 DEF OpToRel
<1> QED
  BY <1>2

\* g starts at a and takes the N steps one after another.
Runs(g, a, step, N, X) ==
    g \in [0..N -> X] /\ g[0] = a /\ \A n \in 1..N : g[n] = step[n][g[n - 1]]

\* From any start, steps that lead from X to X can be taken one after another.
LEMMA RunExists ==
    ASSUME NEW N \in Nat, NEW X, NEW a \in X, NEW step \in [1..N -> [X -> X]]
    PROVE  \E g : Runs(g, a, step, N, X)
<1> DEFINE Run(g, m) == Runs(g, a, step, m, X)
           Bad == {m \in 0..N : ~ \E g : Run(g, m)}
<1> SUFFICES ASSUME Bad # {} PROVE FALSE
  OBVIOUS
<1>1. PICK m \in Bad : \A k \in Bad : m <= k
  <2>1. Bad \in SUBSET Nat
    OBVIOUS
  <2> HIDE DEF Bad
  <2> QED
    BY <2>1, LeastElement
<1>2. CASE m = 0
  <2>1. Run([i \in 0..0 |-> a], 0)
    BY DEF Runs
  <2> QED
    BY <1>1, <1>2, <2>1
<1>3. CASE m # 0
  <2>1. PICK g : Run(g, m - 1)
    BY <1>1, <1>3
  <2>2. /\ g \in [0..(m - 1) -> X] /\ g[0] = a
        /\ \A n \in 1..(m - 1) : g[n] = step[n][g[n - 1]]
    BY <2>1 DEF Runs
  <2> DEFINE h == [i \in 0..m |-> IF i = m THEN step[m][g[m - 1]] ELSE g[i]]
  <2>3. h \in [0..m -> X]
    <3>1. m \in 1..N /\ m - 1 \in 0..(m - 1)
      BY <1>3
    <3>2. step[m] \in [X -> X] /\ g[m - 1] \in X
      BY <2>2, <3>1
    <3>3. step[m][g[m - 1]] \in X
      BY <3>2
    <3>4. ASSUME NEW i \in 0..m PROVE h[i] \in X
      <4>1. i = m \/ i \in 0..(m - 1)
        OBVIOUS
      <4> QED
        BY <2>2, <3>3, <4>1
    <3> QED
      BY <3>4
  <2>4. h[0] = a
    BY <1>3, <2>2
  <2>5. ASSUME NEW n \in 1..m PROVE h[n] = step[n][h[n - 1]]
    <3>1. h[n - 1] = g[n - 1]
      OBVIOUS
    <3>2. CASE n = m
      BY <3>1, <3>2
    <3>3. CASE n # m
      <4>1. n \in 1..(m - 1)
        BY <3>3
      <4> QED
        BY <2>2, <3>1, <4>1
    <3> QED
      BY <3>2, <3>3
  <2>6. Run(h, m)
    <3> HIDE DEF h
    <3> QED
      BY <2>3, <2>4, <2>5 DEF Runs
  <2> QED
    BY <1>1, <2>6
<1> QED
  BY <1>2, <1>3
=============================================================================
