------------------------------ MODULE Induction ------------------------------
(***************************************************************************)
(* Induction over the natural numbers without operators as parameters, for *)
(* the proofs about functions that are defined recursively.                *)
(***************************************************************************)
EXTENDS WellFoundedInduction, TLAPS

\* Every non-empty set of natural numbers has a least element.
LEMMA LeastNat ==
  ASSUME NEW T \in SUBSET Nat, T # {}
  PROVE  \E n \in T : \A m \in T : n <= m
<1>. DEFINE R == {p \in Nat \X Nat : p[1] < p[2]}
<1>1. IsWellFoundedOn(R, Nat)
  BY NatLessThanWellFounded DEF OpToRel
<1>2. PICK n \in T : \A m \in T : ~(<<m, n>> \in R)
  <2>. HIDE DEF R
  <2>. QED BY <1>1, WFMin
<1>3. \A m \in T : ~(m < n)
  BY <1>2
<1>. QED BY <1>3

\* A set that holds 0 and with each number the next one holds all of them.
LEMMA SetInduction ==
  ASSUME NEW S, 0 \in S, \A n \in Nat : n \in S => n + 1 \in S
  PROVE  \A n \in Nat : n \in S
<1>. SUFFICES ASSUME Nat \ S # {} PROVE FALSE
  OBVIOUS
<1>1. PICK n \in Nat \ S : \A m \in Nat \ S : n <= m
  BY LeastNat
<1>2. n # 0 /\ n - 1 \in Nat /\ n - 1 \in S
  BY <1>1
<1>. QED BY <1>1, <1>2

\* A loop: from a value in A, n steps that stay in A.
LEMMA LoopExists ==
  ASSUME NEW A, NEW a \in A, NEW n \in Nat, NEW s \in [1 .. n -> [A -> A]]
  PROVE  \E g \in [0 .. n -> A] :
            g[0] = a /\ \A i \in 1 .. n : g[i] = s[i][g[i - 1]]
<1>. DEFINE Runs(k, g) == g[0] = a /\ \A i \in 1 .. k : g[i] = s[i][g[i - 1]]
            S == {k \in Nat : k <= n => \E g \in [0 .. k -> A] : Runs(k, g)}
<1>1. 0 \in S
  <2>1. [i \in 0 .. 0 |-> a] \in [0 .. 0 -> A] /\ Runs(0, [i \in 0 .. 0 |-> a])
    OBVIOUS
  <2>. QED BY <2>1
<1>2. ASSUME NEW k \in Nat, k \in S PROVE k + 1 \in S
  <2>. SUFFICES ASSUME k + 1 <= n PROVE \E g \in [0 .. k + 1 -> A] : Runs(k + 1, g)
    OBVIOUS
  <2>1. PICK g \in [0 .. k -> A] : Runs(k, g)
    BY <1>2
  <2>. DEFINE h == [i \in 0 .. k + 1 |-> IF i <= k THEN g[i] ELSE s[i][g[k]]]
  <2>2. k + 1 \in 1 .. n /\ g[k] \in A
    OBVIOUS
  <2>3. s[k + 1] \in [A -> A]
    BY <2>2
  <2>4. h \in [0 .. k + 1 -> A]
    BY <2>2, <2>3
  <2>5. h[0] = a
    BY <2>1
  <2>6. ASSUME NEW i \in 1 .. k + 1 PROVE h[i] = s[i][h[i - 1]]
    <3>1. CASE i = k + 1
      BY <3>1
    <3>2. CASE i \in 1 .. k
      <4>1. h[i] = g[i] /\ h[i - 1] = g[i - 1]
        BY <3>2
      <4>. QED BY <2>1, <3>2, <4>1
    <3>. QED BY <3>1, <3>2
  <2>. QED BY <2>4, <2>5, <2>6
<1>. HIDE DEF S
<1>3. n \in S
  BY <1>1, <1>2, SetInduction
<1>. QED BY <1>3 DEF S
=============================================================================
