------------------------------ MODULE NatFacts -------------------------------
(***************************************************************************)
(* Induction over the natural numbers as a fact about sets, and what it    *)
(* gives: every function that is defined by recursion on an index exists.  *)
(* Proofs about data that grows one step at a time (a sequence that is     *)
(* filtered, a line that is read byte by byte) rest on these lemmas.       *)
(***************************************************************************)
EXTENDS Integers, FiniteSets, FiniteSetTheorems, WellFoundedInduction, TLAPS

(* Every set of natural numbers that is not empty has a least element: the *)
(* intervals 1..k are finite sets, which inclusion orders well.            *)
LEMMA LeastNumber == \A S \in SUBSET Nat : S # {} => \E m \in S : \A k \in S : m <= k
<1> SUFFICES ASSUME NEW S \in SUBSET Nat, S # {} PROVE \E m \in S : \A k \in S : m <= k
  OBVIOUS
<1> DEFINE T == {1..k : k \in S}
           L == StrictSubsetOrdering(Nat)
<1>1. T \subseteq FiniteSubsetsOf(Nat)
  <2> SUFFICES ASSUME NEW k \in S PROVE IsFiniteSet(1..k) /\ 1..k \in SUBSET Nat
    BY DEF FiniteSubsetsOf
  <2>1. IsFiniteSet(1..k)
    BY FS_Interval
  <2> QED BY <2>1
<1>2. \E x \in T : \A y \in T : ~(<<y, x>> \in L)
  <2>1. IsWellFoundedOn(L, FiniteSubsetsOf(Nat))
    BY FS_StrictSubsetOrderingWellFounded
  <2>2. T # {}
    OBVIOUS
  <2> HIDE DEF T, L
  <2> QED BY <1>1, <2>1, <2>2, WFMin
<1>3. PICK m \in S : \A k \in S : ~(<<1..k, 1..m>> \in L)
  BY <1>2
<1>4. \A k \in S : m <= k
  <2> SUFFICES ASSUME NEW k \in S, k < m PROVE FALSE
    OBVIOUS
  <2>1. 1..k \subseteq 1..m /\ m \in 1..m /\ m \notin 1..k
    OBVIOUS
  <2>2. <<1..k, 1..m>> \in L
    BY <2>1 DEF StrictSubsetOrdering
  <2> QED BY <1>3, <2>2
<1> QED BY <1>4

(* A set of natural numbers with 0 and every successor has all of them.    *)
LEMMA Induction ==
  ASSUME NEW P \in SUBSET Nat, 0 \in P, \A k \in P : k + 1 \in P
  PROVE  P = Nat
<1>1. CASE Nat \ P # {}
  <2>1. PICK m \in Nat \ P : \A k \in Nat \ P : m <= k
    BY <1>1, LeastNumber
  <2>2. m # 0 /\ m - 1 \in Nat /\ m - 1 \in P
    BY <2>1
  <2> QED BY <2>1, <2>2
<1> QED BY <1>1

(* Starting with v and applying h[1], h[2], ... h[n] in turn gives values  *)
(* of V at each index.                                                     *)
LEMMA Recursion ==
  ASSUME NEW V, NEW v \in V, NEW n \in Nat, NEW h \in [1..n -> [V -> V]]
  PROVE  \E g \in [0..n -> V] : g[0] = v /\ \A i \in 1..n : g[i] = h[i][g[i - 1]]
<1> DEFINE Solves(g, m) == g[0] = v /\ \A i \in 1..m : g[i] = h[i][g[i - 1]]
           P == {m \in Nat : m <= n => \E g \in [0..m -> V] : Solves(g, m)}
<1>1. 0 \in P
  <2>1. [i \in 0..0 |-> v] \in [0..0 -> V] /\ Solves([i \in 0..0 |-> v], 0)
    OBVIOUS
  <2> QED BY <2>1
<1>2. ASSUME NEW k \in P PROVE k + 1 \in P
  <2> SUFFICES ASSUME k + 1 <= n PROVE \E g \in [0..(k + 1) -> V] : Solves(g, k + 1)
    <3> HIDE DEF Solves
    <3> QED OBVIOUS
  <2>1. k \in Nat /\ k <= n
    OBVIOUS
  <2>2. PICK g \in [0..k -> V] : Solves(g, k)
    BY <2>1
  <2> DEFINE f == [i \in 0..(k + 1) |-> IF i = k + 1 THEN h[k + 1][g[k]] ELSE g[i]]
  <2>3. k + 1 \in 1..n /\ h[k + 1][g[k]] \in V
    BY <2>1, <2>2
  <2>4. f \in [0..(k + 1) -> V]
    BY <2>1, <2>2, <2>3
  <2>5. Solves(f, k + 1)
    <3>1. f[0] = v
      BY <2>1, <2>2
    <3>2. ASSUME NEW i \in 1..(k + 1) PROVE f[i] = h[i][f[i - 1]]
      <4>1. CASE i = k + 1
        BY <2>1, <4>1
      <4>2. CASE i # k + 1
        BY <2>1, <2>2, <4>2
      <4> QED BY <4>1, <4>2
    <3> QED BY <3>1, <3>2
  <2> QED BY <2>4, <2>5
<1>3. n \in P
  <2> HIDE DEF P
  <2> QED BY <1>1, <1>2, Induction DEF P
<1> QED BY <1>3
=============================================================================
