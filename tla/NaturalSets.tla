----------------------------- MODULE NaturalSets -----------------------------
(***************************************************************************)
(* Induction over the natural numbers for sets of them.  The library's     *)
(* NatInduction speaks of any predicate; the proofs of this development    *)
(* need it of one set at a time, {n \in Nat : ...}, and in that form it    *)
(* follows from the well-foundedness of strict inclusion of finite sets.   *)
(***************************************************************************)
EXTENDS Integers, FiniteSets, FiniteSetTheorems, TLAPS

(* A set of naturals that has 0 and with each number the next has all:     *)
(* what holds before a C loop and is kept by its body holds after any      *)
(* number of iterations.                                                   *)
THEOREM SetInduction ==
  ASSUME NEW T, 0 \in T, \A n \in Nat : n \in T => n + 1 \in T
  PROVE  \A n \in Nat : n \in T
<1> DEFINE Below(k) == {j \in Nat : j < k}
           F == {Below(k) : k \in Nat \ T}
<1>1. SUFFICES ASSUME NEW n \in Nat, n \notin T
               PROVE  FALSE
  OBVIOUS
<1>2. \A k \in Nat : IsFiniteSet(Below(k)) /\ Below(k) \subseteq Nat
  <2>1. TAKE k \in Nat
  <2>2. Below(k) \subseteq Nat /\ \A j \in Below(k) : j <= k
    OBVIOUS
  <2>3. QED
    BY <2>2, FS_BoundedSetOfNaturals
<1>3. F \subseteq FiniteSubsetsOf(Nat) /\ F # {}
  BY <1>1, <1>2 DEF FiniteSubsetsOf
<1>4. PICK x \in F : \A y \in F : ~ (<<y, x>> \in StrictSubsetOrdering(Nat))
  BY <1>3, WFMin, FS_StrictSubsetOrderingWellFounded
<1>5. PICK k \in Nat \ T : x = Below(k)
  BY <1>4
<1>6. k - 1 \in Nat \ T
  <2>1. k # 0
    BY <1>1
  <2>2. k - 1 \in Nat /\ (k - 1) + 1 = k
    BY <2>1
  <2>3. QED
    BY <2>2, <1>5
<1>7. Below(k - 1) \subseteq Below(k) /\ k - 1 \in Below(k) /\ k - 1 \notin Below(k - 1)
  BY <1>6
<1>8. <<Below(k - 1), x>> \in StrictSubsetOrdering(Nat)
  BY <1>2, <1>5, <1>6, <1>7 DEF StrictSubsetOrdering
<1>9. QED
  BY <1>4, <1>6, <1>8

(* A set of naturals that is not empty has a least element: the free slot  *)
(* of the lowest index, the lowest free descriptor.                        *)
THEOREM Least ==
  ASSUME NEW S \in SUBSET Nat, S # {}
  PROVE  \E m \in S : \A k \in S : m <= k
<1> DEFINE T == {n \in Nat : \A j \in Nat : j <= n => j \notin S}
<1>1. SUFFICES ASSUME ~ \E m \in S : \A k \in S : m <= k
               PROVE  FALSE
  OBVIOUS
<1>2. 0 \in T
  BY <1>1
<1>3. \A n \in Nat : n \in T => n + 1 \in T
  <2>1. SUFFICES ASSUME NEW n \in Nat, n \in T
                 PROVE  n + 1 \notin S
    OBVIOUS
  <2>2. \A k \in S : n + 1 <= k
    BY <2>1
  <2>3. QED
    BY <1>1, <2>2
<1>4. \A n \in Nat : n \in T
  <2> HIDE DEF T
  <2>1. QED
    BY <1>2, <1>3, SetInduction
<1>5. PICK n \in S : TRUE
  OBVIOUS
<1>6. n \in Nat /\ n \in T /\ n <= n
  BY <1>4, <1>5
<1>7. QED
  BY <1>5, <1>6

(* The states of a loop: a before its first turn, F[<<s, k>>] after its     *)
(* k-th if it was s before.                                                *)
Runs(g, n, a, F) ==
  \A k \in 0 .. n : g[k] = IF k = 0 THEN a ELSE F[<<g[k - 1], k>>]

(* There are such states, so that a recursive definition of them by CHOOSE *)
(* defines them.                                                           *)
THEOREM LoopRuns ==
  ASSUME NEW n \in Nat, NEW States, NEW a \in States,
         NEW F \in [States \X (1 .. n) -> States]
  PROVE  \E g \in [0 .. n -> States] : Runs(g, n, a, F)
<1> DEFINE T == {m \in Nat : m <= n => \E g \in [0 .. m -> States] : Runs(g, m, a, F)}
<1>1. 0 \in T
  <2>1. [k \in 0 .. 0 |-> a] \in [0 .. 0 -> States] /\ Runs([k \in 0 .. 0 |-> a], 0, a, F)
    BY DEF Runs
  <2>2. QED
    BY <2>1
<1>2. \A m \in Nat : m \in T => m + 1 \in T
  <2>1. SUFFICES ASSUME NEW m \in Nat, m \in T, m + 1 <= n
                 PROVE  \E g \in [0 .. m + 1 -> States] : Runs(g, m + 1, a, F)
    OBVIOUS
  <2>2. PICK g \in [0 .. m -> States] : Runs(g, m, a, F)
    BY <2>1
  <2> DEFINE h == [k \in 0 .. m + 1 |-> IF k <= m THEN g[k] ELSE F[<<g[m], m + 1>>]]
  <2>3. h \in [0 .. m + 1 -> States]
    <3>1. F[<<g[m], m + 1>>] \in States
      BY <2>1, <2>2
    <3>2. QED
      BY <2>2, <3>1
  <2>4. ASSUME NEW k \in 0 .. m + 1
        PROVE  h[k] = IF k = 0 THEN a ELSE F[<<h[k - 1], k>>]
    <3>1. CASE k = 0
      <4>1. 0 \in 0 .. m /\ 0 \in 0 .. m + 1 /\ h[0] = g[0]
        OBVIOUS
      <4>2. QED
        BY <2>2, <3>1, <4>1 DEF Runs
    <3>2. CASE k \in 1 .. m
      <4>1. k - 1 \in 0 .. m /\ h[k - 1] = g[k - 1] /\ h[k] = g[k] /\ k \in 0 .. m /\ k # 0
        BY <3>2
      <4>2. QED
        BY <2>2, <4>1 DEF Runs
    <3>3. CASE k = m + 1
      <4>1. k # 0 /\ k - 1 = m /\ h[k - 1] = g[m] /\ h[k] = F[<<g[m], k>>]
        BY <3>3
      <4>2. QED
        BY <4>1
    <3>4. QED
      BY <3>1, <3>2, <3>3
  <2>5. QED
    BY <2>3, <2>4 DEF Runs
<1>3. n \in T
  <2> HIDE DEF T
  <2>1. QED
    BY <1>1, <1>2, SetInduction
<1>4. QED
  BY <1>3
=============================================================================
