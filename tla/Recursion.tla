------------------------------ MODULE Recursion ------------------------------
(***************************************************************************)
(* Induction and recursion up to a number, over sets and functions: the    *)
(* library's theorems on them take an operator as a parameter, which the   *)
(* provers cannot instantiate.  The lemmas named Typed and Runs of the     *)
(* other modules use them to say what a recursive function of a model      *)
(* returns.                                                                *)
(***************************************************************************)
EXTENDS Integers, FiniteSetTheorems, WellFoundedInduction, TLAPS

(* What holds of 0, and of each number after one of which it holds.        *)
LEMMA UpTo ==
  ASSUME NEW n \in Nat, NEW T, 0 \in T, \A k \in 1..n : k - 1 \in T => k \in T
  PROVE  \A k \in 0..n : k \in T
<1> DEFINE Bad == {k \in 0..n : k \notin T}
           Below(k) == {j \in Bad : j < k}
           Belows == {Below(k) : k \in Bad}
<1> SUFFICES ASSUME Bad # {} PROVE FALSE
  OBVIOUS
<1>1. IsWellFoundedOn(StrictSubsetOrdering(0..n), FiniteSubsetsOf(0..n))
  BY FS_StrictSubsetOrderingWellFounded
<1>2. FiniteSubsetsOf(0..n) = SUBSET (0..n)
  <2>1. IsFiniteSet(0..n)
    BY FS_Interval
  <2> QED BY <2>1, FS_FiniteSubsetsOfFinite
<1>3. Belows \subseteq FiniteSubsetsOf(0..n) /\ Belows # {}
  <2>1. \A k \in Bad : Below(k) \in SUBSET (0..n)
    OBVIOUS
  <2> HIDE DEF Below, Bad
  <2> QED BY <1>2, <2>1
<1>4. PICK U \in Belows : \A V \in Belows : <<V, U>> \notin StrictSubsetOrdering(0..n)
  <2> HIDE DEF Belows
  <2> QED BY <1>1, <1>3, WFMin, Zenon
<1>5. PICK k \in Bad : U = Below(k)
  OBVIOUS
<1>6. k \in 1..n /\ k - 1 \in Bad
  OBVIOUS
<1>7. k - 1 \in Below(k) /\ k - 1 \notin Below(k - 1) /\ Below(k - 1) \subseteq Below(k)
  BY <1>6
<1>8. Below(k - 1) \in SUBSET (0..n) /\ Below(k) \in SUBSET (0..n)
  OBVIOUS
<1>9. <<Below(k - 1), Below(k)>> \in StrictSubsetOrdering(0..n)
  <2> HIDE DEF Below
  <2> QED BY <1>7, <1>8 DEF StrictSubsetOrdering
<1>10. Below(k - 1) \in Belows
  BY <1>6
<1> QED BY <1>4, <1>5, <1>9, <1>10

(* Steps from each value to the next, and the values that they lead to.    *)
Steps(n, V) == [1..n -> [V -> V]]
IsRun(g, n, V, base, step) ==
  g \in [0..n -> V] /\ g[0] = base /\ \A k \in 1..n : g[k] = step[k][g[k - 1]]

(* Whatever the steps, all of them can be taken.                           *)
LEMMA RecursionRuns ==
  ASSUME NEW n \in Nat, NEW V, NEW base \in V, NEW step \in Steps(n, V)
  PROVE  \E g : IsRun(g, n, V, base, step)
<1> DEFINE Runs(g, k) ==
             g \in [0..k -> V] /\ g[0] = base /\ \A j \in 1..k : g[j] = step[j][g[j - 1]]
           T == {k \in 0..n : \E g : Runs(g, k)}
<1>0. step \in [1..n -> [V -> V]]
  BY DEF Steps
<1>1. 0 \in T
  <2>1. Runs([j \in 0..0 |-> base], 0)
    OBVIOUS
  <2> HIDE DEF Runs
  <2> QED BY <2>1
<1>2. ASSUME NEW k \in 1..n, k - 1 \in T PROVE k \in T
  <2>1. PICK g : Runs(g, k - 1)
    BY <1>2
  <2> DEFINE h == [j \in 0..k |-> IF j = k THEN step[k][g[k - 1]] ELSE g[j]]
  <2>2. k - 1 \in 0..(k - 1) /\ g[k - 1] \in V /\ step[k][g[k - 1]] \in V
    BY <1>0, <2>1
  <2>3. \A j \in 0..k : j # k => j \in 0..(k - 1) /\ g[j] \in V
    BY <2>1
  <2>4. h \in [0..k -> V] /\ h[0] = base
    BY <2>1, <2>2, <2>3
  <2>5. ASSUME NEW j \in 1..k PROVE h[j] = step[j][h[j - 1]]
    <3>1. j - 1 \in 0..k /\ j - 1 # k /\ h[j - 1] = g[j - 1]
      OBVIOUS
    <3>2. CASE j = k
      BY <3>1, <3>2
    <3>3. CASE j # k
      <4>1. j \in 1..(k - 1) /\ h[j] = g[j]
        BY <3>3
      <4> QED BY <2>1, <3>1, <4>1
    <3> QED BY <3>2, <3>3
  <2>6. Runs(h, k)
    BY <2>4, <2>5
  <2> HIDE DEF Runs
  <2> QED BY <2>6
<1>3. \A k \in 0..n : k \in T
  <2> HIDE DEF T
  <2> QED BY <1>1, <1>2, UpTo
<1> QED BY <1>3 DEF IsRun

(* A set of numbers up to n has a greatest one.                            *)
LEMMA GreatestExists ==
  ASSUME NEW n \in Nat, NEW S \in SUBSET (1..n), S # {}
  PROVE  \E m \in S : \A j \in S : j <= m
<1> DEFINE Greatest(k) ==
             (\E j \in S : j <= k) => \E m \in S : m <= k /\ \A j \in S : j <= k => j <= m
           T == {k \in 0..n : Greatest(k)}
<1>1. 0 \in T
  OBVIOUS
<1>2. ASSUME NEW k \in 1..n, k - 1 \in T PROVE k \in T
  <2>1. CASE k \in S
    BY <2>1
  <2>2. CASE k \notin S
    <3>1. \A j \in S : j <= k => j <= k - 1
      BY <2>2
    <3> QED BY <1>2, <3>1
  <2> QED BY <2>1, <2>2
<1>3. n \in T
  <2> HIDE DEF T
  <2> QED BY <1>1, <1>2, UpTo
<1>4. Greatest(n) /\ \A j \in S : j <= n
  BY <1>3
<1> QED BY <1>4

==============================================================================
