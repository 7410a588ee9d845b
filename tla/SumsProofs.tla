----------------------------- MODULE SumsProofs -----------------------------
(***************************************************************************)
(* What the proofs of the ledgers need to know about totals.  Induction    *)
(* over the length is by the least counterexample.                         *)
(***************************************************************************)
EXTENDS Sums, WellFoundedInduction, TLAPS

\* s is the function of running totals of f on 0..n.
IsRunningTotal(s, f, n) ==
  s = [i \in 0..n |-> IF i = 0 THEN 0 ELSE s[i-1] + f[i]]

\* The least-number principle, as a statement about sets of naturals.
LEMMA LeastElement ==
  ASSUME NEW T, T \in SUBSET Nat, T # {}
  PROVE  \E x \in T : \A y \in T : x <= y
<1> DEFINE R == OpToRel(<, Nat)
<1>1. IsWellFoundedOn(R, Nat)
  BY NatLessThanWellFounded
<1>2. \A x, y \in Nat : y < x => <<y, x>> \in R
  BY DEF OpToRel
<1> HIDE DEF R
<1>3. PICK x \in T : \A y \in T : ~ (<<y, x>> \in R)
  BY <1>1, WFMin
<1>4. ASSUME NEW y \in T PROVE x <= y
  <2>1. x \in Nat /\ y \in Nat
    OBVIOUS
  <2>2. ~ (y < x)
    BY <1>2, <1>3, <2>1
  <2>3. QED BY <2>1, <2>2
<1>5. QED  BY <1>4

\* Running totals exist: the recursive definition has a solution on 0..n.
LEMMA RunningTotalExists ==
  ASSUME NEW f, NEW n \in Nat, \A i \in 1..n : f[i] \in Int
  PROVE  \E s \in [0..n -> Int] : IsRunningTotal(s, f, n)
<1> DEFINE T == {m \in 0..n : ~ \E s \in [0..m -> Int] : IsRunningTotal(s, f, m)}
<1>1. SUFFICES ASSUME T # {} PROVE FALSE
  OBVIOUS
<1>a. T \in SUBSET Nat
  OBVIOUS
<1>2. PICK m \in T : \A y \in T : m <= y
  <2> HIDE DEF T
  <2> QED BY <1>1, <1>a, LeastElement
<1>3. m # 0
  <2>1. IsRunningTotal([i \in 0..0 |-> 0], f, 0)
    BY DEF IsRunningTotal
  <2>2. [i \in 0..0 |-> 0] \in [0..0 -> Int]
    OBVIOUS
  <2>3. 0 \notin T
    BY <2>1, <2>2
  <2>4. QED BY <2>3
<1>4. PICK s \in [0..(m-1) -> Int] : IsRunningTotal(s, f, m-1)
  BY <1>2, <1>3
<1> DEFINE t == [i \in 0..m |-> IF i = m THEN s[m-1] + f[m] ELSE s[i]]
<1>5. t \in [0..m -> Int]
  BY <1>3, <1>4
<1>6. IsRunningTotal(t, f, m)
  <2>1. ASSUME NEW i \in 0..m PROVE t[i] = IF i = 0 THEN 0 ELSE t[i-1] + f[i]
    BY <1>3, <1>4 DEF IsRunningTotal
  <2>2. QED BY <2>1 DEF IsRunningTotal
<1>7. QED BY <1>2, <1>5, <1>6

\* Two functions that satisfy the recursion of running totals are equal.
LEMMA RunningTotalUnique ==
  ASSUME NEW f, NEW n \in Nat, NEW s, NEW t,
         IsRunningTotal(s, f, n), IsRunningTotal(t, f, n)
  PROVE  s = t
<1> DEFINE T == {m \in 0..n : s[m] # t[m]}
<1>0. /\ s = [i \in 0..n |-> s[i]]
      /\ t = [i \in 0..n |-> t[i]]
  BY DEF IsRunningTotal
<1>1. SUFFICES ASSUME T # {} PROVE FALSE
  BY <1>0
<1>a. T \in SUBSET Nat
  OBVIOUS
<1>2. PICK m \in T : \A y \in T : m <= y
  <2> HIDE DEF T
  <2> QED BY <1>1, <1>a, LeastElement
<1>3. m # 0
  BY DEF IsRunningTotal
<1>4. s[m-1] = t[m-1]
  BY <1>2, <1>3
<1>5. QED BY <1>3, <1>4 DEF IsRunningTotal

\* RunningTotal unfolds to its recursion; every fact about Total rests on this.
LEMMA RunningTotalDef ==
  ASSUME NEW f, NEW n \in Nat, \A i \in 1..n : f[i] \in Int
  PROVE  /\ RunningTotal(f, n) \in [0..n -> Int]
         /\ IsRunningTotal(RunningTotal(f, n), f, n)
<1>1. PICK s \in [0..n -> Int] : IsRunningTotal(s, f, n)
  BY RunningTotalExists
<1>2. IsRunningTotal(RunningTotal(f, n), f, n)
  BY <1>1 DEF IsRunningTotal, RunningTotal
<1>3. QED BY <1>1, <1>2, RunningTotalUnique

\* Changing one entry of f changes the total by the difference.
THEOREM TotalUpdate ==
  ASSUME NEW n \in Nat, NEW f \in [1..n -> Int], NEW g \in [1..n -> Int],
         NEW r \in 1..n, \A i \in 1..n : i # r => g[i] = f[i]
  PROVE  Total(g, n) = Total(f, n) + (g[r] - f[r])
<1> DEFINE s == RunningTotal(f, n)
           t == [i \in 0..n |-> IF i < r THEN s[i] ELSE s[i] + (g[r] - f[r])]
<1>1. s \in [0..n -> Int] /\ IsRunningTotal(s, f, n)
  BY RunningTotalDef
<1> HIDE DEF s
<1>2. ASSUME NEW i \in 0..n
      PROVE  t[i] = IF i = 0 THEN 0 ELSE t[i-1] + g[i]
  <2>1. CASE i = 0
    BY <1>1, <2>1 DEF IsRunningTotal
  <2>2. CASE i # 0
    <3>1. s[i] = s[i-1] + f[i] /\ i - 1 \in 0..n /\ i \in 1..n
      BY <1>1, <2>2 DEF IsRunningTotal
    <3>2. s[i] \in Int /\ s[i-1] \in Int /\ f[i] \in Int /\ g[i] \in Int /\ f[r] \in Int /\ g[r] \in Int
      BY <1>1, <3>1
    <3>3. CASE i < r
      BY <3>1, <3>2, <3>3, <2>2
    <3>4. CASE i = r
      BY <3>1, <3>2, <3>4, <2>2
    <3>5. CASE i > r
      BY <3>1, <3>2, <3>5, <2>2
    <3>6. QED BY <3>3, <3>4, <3>5
  <2>3. QED BY <2>1, <2>2
<1>3. IsRunningTotal(t, g, n)
  BY <1>2 DEF IsRunningTotal
<1>4. t = RunningTotal(g, n)
  <2> HIDE DEF t
  <2> QED BY <1>3, RunningTotalDef, RunningTotalUnique
<1>5. t[n] = s[n] + (g[r] - f[r])
  OBVIOUS
<1>6. QED BY <1>4, <1>5 DEF Total, s

\* The total of an integer function is an integer.
THEOREM TotalInt ==
  ASSUME NEW n \in Nat, NEW f \in [1..n -> Int]
  PROVE  Total(f, n) \in Int
BY RunningTotalDef DEF Total

\* A function that is zero everywhere has total zero.
THEOREM TotalZero ==
  ASSUME NEW n \in Nat, NEW f \in [1..n -> Int], \A i \in 1..n : f[i] = 0
  PROVE  Total(f, n) = 0
<1> DEFINE t == [i \in 0..n |-> 0]
<1>1. IsRunningTotal(t, f, n)
  BY DEF IsRunningTotal
<1>2. t = RunningTotal(f, n)
  <2> HIDE DEF t
  <2> QED BY <1>1, RunningTotalDef, RunningTotalUnique
<1>3. QED BY <1>2 DEF Total

\* A total of naturals bounds each of its entries.
THEOREM TotalBoundsEntry ==
  ASSUME NEW n \in Nat, NEW f \in [1..n -> Nat], NEW r \in 1..n
  PROVE  f[r] <= Total(f, n)
<1> DEFINE g == [f EXCEPT ![r] = 0]
<1>0. /\ f \in [1..n -> Int] /\ g \in [1..n -> Int] /\ g[r] = 0
      /\ \A i \in 1..n : i # r => g[i] = f[i]
      /\ \A i \in 1..n : g[i] >= 0
  OBVIOUS
<1> HIDE DEF g
<1>1. Total(f, n) = Total(g, n) + f[r]
  <2>1. Total(g, n) = Total(f, n) + (g[r] - f[r])
    BY <1>0, TotalUpdate
  <2>2. Total(g, n) \in Int /\ Total(f, n) \in Int /\ f[r] \in Int
    BY <1>0, TotalInt
  <2>3. QED BY <1>0, <2>1, <2>2
<1>2. Total(g, n) >= 0
  <2> DEFINE s == RunningTotal(g, n)
             T == {m \in 0..n : s[m] < 0}
  <2>1. s \in [0..n -> Int] /\ IsRunningTotal(s, g, n)
    BY <1>0, RunningTotalDef
  <2> HIDE DEF s
  <2>2. T = {}
    <3>1. SUFFICES ASSUME T # {} PROVE FALSE
      OBVIOUS
    <3>2. T \in SUBSET Nat
      OBVIOUS
    <3>3. PICK m \in T : \A y \in T : m <= y
      <4> HIDE DEF T
      <4> QED BY <3>1, <3>2, LeastElement
    <3>4. m # 0
      BY <2>1 DEF IsRunningTotal
    <3>5. m - 1 \in 0..n /\ s[m-1] >= 0
      BY <2>1, <3>3, <3>4
    <3>6. m \in 1..n /\ s[m] = s[m-1] + g[m]
      BY <2>1, <3>4 DEF IsRunningTotal
    <3>7. g[m] >= 0 /\ g[m] \in Int
      BY <1>0, <3>6
    <3>8. s[m] < 0 /\ s[m-1] \in Int
      BY <2>1, <3>3, <3>5
    <3>9. QED BY <3>5, <3>6, <3>7, <3>8
  <2>3. s[n] >= 0
    BY <2>1, <2>2
  <2>4. QED BY <2>3 DEF Total, s
<1>3. QED BY <1>0, <1>1, <1>2, TotalInt
=============================================================================
