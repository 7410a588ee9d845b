------------------------- MODULE BudgetStoresProofs -------------------------
(***************************************************************************)
(* Proofs, for any number of requests, keys and replicas, any caps,        *)
(* limits, estimates and costs, and any number of faults, that both budget *)
(* stores keep their ledgers and their rate limits: first the store in the *)
(* memory of one process (MemBudgetStore), then the shared one             *)
(* (RedisBudgetStore), then the two together.                              *)
(***************************************************************************)
EXTENDS BudgetStores, SumsProofs, FiniteSetTheorems

(***************************************************************************)
(* The store in memory.                                                    *)
(***************************************************************************)
\* What ties a reservation to the charge it stands for, and both to the store's
\* month.  SpendMatchesCharges is not inductive without it: Release subtracts
\* res.amount, which must be what the charge counts.
LinkedAt(r) ==
  /\ charge[r].month <= month
  /\ res[r].month <= month
  /\ stage[r] = "idle" => charge[r].st = "none"
  /\ charge[r].st \in {"held", "booked"} => stage[r] = "granted"
  /\ stage[r] = "granted" /\ ~ res[r].applied =>
       charge[r] = [st |-> "held", month |-> res[r].month, amt |-> res[r].amount]
  /\ charge[r].st = "held" => ~ res[r].applied

Linked ==
  /\ month <= wall
  /\ \A r \in Requests : LinkedAt(r)

IInv == TypeOK /\ Linked /\ SpendMatchesCharges
-----------------------------------------------------------------------------
\* The clamp at zero turns any estimate or cost into a natural number.
LEMMA NonNegativeNat ==
  ASSUME NEW x \in Int
  PROVE  NonNegative(x) \in Nat /\ (x \in Nat => NonNegative(x) = x)
BY DEF NonNegative

\* A clamped adjustment leaves the spend map well typed.
LEMMA AdjustedType ==
  ASSUME NEW r \in Requests, NEW delta \in Int, RolledSpend \in [Keys -> Nat]
  PROVE  Adjusted(r, delta) \in [Keys -> Nat]
<1>1. KeyOf[r] \in Keys
  BY StoreAssumption
<1>2. NonNegative(RolledSpend[KeyOf[r]] + delta) \in Nat
  BY <1>1, NonNegativeNat
<1>3. QED BY <1>1, <1>2 DEF Adjusted

\* The store is well typed at all times: in particular no counter goes negative.
THEOREM TypeCorrect == Spec => []TypeOK
<1> USE StoreAssumption
<1>1. Init => TypeOK
  BY DEF Init, TypeOK, NoReservation, NotGranted, Ledger!NoCharge, Ledger!Charges
<1>2. TypeOK /\ [Next]_vars => TypeOK'
  <2> SUFFICES ASSUME TypeOK, [Next]_vars PROVE TypeOK'
    OBVIOUS
  <2>0. RolledSpend \in [Keys -> Nat]
    BY DEF TypeOK, RolledSpend
  <2>1. CASE Tick
    <3>1. now' \in Nat /\ wall' \in Nat
      BY <2>1 DEF Tick, TypeOK
    <3>2. QED BY <2>1, <3>1 DEF Tick, TypeOK, store
  <2>2. CASE Restart
    BY <2>2 DEF Restart, TypeOK, NoReservation, Ledger!VoidCharge, Ledger!Charges
  <2>3. ASSUME NEW r \in Requests, NEW est \in Estimates, Reserve(r, est) PROVE TypeOK'
    <3> DEFINE k == KeyOf[r]
    <3>1. k \in Keys /\ NonNegative(est) \in Nat
      BY NonNegativeNat
    <3>2. CASE RejectBudget(r)
      BY <2>0, <2>3, <3>2 DEF Reserve, RejectBudget, Reject, TypeOK
    <3>3. CASE RejectRate(r)
      BY <2>0, <2>3, <3>1, <3>3 DEF Reserve, RejectRate, Reject, LiveSlots, TypeOK
    <3>4. CASE Grant(r, est)
      <4>1. rates' \in [Keys -> SUBSET [req : Requests, ts : Nat]]
        <5>1. LiveSlots(k) \in SUBSET [req : Requests, ts : Nat]
          BY <3>1 DEF LiveSlots, TypeOK
        <5>2. [req |-> r, ts |-> now] \in [req : Requests, ts : Nat]
          BY DEF TypeOK
        <5> DEFINE L == LiveSlots(k) \cup {[req |-> r, ts |-> now]}
        <5>3. L \in SUBSET [req : Requests, ts : Nat]
          BY <5>1, <5>2
        <5>4. rates' = rates \/ rates' = [rates EXCEPT ![k] = L]
          BY <3>4 DEF Grant
        <5> HIDE DEF L
        <5>5. QED BY <3>1, <5>3, <5>4 DEF TypeOK
      <4>2. spend' \in [Keys -> Nat]
        BY <2>0, <3>1, <3>4 DEF Grant, TypeOK
      <4>3. charge' \in [Requests -> Ledger!Charges({"none", "held", "booked", "void"})]
        BY <3>1, <3>4 DEF Grant, TypeOK, Ledger!Charges
      <4>4. QED BY <2>3, <3>1, <3>4, <4>1, <4>2, <4>3 DEF Reserve, Grant, TypeOK
    <3>5. QED BY <2>3, <3>2, <3>3, <3>4 DEF Reserve
  <2>4. ASSUME NEW r \in Requests, NEW cost \in Costs, Commit(r, cost) PROVE TypeOK'
    <3>1. NonNegative(cost) \in Nat /\ KeyOf[r] \in Keys
      BY NonNegativeNat
    <3>2. spend' \in [Keys -> Nat]
      <4>1. CASE wall = res[r].month
        <5>1. spend' = Adjusted(r, NonNegative(cost) - res[r].amount)
          BY <2>4, <4>1 DEF Commit
        <5>2. QED BY <2>0, <3>1, <5>1, AdjustedType DEF TypeOK
      <4>2. CASE wall # res[r].month
        BY <2>0, <2>4, <3>1, <4>2 DEF Commit, TypeOK
      <4>3. QED BY <4>1, <4>2
    <3>3. charge' \in [Requests -> Ledger!Charges({"none", "held", "booked", "void"})]
      BY <2>4, <3>1 DEF Commit, TypeOK, Ledger!Charges
    <3>4. res' \in [Requests -> [month : Nat, amount : Nat, applied : BOOLEAN]]
      BY <2>4 DEF Commit, TypeOK
    <3>5. QED BY <2>4, <3>2, <3>3, <3>4 DEF Commit, TypeOK
  <2>5. ASSUME NEW r \in Requests, Release(r) PROVE TypeOK'
    <3>1. spend' \in [Keys -> Nat]
      <4>1. CASE wall = res[r].month
        <5>1. spend' = Adjusted(r, - res[r].amount)
          BY <2>5, <4>1 DEF Release
        <5>2. QED BY <2>0, <5>1, AdjustedType DEF TypeOK
      <4>2. CASE wall # res[r].month
        BY <2>0, <2>5, <4>2 DEF Release
      <4>3. QED BY <4>1, <4>2
    <3>2. charge' \in [Requests -> Ledger!Charges({"none", "held", "booked", "void"})]
      BY <2>5 DEF Release, TypeOK, Ledger!Charges, Ledger!VoidCharge
    <3>3. res' \in [Requests -> [month : Nat, amount : Nat, applied : BOOLEAN]]
      BY <2>5 DEF Release, TypeOK
    <3>4. QED BY <2>5, <3>1, <3>2, <3>3 DEF Release, TypeOK
  <2>6. CASE UNCHANGED vars
    BY <2>6 DEF vars, store, TypeOK
  <2>7. QED BY <2>1, <2>2, <2>3, <2>4, <2>5, <2>6 DEF Next, AlreadyApplied
<1>3. QED BY <1>1, <1>2, PTL DEF Spec
-----------------------------------------------------------------------------
(***************************************************************************)
(* How the total of the charges moves.                                     *)
(***************************************************************************)
\* What a charge counts for is a natural number.
LEMMA CountedNat ==
  ASSUME NEW c \in Ledger!Charges({"none", "held", "booked", "void"}), NEW m
  PROVE  Ledger!Counted(c, m) \in Nat
BY DEF Ledger!Counted, Ledger!Charges

\* The charges of a key in a month are a function into the naturals.
LEMMA ChargesOfType ==
  ASSUME TypeOK, NEW k, NEW m
  PROVE  /\ Ledger!ChargesOf(k, m) \in [1..N -> Nat]
         /\ Ledger!ChargesOf(k, m) \in [1..N -> Int]
         /\ \A r \in 1..N : Ledger!ChargesOf(k, m)[r] =
                 IF KeyOf[r] = k THEN Ledger!Counted(charge[r], m) ELSE 0
BY CountedNat DEF TypeOK, Requests, Ledger!Requests, Ledger!ChargesOf

\* Replacing the charge of one request moves its key's total by the difference
\* and leaves every other total alone.
LEMMA SpentMoves ==
  ASSUME TypeOK, TypeOK', NEW r \in Requests, NEW c,
         charge' = [charge EXCEPT ![r] = c], NEW k, NEW m
  PROVE  Ledger!Spent(k, m)' =
           Ledger!Spent(k, m) + (IF KeyOf[r] = k
                                 THEN Ledger!Counted(c, m) - Ledger!Counted(charge[r], m)
                                 ELSE 0)
<1> DEFINE f == Ledger!ChargesOf(k, m)
           g == Ledger!ChargesOf(k, m)'
<1>1. f \in [1..N -> Int] /\ g \in [1..N -> Int]
  BY CountedNat DEF TypeOK, Requests, Ledger!Requests, Ledger!ChargesOf
<1>2. r \in 1..N /\ N \in Nat
  BY StoreAssumption DEF Requests
<1>3. \A i \in 1..N : i # r => g[i] = f[i]
  BY <1>2 DEF TypeOK, Requests, Ledger!Requests, Ledger!ChargesOf
<1>4. /\ f[r] = IF KeyOf[r] = k THEN Ledger!Counted(charge[r], m) ELSE 0
      /\ g[r] = IF KeyOf[r] = k THEN Ledger!Counted(c, m) ELSE 0
  BY <1>2 DEF TypeOK, Requests, Ledger!Requests, Ledger!ChargesOf
<1>5. Total(g, N) = Total(f, N) + (g[r] - f[r])
  <2> HIDE DEF f, g
  <2> QED BY <1>1, <1>2, <1>3, TotalUpdate
<1>6. f[r] \in Int /\ g[r] \in Int /\ Total(f, N) \in Int
  <2> HIDE DEF f, g
  <2> QED BY <1>1, <1>2, TotalInt
<1>7. Ledger!Spent(k, m)' = Total(g, N) /\ Ledger!Spent(k, m) = Total(f, N)
  BY DEF Ledger!Spent, Ledger!Total, Total, Ledger!RunningTotal, RunningTotal
<1> HIDE DEF f, g
<1>8. CASE KeyOf[r] = k
  BY <1>4, <1>5, <1>7, <1>8
<1>9. CASE KeyOf[r] # k
  BY <1>4, <1>5, <1>6, <1>7, <1>9
<1>10. QED BY <1>8, <1>9

\* The total of the charges is a natural number.
LEMMA SpentNat ==
  ASSUME TypeOK, NEW k, NEW m
  PROVE  /\ Ledger!Spent(k, m) \in Int
         /\ \A r \in Requests : KeyOf[r] = k =>
               Ledger!Counted(charge[r], m) <= Ledger!Spent(k, m)
<1>1. Ledger!Spent(k, m) = Total(Ledger!ChargesOf(k, m), N)
  BY DEF Ledger!Spent, Ledger!Total, Total, Ledger!RunningTotal, RunningTotal
<1> DEFINE f == Ledger!ChargesOf(k, m)
<1>2. /\ f \in [1..N -> Nat] /\ f \in [1..N -> Int] /\ N \in Nat
      /\ \A r \in 1..N : KeyOf[r] = k => f[r] = Ledger!Counted(charge[r], m)
  BY ChargesOfType, StoreAssumption
<1> HIDE DEF f
<1>3. Total(f, N) \in Int
  BY <1>2, TotalInt
<1>4. \A r \in 1..N : f[r] <= Total(f, N)
  BY <1>2, TotalBoundsEntry
<1>5. QED
  BY <1>1, <1>2, <1>3, <1>4 DEF Requests, f

\* Rolling the month yields the true spend of the calendar month: when the month
\* has changed, no charge counts against the new one yet.
LEMMA RolledSpendMatches ==
  ASSUME IInv, NEW k \in Keys
  PROVE  RolledSpend[k] = Ledger!Spent(k, wall)
<1>1. CASE wall = month
  BY <1>1 DEF IInv, SpendMatchesCharges, RolledSpend
<1>2. CASE wall # month
  <2>1. \A r \in 1..N : Ledger!ChargesOf(k, wall)[r] = 0
    <3>1. month < wall
      BY <1>2 DEF IInv, Linked, TypeOK
    <3>2. ASSUME NEW r \in 1..N PROVE Ledger!Counted(charge[r], wall) = 0
      BY <3>1 DEF IInv, Linked, LinkedAt, TypeOK, Requests, Ledger!Counted, Ledger!Charges
    <3>3. QED BY <3>2, ChargesOfType DEF IInv
  <2>2. Total(Ledger!ChargesOf(k, wall), N) = 0
    BY <2>1, ChargesOfType, TotalZero, StoreAssumption DEF IInv
  <2>3. QED
    BY <1>2, <2>2 DEF RolledSpend, Ledger!Spent, Ledger!Total, Total,
                      Ledger!RunningTotal, RunningTotal
<1>3. QED BY <1>1, <1>2

\* A granted Reserve keeps the ledger: counter and charges grow by the hold.
LEMMA GrantKeepsLedger ==
  ASSUME IInv, TypeOK', NEW r \in Requests, NEW est \in Estimates,
         stage[r] = "idle", month' = wall, UNCHANGED <<now, wall>>, Grant(r, est)
  PROVE  Linked' /\ SpendMatchesCharges'
<1> DEFINE a == NonNegative(est)
           c == [st |-> "held", month |-> wall, amt |-> a]
<1>1. a \in Nat /\ KeyOf[r] \in Keys
  BY NonNegativeNat, StoreAssumption
<1>2. charge' = [charge EXCEPT ![r] = c]
  BY DEF Grant
<1>3. Linked'
  <2>1. charge[r].st = "none"
    BY DEF IInv, Linked, LinkedAt
  <2>2. month' <= wall'
    BY DEF IInv, Linked, TypeOK
  <2>3. ASSUME NEW q \in Requests PROVE LinkedAt(q)'
    <3>1. CASE q = r
      BY <1>1, <1>2, <3>1 DEF Grant, IInv, TypeOK, LinkedAt
    <3>2. CASE q # r
      <4>1. charge'[q] = charge[q] /\ res'[q] = res[q] /\ stage'[q] = stage[q]
        BY <1>2, <3>2 DEF Grant, IInv, TypeOK
      <4>2. QED BY <4>1 DEF IInv, TypeOK, Linked, LinkedAt, Ledger!Charges
    <3>3. QED BY <3>1, <3>2
  <2>4. QED BY <2>2, <2>3 DEF Linked
<1>4. ASSUME NEW k \in Keys PROVE spend'[k] = Ledger!Spent(k, month)'
  <2>1. Ledger!Counted(c, wall) = a /\ Ledger!Counted(charge[r], wall) = 0
    BY <1>1 DEF Ledger!Counted, IInv, Linked, LinkedAt
  <2>2. Ledger!Spent(k, month)' =
          Ledger!Spent(k, wall) + (IF KeyOf[r] = k THEN a ELSE 0)
    <3>1. PICK m \in Nat : m = wall
      BY DEF IInv, TypeOK
    <3>2. Ledger!Spent(k, m)' =
            Ledger!Spent(k, m) + (IF KeyOf[r] = k
                                  THEN Ledger!Counted(c, m) - Ledger!Counted(charge[r], m)
                                  ELSE 0)
      BY <1>2, SpentMoves DEF IInv
    <3>3. month' = m /\ Ledger!Spent(k, month)' = Ledger!Spent(k, m)'
      BY <3>1
    <3>4. QED BY <1>1, <2>1, <3>1, <3>2, <3>3
  <2>3. RolledSpend[k] = Ledger!Spent(k, wall)
    BY RolledSpendMatches
  <2>4. spend'[k] = RolledSpend[k] + (IF KeyOf[r] = k THEN a ELSE 0)
    BY <1>1, SpentNat, <2>3 DEF Grant, IInv, TypeOK, RolledSpend
  <2>5. QED BY <2>2, <2>3, <2>4
<1>5. QED BY <1>3, <1>4 DEF SpendMatchesCharges

\* What Commit and Release have in common, c being the charge they leave behind:
\* the reservation is marked applied and the store's month is rolled.
Settles(r, c) ==
  /\ stage[r] = "granted" /\ ~ res[r].applied
  /\ res' = [res EXCEPT ![r].applied = TRUE]
  /\ month' = wall
  /\ charge' = [charge EXCEPT ![r] = c]
  /\ UNCHANGED <<wall, stage>>

\* Settling a reservation keeps reservations and charges linked.
LEMMA SettleKeepsLinked ==
  ASSUME IInv, NEW r \in Requests, NEW c \in Ledger!Charges({"booked", "void"}),
         c.month <= wall, Settles(r, c)
  PROVE  Linked'
<1>1. month' <= wall'
  BY DEF IInv, Linked, TypeOK, Settles
<1>2. ASSUME NEW q \in Requests PROVE LinkedAt(q)'
  <2>1. CASE q = r
    BY <2>1 DEF Settles, IInv, TypeOK, Linked, LinkedAt, Ledger!Charges
  <2>2. CASE q # r
    <3>1. charge'[q] = charge[q] /\ res'[q] = res[q] /\ stage'[q] = stage[q]
      BY <2>2 DEF Settles, IInv, TypeOK
    <3>2. QED BY <3>1 DEF Settles, IInv, TypeOK, Linked, LinkedAt, Ledger!Charges
  <2>3. QED BY <2>1, <2>2
<1>3. QED BY <1>1, <1>2 DEF Linked

\* Settling moves the spend of the calendar month by the counted amount of the
\* charge left behind minus what the hold counted for, and the counter never
\* falls below zero on the way.
LEMMA SettleMovesSpent ==
  ASSUME IInv, TypeOK', NEW r \in Requests, NEW c \in Ledger!Charges({"booked", "void"}),
         Settles(r, c), NEW k \in Keys
  PROVE  /\ Ledger!Spent(k, month)' =
               RolledSpend[k] + (IF KeyOf[r] = k
                                 THEN Ledger!Counted(c, wall) - Ledger!Counted(charge[r], wall)
                                 ELSE 0)
         /\ KeyOf[r] = k => Ledger!Counted(charge[r], wall) <= RolledSpend[k]
         /\ Ledger!Counted(charge[r], wall) =
               IF res[r].month = wall THEN res[r].amount ELSE 0
<1>1. PICK m \in Nat : m = wall
  BY DEF IInv, TypeOK
<1>2. Ledger!Spent(k, m)' =
        Ledger!Spent(k, m) + (IF KeyOf[r] = k
                              THEN Ledger!Counted(c, m) - Ledger!Counted(charge[r], m)
                              ELSE 0)
  BY SpentMoves DEF IInv, Settles
<1>3. Ledger!Spent(k, month)' = Ledger!Spent(k, m)'
  BY <1>1 DEF Settles
<1>4. RolledSpend[k] = Ledger!Spent(k, wall)
  BY RolledSpendMatches
<1>5. KeyOf[r] = k => Ledger!Counted(charge[r], wall) <= RolledSpend[k]
  BY <1>4, SpentNat DEF IInv
<1>6. Ledger!Counted(charge[r], wall) = IF res[r].month = wall THEN res[r].amount ELSE 0
  <2>1. charge[r] = [st |-> "held", month |-> res[r].month, amt |-> res[r].amount]
    BY DEF Settles, IInv, Linked, LinkedAt
  <2>2. QED BY <2>1 DEF Ledger!Counted
<1>7. QED BY <1>1, <1>2, <1>3, <1>4, <1>5, <1>6

\* Commit keeps the ledger, in the month of the hold and in a later one.
LEMMA CommitKeepsLedger ==
  ASSUME IInv, TypeOK', NEW r \in Requests, NEW cost \in Costs, Commit(r, cost)
  PROVE  Linked' /\ SpendMatchesCharges'
<1> DEFINE a == NonNegative(cost)
           c == [st |-> "booked", month |-> wall, amt |-> a]
<1>1. a \in Nat /\ KeyOf[r] \in Keys /\ RolledSpend \in [Keys -> Nat]
  BY NonNegativeNat, StoreAssumption DEF IInv, TypeOK, RolledSpend
<1>2. /\ c \in Ledger!Charges({"booked", "void"}) /\ c.month <= wall
      /\ Ledger!Counted(c, wall) = a
  BY <1>1 DEF Ledger!Charges, Ledger!Counted, IInv, TypeOK
<1>3. Settles(r, c)
  BY DEF Commit, Settles
<1>4. Linked'
  <2> HIDE DEF c
  <2> QED BY <1>2, <1>3, SettleKeepsLinked
<1>5. ASSUME NEW k \in Keys PROVE spend'[k] = Ledger!Spent(k, month)'
  <2>1. /\ Ledger!Spent(k, month)' =
             RolledSpend[k] + (IF KeyOf[r] = k
                               THEN a - Ledger!Counted(charge[r], wall)
                               ELSE 0)
        /\ KeyOf[r] = k => Ledger!Counted(charge[r], wall) <= RolledSpend[k]
        /\ Ledger!Counted(charge[r], wall) =
             IF res[r].month = wall THEN res[r].amount ELSE 0
    <3> HIDE DEF c, a
    <3> QED BY <1>2, <1>3, SettleMovesSpent
  <2>2. RolledSpend[k] \in Nat /\ res[r].amount \in Nat
    BY <1>1 DEF IInv, TypeOK
  <2> HIDE DEF a
  <2>3. CASE wall = res[r].month
    <3>1. spend' = Adjusted(r, a - res[r].amount)
      BY <2>3 DEF Commit, a
    <3>2. CASE KeyOf[r] = k
      <4>1. spend'[k] = NonNegative(RolledSpend[k] + (a - res[r].amount))
        BY <1>1, <3>1, <3>2 DEF Adjusted
      <4>2. RolledSpend[k] + (a - res[r].amount) \in Nat
        BY <1>1, <2>1, <2>2, <2>3, <3>2
      <4>3. QED BY <1>1, <2>1, <2>2, <2>3, <3>2, <4>1, <4>2, NonNegativeNat
    <3>3. CASE KeyOf[r] # k
      BY <1>1, <2>1, <2>2, <3>1, <3>3 DEF Adjusted
    <3>4. QED BY <3>2, <3>3
  <2>4. CASE wall # res[r].month
    <3>1. spend' = [RolledSpend EXCEPT ![KeyOf[r]] = @ + a]
      BY <2>4 DEF Commit, a
    <3>2. CASE KeyOf[r] = k
      BY <1>1, <2>1, <2>2, <2>4, <3>1, <3>2
    <3>3. CASE KeyOf[r] # k
      BY <1>1, <2>1, <2>2, <3>1, <3>3
    <3>4. QED BY <3>2, <3>3
  <2>5. QED BY <2>3, <2>4
<1>6. QED BY <1>4, <1>5 DEF SpendMatchesCharges

\* Release keeps the ledger, in the month of the hold and in a later one.
LEMMA ReleaseKeepsLedger ==
  ASSUME IInv, TypeOK', NEW r \in Requests, Release(r)
  PROVE  Linked' /\ SpendMatchesCharges'
<1> DEFINE c == Ledger!VoidCharge
<1>1. KeyOf[r] \in Keys /\ RolledSpend \in [Keys -> Nat]
  BY StoreAssumption DEF IInv, TypeOK, RolledSpend
<1>2. /\ c \in Ledger!Charges({"booked", "void"}) /\ c.month <= wall
      /\ Ledger!Counted(c, wall) = 0
  BY DEF Ledger!Charges, Ledger!Counted, Ledger!VoidCharge, IInv, TypeOK
<1>3. Settles(r, c)
  BY DEF Release, Settles
<1> HIDE DEF c
<1>4. Linked'
  BY <1>2, <1>3, SettleKeepsLinked
<1>5. ASSUME NEW k \in Keys PROVE spend'[k] = Ledger!Spent(k, month)'
  <2>1. /\ Ledger!Spent(k, month)' =
             RolledSpend[k] + (IF KeyOf[r] = k
                               THEN 0 - Ledger!Counted(charge[r], wall)
                               ELSE 0)
        /\ KeyOf[r] = k => Ledger!Counted(charge[r], wall) <= RolledSpend[k]
        /\ Ledger!Counted(charge[r], wall) =
             IF res[r].month = wall THEN res[r].amount ELSE 0
    BY <1>2, <1>3, SettleMovesSpent
  <2>2. RolledSpend[k] \in Nat /\ res[r].amount \in Nat
    BY <1>1 DEF IInv, TypeOK
  <2>3. CASE wall = res[r].month
    <3>1. spend' = Adjusted(r, - res[r].amount)
      BY <2>3 DEF Release
    <3>2. CASE KeyOf[r] = k
      <4>1. spend'[k] = NonNegative(RolledSpend[k] + (- res[r].amount))
        BY <1>1, <3>1, <3>2 DEF Adjusted
      <4>2. RolledSpend[k] + (- res[r].amount) \in Nat
        BY <1>1, <2>1, <2>2, <2>3, <3>2
      <4>3. QED BY <1>1, <2>1, <2>2, <2>3, <3>2, <4>1, <4>2, NonNegativeNat
    <3>3. CASE KeyOf[r] # k
      BY <1>1, <2>1, <2>2, <3>1, <3>3 DEF Adjusted
    <3>4. QED BY <3>2, <3>3
  <2>4. CASE wall # res[r].month
    BY <2>1, <2>2, <2>4 DEF Release
  <2>5. QED BY <2>3, <2>4
<1>6. QED BY <1>4, <1>5 DEF SpendMatchesCharges
-----------------------------------------------------------------------------
\* A rejected Reserve keeps the ledger: only the month may have rolled.
LEMMA RejectKeepsLedger ==
  ASSUME IInv, NEW r \in Requests, stage[r] = "idle", month' = wall,
         UNCHANGED <<now, wall>>, Reject(r)
  PROVE  Linked' /\ SpendMatchesCharges'
<1>1. Linked'
  <2>1. month' <= wall'
    BY DEF IInv, Linked, TypeOK
  <2>2. ASSUME NEW q \in Requests PROVE LinkedAt(q)'
    BY DEF Reject, IInv, TypeOK, Linked, LinkedAt, Ledger!Charges
  <2>3. QED BY <2>1, <2>2 DEF Linked
<1>2. ASSUME NEW k \in Keys PROVE spend'[k] = Ledger!Spent(k, month)'
  <2>1. Ledger!ChargesOf(k, month)' = Ledger!ChargesOf(k, wall)
    BY DEF Reject, Ledger!ChargesOf, Ledger!Counted
  <2>2. Ledger!Spent(k, month)' = Ledger!Spent(k, wall)
    BY <2>1 DEF Ledger!Spent
  <2>3. QED BY <2>2, RolledSpendMatches DEF Reject
<1>3. QED BY <1>1, <1>2 DEF SpendMatchesCharges

\* A restart keeps the ledger: counters and charges are forgotten together.
LEMMA RestartKeepsLedger ==
  ASSUME IInv, TypeOK', Restart
  PROVE  Linked' /\ SpendMatchesCharges'
<1>1. Linked'
  <2>1. month' <= wall'
    BY DEF Restart, IInv, Linked, TypeOK
  <2>2. ASSUME NEW q \in Requests PROVE LinkedAt(q)'
    BY DEF Restart, IInv, TypeOK, Linked, LinkedAt, NoReservation, Ledger!VoidCharge,
           Ledger!Charges
  <2>3. QED BY <2>1, <2>2 DEF Linked
<1>2. ASSUME NEW k \in Keys PROVE spend'[k] = Ledger!Spent(k, month)'
  <2> DEFINE f == Ledger!ChargesOf(k, month)'
  <2>1. f \in [1..N -> Int] /\ \A i \in 1..N : f[i] = 0
    BY DEF Restart, IInv, TypeOK, Requests, Ledger!Requests, Ledger!ChargesOf,
           Ledger!Counted, Ledger!VoidCharge, Ledger!Charges
  <2>2. Ledger!Spent(k, month)' = Total(f, N)
    BY DEF Ledger!Spent, Ledger!Total, Total, Ledger!RunningTotal, RunningTotal
  <2> HIDE DEF f
  <2>3. Total(f, N) = 0
    BY <2>1, TotalZero, StoreAssumption
  <2>4. QED BY <2>2, <2>3 DEF Restart
<1>3. QED BY <1>1, <1>2 DEF SpendMatchesCharges

\* Steps that leave the store alone (the clock, a second settle) keep the ledger.
LEMMA UnchangedKeepsLedger ==
  ASSUME IInv, UNCHANGED <<month, spend, stage, res, charge>>, wall <= wall', wall' \in Nat
  PROVE  Linked' /\ SpendMatchesCharges'
<1>1. Linked'
  BY DEF IInv, TypeOK, Linked, LinkedAt
<1>2. \A k \in Keys : Ledger!Spent(k, month)' = Ledger!Spent(k, month)
  BY DEF Ledger!Spent, Ledger!ChargesOf, Ledger!Counted
<1>3. QED BY <1>1, <1>2 DEF IInv, SpendMatchesCharges

\* The inductive invariant holds initially.
LEMMA InitIInv == Init => IInv
<1> SUFFICES ASSUME Init PROVE IInv
  OBVIOUS
<1>1. TypeOK
  BY DEF Init, TypeOK, NoReservation, NotGranted, Ledger!NoCharge, Ledger!Charges
<1>2. Linked
  BY DEF Init, Linked, LinkedAt, NoReservation, Ledger!NoCharge
<1>3. ASSUME NEW k \in Keys PROVE spend[k] = Ledger!Spent(k, month)
  <2>1. \A r \in 1..N : Ledger!ChargesOf(k, month)[r] = 0
    BY DEF Init, Requests, Ledger!Requests, Ledger!ChargesOf, Ledger!Counted, Ledger!NoCharge
  <2>2. Total(Ledger!ChargesOf(k, month), N) = 0
    BY <1>1, <2>1, ChargesOfType, TotalZero, StoreAssumption
  <2>3. QED
    BY <2>2 DEF Init, Ledger!Spent, Ledger!Total, Total, Ledger!RunningTotal, RunningTotal
<1>4. QED BY <1>1, <1>2, <1>3 DEF IInv, SpendMatchesCharges

\* Every step preserves the inductive invariant.
LEMMA NextIInv == IInv /\ TypeOK' /\ [Next]_vars => IInv'
<1> SUFFICES ASSUME IInv, TypeOK', [Next]_vars PROVE Linked' /\ SpendMatchesCharges'
  BY DEF IInv
<1>1. CASE Tick
  <2>1. wall <= wall' /\ wall' \in Nat
    BY <1>1 DEF Tick, IInv, TypeOK
  <2>2. QED BY <1>1, <2>1, UnchangedKeepsLedger DEF Tick, store
<1>2. CASE Restart
  BY <1>2, RestartKeepsLedger
<1>3. ASSUME NEW r \in Requests, NEW est \in Estimates, Reserve(r, est)
      PROVE  Linked' /\ SpendMatchesCharges'
  <2>1. stage[r] = "idle" /\ month' = wall /\ UNCHANGED <<now, wall>>
    BY <1>3 DEF Reserve
  <2>2. CASE RejectBudget(r) \/ RejectRate(r)
    BY <2>1, <2>2, RejectKeepsLedger DEF RejectBudget, RejectRate
  <2>3. CASE Grant(r, est)
    BY <2>1, <2>3, GrantKeepsLedger
  <2>4. QED BY <1>3, <2>2, <2>3 DEF Reserve
<1>4. ASSUME NEW r \in Requests, NEW cost \in Costs, Commit(r, cost)
      PROVE  Linked' /\ SpendMatchesCharges'
  BY <1>4, CommitKeepsLedger
<1>5. ASSUME NEW r \in Requests, Release(r)
      PROVE  Linked' /\ SpendMatchesCharges'
  BY <1>5, ReleaseKeepsLedger
<1>6. CASE UNCHANGED vars
  <2>1. wall <= wall' /\ wall' \in Nat
    BY <1>6 DEF vars, IInv, TypeOK
  <2>2. QED BY <1>6, <2>1, UnchangedKeepsLedger DEF vars, store
<1>7. QED BY <1>1, <1>2, <1>3, <1>4, <1>5, <1>6 DEF Next, AlreadyApplied

\* The month-to-date counter always equals the outstanding holds plus the costs
\* committed in the store's month, for every number of requests and keys.
THEOREM LedgerExact == Spec => []SpendMatchesCharges
<1>1. IInv => SpendMatchesCharges
  BY DEF IInv
<1>2. QED BY InitIInv, NextIInv, TypeCorrect, <1>1, PTL DEF Spec
-----------------------------------------------------------------------------
(***************************************************************************)
(* The store implements the ledger.                                        *)
(***************************************************************************)
\* A granted Reserve is the ledger's Hold: the counter admits what the ledger does.
LEMMA GrantHolds ==
  ASSUME IInv, NEW r \in Requests, NEW est \in Estimates, Reserve(r, est), Grant(r, est)
  PROVE  Ledger!Hold(r)
<1> DEFINE a == NonNegative(est)
<1>1. a \in Nat /\ KeyOf[r] \in Keys
  BY NonNegativeNat, StoreAssumption
<1>2. charge[r].st = "none"
  BY DEF Reserve, IInv, Linked, LinkedAt
<1>3. charge'[r] = [st |-> "held", month |-> wall, amt |-> a]
  BY DEF Grant, IInv, TypeOK
<1>4. Ledger!OnlyChanges(r)
  BY <1>3 DEF Grant, Ledger!OnlyChanges
<1>5. charge'[r] \in Ledger!Charges({"held"})
  BY <1>1, <1>3 DEF Ledger!Charges, IInv, TypeOK
<1>6. Ledger!Admits(KeyOf[r], wall)
  <2>1. RolledSpend[KeyOf[r]] = Ledger!Spent(KeyOf[r], wall)
    BY <1>1, RolledSpendMatches
  <2>2. RolledSpend[KeyOf[r]] \in Nat /\ MonthlyBudget[KeyOf[r]] \in Nat
    BY <1>1, StoreAssumption DEF RolledSpend, IInv, TypeOK
  <2>3. [k \in Keys |-> 0][KeyOf[r]] = 0 /\ Ledger!Spent(KeyOf[r], wall) \in Nat
    BY <1>1, <2>1, <2>2
  <2>4. QED BY <2>1, <2>2, <2>3 DEF Grant, OverBudget, Ledger!Admits
<1>7. QED BY <1>2, <1>3, <1>4, <1>5, <1>6 DEF Ledger!Hold

\* Commit is the ledger's Book.
LEMMA CommitBooks ==
  ASSUME IInv, NEW r \in Requests, NEW cost \in Costs, Commit(r, cost)
  PROVE  Ledger!Book(r)
<1> DEFINE a == NonNegative(cost)
<1>1. a \in Nat
  BY NonNegativeNat, StoreAssumption
<1>2. charge[r] = [st |-> "held", month |-> res[r].month, amt |-> res[r].amount]
  BY DEF Commit, IInv, Linked, LinkedAt
<1>3. charge'[r] = [st |-> "booked", month |-> wall, amt |-> a]
  BY DEF Commit, IInv, TypeOK
<1>4. Ledger!OnlyChanges(r)
  BY <1>3 DEF Commit, Ledger!OnlyChanges
<1>5. charge'[r] \in Ledger!Charges({"booked"})
  BY <1>1, <1>3 DEF Ledger!Charges, IInv, TypeOK
<1>6. res[r].month <= wall
  BY DEF IInv, Linked, LinkedAt, TypeOK
<1>7. QED BY <1>2, <1>3, <1>4, <1>5, <1>6 DEF Ledger!Book

\* Every behaviour of the store is a behaviour of the ledger: a request is charged
\* at most once, and a hold is admitted only while the true total of the charges
\* of its key and month is below the cap.
THEOREM ImplementsLedger == Spec => LedgerSpec
<1>1. Init => Ledger!Init
  BY DEF Init, Ledger!Init, Ledger!Requests, Requests
<1>2. IInv /\ [Next]_vars => [Ledger!Next]_<<charge, [k \in Keys |-> 0]>>
  <2> SUFFICES ASSUME IInv, [Next]_vars PROVE [Ledger!Next]_<<charge, [k \in Keys |-> 0]>>
    OBVIOUS
  <2> USE DEF Ledger!Next, Ledger!Requests, Requests
  <2>1. CASE Tick
    BY <2>1 DEF Tick
  <2>2. CASE Restart
    BY <2>2 DEF Restart, Ledger!Forget
  <2>3. ASSUME NEW r \in Requests, NEW est \in Estimates, Reserve(r, est)
        PROVE  [Ledger!Next]_<<charge, [k \in Keys |-> 0]>>
    <3>1. CASE Grant(r, est)
      BY <2>3, <3>1, GrantHolds
    <3>2. CASE ~ Grant(r, est)
      BY <2>3, <3>2 DEF Reserve, RejectBudget, RejectRate, Reject
    <3>3. QED BY <3>1, <3>2
  <2>4. ASSUME NEW r \in Requests, NEW cost \in Costs, Commit(r, cost)
        PROVE  [Ledger!Next]_<<charge, [k \in Keys |-> 0]>>
    BY <2>4, CommitBooks
  <2>5. ASSUME NEW r \in Requests, Release(r)
        PROVE  [Ledger!Next]_<<charge, [k \in Keys |-> 0]>>
    <3>1. charge[r].st = "held"
      <4>1. LinkedAt(r) /\ stage[r] = "granted" /\ ~ res[r].applied
        BY <2>5 DEF Release, IInv, Linked
      <4>2. QED BY <4>1 DEF LinkedAt
    <3>2. QED BY <2>5, <3>1 DEF Release, Ledger!Drop
  <2>6. CASE UNCHANGED vars
    BY <2>6 DEF vars
  <2>7. QED BY <2>1, <2>2, <2>3, <2>4, <2>5, <2>6 DEF Next, AlreadyApplied
<1>3. QED
  BY <1>1, <1>2, InitIInv, NextIInv, TypeCorrect, PTL DEF Spec, LedgerSpec, Ledger!Spec
-----------------------------------------------------------------------------
(***************************************************************************)
(* The cap.  Excess moves only when a cost is committed, and then by at    *)
(* least as much as the counter does.                                      *)
(***************************************************************************)
ExcessAt(r, m) ==
  IF charge[r].st = "booked" /\ charge[r].month = m
  THEN IF res[r].month = m THEN NonNegative(charge[r].amt - res[r].amount)
       ELSE charge[r].amt
  ELSE 0

\* The excess of realised costs over holds is a function into the naturals.
LEMMA ExcessOfType ==
  TypeOK => \A k, m : /\ ExcessOf(k, m) \in [1..N -> Nat]
                      /\ ExcessOf(k, m) \in [1..N -> Int]
                      /\ \A r \in 1..N : ExcessOf(k, m)[r] =
                            IF KeyOf[r] = k THEN ExcessAt(r, m) ELSE 0
<1> SUFFICES ASSUME TypeOK, NEW k, NEW m
             PROVE  /\ ExcessOf(k, m) \in [1..N -> Nat]
                    /\ ExcessOf(k, m) \in [1..N -> Int]
                    /\ \A r \in 1..N : ExcessOf(k, m)[r] =
                            IF KeyOf[r] = k THEN ExcessAt(r, m) ELSE 0
  OBVIOUS
<1>1. ASSUME NEW r \in 1..N
      PROVE  NonNegative(charge[r].amt - res[r].amount) \in Nat /\ charge[r].amt \in Nat
  BY NonNegativeNat DEF TypeOK, Requests, Ledger!Charges
<1>2. QED BY <1>1 DEF ExcessOf, ExcessAt, Requests

\* The total excess is a natural number.
LEMMA ExcessNat ==
  ASSUME TypeOK, NEW k, NEW m
  PROVE  Total(ExcessOf(k, m), N) \in Nat
<1> DEFINE f == ExcessOf(k, m)
<1>1. f \in [1..N -> Nat] /\ f \in [1..N -> Int] /\ N \in Nat
  BY ExcessOfType, StoreAssumption
<1> HIDE DEF f
<1>2. Total(f, N) \in Int
  BY <1>1, TotalInt
<1>3. CASE N = 0
  <2>1. \A i \in 1..N : f[i] = 0
    BY <1>3
  <2>2. Total(f, N) = 0
    BY <1>1, <2>1, TotalZero
  <2>3. QED BY <2>2 DEF f
<1>4. CASE N # 0
  <2>1. f[1] <= Total(f, N) /\ f[1] \in Nat
    BY <1>1, <1>4, TotalBoundsEntry
  <2>2. QED BY <1>2, <2>1 DEF f
<1>5. QED BY <1>3, <1>4

\* Total excess moves by the change of one request's entry.
LEMMA ExcessMoves ==
  ASSUME TypeOK, TypeOK', NEW r \in Requests, NEW k, NEW m,
         \A q \in Requests : q # r => charge'[q] = charge[q] /\ res'[q] = res[q]
  PROVE  Total(ExcessOf(k, m), N)' =
           Total(ExcessOf(k, m), N) + (IF KeyOf[r] = k THEN ExcessAt(r, m)' - ExcessAt(r, m)
                                       ELSE 0)
<1> DEFINE f == ExcessOf(k, m)
           g == ExcessOf(k, m)'
<1>1. f \in [1..N -> Int] /\ g \in [1..N -> Int] /\ N \in Nat /\ r \in 1..N
  <2>1. f \in [1..N -> Int]
    BY ExcessOfType
  <2>2. \A q \in 1..N : NonNegative(charge'[q].amt - res'[q].amount) \in Nat /\ charge'[q].amt \in Nat
    BY NonNegativeNat DEF TypeOK, Requests, Ledger!Charges
  <2>3. g \in [1..N -> Int]
    BY <2>2 DEF ExcessOf, Requests
  <2>4. QED BY <2>1, <2>3, StoreAssumption DEF Requests
<1>2. \A i \in 1..N : i # r => g[i] = f[i]
  BY DEF ExcessOf, Requests
<1>3. /\ f[r] = IF KeyOf[r] = k THEN ExcessAt(r, m) ELSE 0
      /\ g[r] = IF KeyOf[r] = k THEN ExcessAt(r, m)' ELSE 0
  BY DEF ExcessOf, ExcessAt, Requests
<1>4. Total(ExcessOf(k, m), N)' = Total(g, N) /\ Total(ExcessOf(k, m), N) = Total(f, N)
  BY DEF Total, RunningTotal
<1> HIDE DEF f, g
<1>5. Total(g, N) = Total(f, N) + (g[r] - f[r])
  BY <1>1, <1>2, TotalUpdate
<1>6. Total(f, N) \in Int
  BY <1>1, TotalInt
<1>7. CASE KeyOf[r] = k
  BY <1>3, <1>4, <1>5, <1>7
<1>8. CASE KeyOf[r] # k
  BY <1>3, <1>4, <1>5, <1>6, <1>8
<1>9. QED BY <1>7, <1>8

\* The bound at the start of a call, once the month is rolled.
LEMMA RolledBelowCap ==
  ASSUME IInv, CapExceededByOneHold, NEW k \in Keys, MonthlyBudget[k] > 0
  PROVE  RolledSpend[k] < MonthlyBudget[k] + MaxEstimate + Total(ExcessOf(k, wall), N)
<1>1. CASE wall = month
  BY <1>1 DEF CapExceededByOneHold, RolledSpend
<1>2. CASE wall # month
  BY <1>2, ExcessNat, StoreAssumption DEF RolledSpend, IInv
<1>3. QED BY <1>1, <1>2

\* One call of request r: if the counter of its key grows by no more than its
\* excess does, or was below the cap and grows by one hold, the bound survives.
LEMMA CallKeepsCap ==
  ASSUME IInv, IInv', CapExceededByOneHold, NEW r \in Requests, month' = wall,
         \A q \in Requests : q # r => charge'[q] = charge[q] /\ res'[q] = res[q],
         \A k \in Keys : k # KeyOf[r] => spend'[k] = RolledSpend[k],
         ExcessAt(r, wall) = 0, NEW x \in Nat,
         \A m \in Nat : m = wall => ExcessAt(r, m)' = x,
         \/ spend'[KeyOf[r]] <= RolledSpend[KeyOf[r]] + x
         \/ /\ ~ OverBudget(KeyOf[r])
            /\ spend'[KeyOf[r]] <= RolledSpend[KeyOf[r]] + MaxEstimate
  PROVE  CapExceededByOneHold'
<1> SUFFICES ASSUME NEW k \in Keys, MonthlyBudget[k] > 0
             PROVE  spend'[k] < MonthlyBudget[k] + MaxEstimate + Total(ExcessOf(k, month), N)'
  BY DEF CapExceededByOneHold
<1>1. PICK m \in Nat : m = wall
  BY DEF IInv, TypeOK
<1>2. Total(ExcessOf(k, m), N)' =
        Total(ExcessOf(k, m), N) + (IF KeyOf[r] = k THEN ExcessAt(r, m)' - ExcessAt(r, m) ELSE 0)
  BY ExcessMoves DEF IInv
<1>3. Total(ExcessOf(k, month), N)' = Total(ExcessOf(k, m), N)'
  BY <1>1
<1>4. Total(ExcessOf(k, m), N) \in Nat
  BY ExcessNat DEF IInv
<1>5. RolledSpend[k] < MonthlyBudget[k] + MaxEstimate + Total(ExcessOf(k, m), N)
  BY <1>1, RolledBelowCap
<1>6. /\ RolledSpend[k] \in Nat /\ spend'[k] \in Nat
      /\ MonthlyBudget[k] \in Nat /\ MaxEstimate \in Nat
  BY StoreAssumption DEF IInv, TypeOK, RolledSpend
<1>7. CASE KeyOf[r] # k
  BY <1>2, <1>3, <1>4, <1>5, <1>6, <1>7
<1>8. CASE KeyOf[r] = k
  <2>1. Total(ExcessOf(k, m), N)' = Total(ExcessOf(k, m), N) + x
    BY <1>1, <1>2, <1>4, <1>8
  <2>2. CASE spend'[k] <= RolledSpend[k] + x
    BY <1>3, <1>4, <1>5, <1>6, <2>1, <2>2
  <2>3. CASE ~ OverBudget(k) /\ spend'[k] <= RolledSpend[k] + MaxEstimate
    <3>1. RolledSpend[k] < MonthlyBudget[k]
      BY <1>6, <2>3 DEF OverBudget
    <3>2. QED BY <1>3, <1>4, <1>6, <2>1, <2>3, <3>1
  <2>4. QED BY <1>8, <2>2, <2>3
<1>9. QED BY <1>7, <1>8

\* A granted Reserve started below the cap and adds one hold.
LEMMA GrantKeepsCap ==
  ASSUME IInv, IInv', CapExceededByOneHold, NEW r \in Requests, NEW est \in Estimates,
         stage[r] = "idle", month' = wall, Grant(r, est)
  PROVE  CapExceededByOneHold'
<1> DEFINE a == NonNegative(est)
<1>1. a \in Nat /\ KeyOf[r] \in Keys /\ a <= MaxEstimate
  BY StoreAssumption DEF NonNegative
<1>2. RolledSpend \in [Keys -> Nat]
  BY DEF IInv, TypeOK, RolledSpend
<1>3. \A q \in Requests : q # r => charge'[q] = charge[q] /\ res'[q] = res[q]
  BY DEF Grant, IInv, TypeOK
<1>4. \A k \in Keys : k # KeyOf[r] => spend'[k] = RolledSpend[k]
  BY <1>2 DEF Grant
<1>5. spend'[KeyOf[r]] = RolledSpend[KeyOf[r]] + a
  BY <1>1, <1>2 DEF Grant
<1>6. ExcessAt(r, wall) = 0
  BY DEF ExcessAt, IInv, Linked, LinkedAt
<1>7. \A m \in Nat : m = wall => ExcessAt(r, m)' = 0
  BY DEF ExcessAt, Grant, IInv, TypeOK
<1>8. ~ OverBudget(KeyOf[r]) /\ spend'[KeyOf[r]] <= RolledSpend[KeyOf[r]] + MaxEstimate
  BY <1>1, <1>2, <1>5, StoreAssumption DEF Grant
<1>9. QED BY <1>3, <1>4, <1>6, <1>7, <1>8, CallKeepsCap

\* A rejected Reserve adds nothing.
LEMMA RejectKeepsCap ==
  ASSUME IInv, IInv', CapExceededByOneHold, NEW r \in Requests, stage[r] = "idle",
         month' = wall, UNCHANGED wall, Reject(r)
  PROVE  CapExceededByOneHold'
<1>1. RolledSpend \in [Keys -> Nat] /\ KeyOf[r] \in Keys
  BY StoreAssumption DEF IInv, TypeOK, RolledSpend
<1>2. ExcessAt(r, wall) = 0
  BY DEF ExcessAt, IInv, Linked, LinkedAt
<1>3. \A m \in Nat : m = wall => ExcessAt(r, m)' = 0
  BY DEF ExcessAt, Reject, IInv, Linked, LinkedAt
<1>4. /\ \A q \in Requests : q # r => charge'[q] = charge[q] /\ res'[q] = res[q]
      /\ \A k \in Keys : k # KeyOf[r] => spend'[k] = RolledSpend[k]
      /\ spend'[KeyOf[r]] <= RolledSpend[KeyOf[r]] + 0
  BY <1>1 DEF Reject
<1>5. QED BY <1>2, <1>3, <1>4, CallKeepsCap

\* Commit moves the counter by no more than it moves the excess.
LEMMA CommitKeepsCap ==
  ASSUME IInv, IInv', CapExceededByOneHold, NEW r \in Requests, NEW cost \in Costs,
         Commit(r, cost)
  PROVE  CapExceededByOneHold'
<1> DEFINE a == NonNegative(cost)
           x == IF res[r].month = wall THEN NonNegative(a - res[r].amount) ELSE a
<1>1. a \in Nat /\ KeyOf[r] \in Keys /\ res[r].amount \in Nat /\ RolledSpend \in [Keys -> Nat]
  BY NonNegativeNat, StoreAssumption DEF IInv, TypeOK, RolledSpend
<1>2. x \in Nat
  BY <1>1, NonNegativeNat
<1>3. \A q \in Requests : q # r => charge'[q] = charge[q] /\ res'[q] = res[q]
  BY DEF Commit, IInv, TypeOK
<1>4. \A k \in Keys : k # KeyOf[r] => spend'[k] = RolledSpend[k]
  BY <1>1 DEF Commit, Adjusted
<1>5. ExcessAt(r, wall) = 0
  <2>1. LinkedAt(r) /\ stage[r] = "granted" /\ ~ res[r].applied
    BY DEF Commit, IInv, Linked
  <2>2. QED BY <2>1 DEF ExcessAt, LinkedAt
<1>6. \A m \in Nat : m = wall => ExcessAt(r, m)' = x
  <2>1. /\ charge'[r] = [st |-> "booked", month |-> wall, amt |-> a]
        /\ res'[r].month = res[r].month /\ res'[r].amount = res[r].amount
    BY DEF Commit, IInv, TypeOK
  <2>2. QED BY <2>1 DEF ExcessAt
<1>7. spend'[KeyOf[r]] <= RolledSpend[KeyOf[r]] + x
  <2> HIDE DEF a
  <2>1. CASE res[r].month = wall
    <3>1. spend'[KeyOf[r]] = NonNegative(RolledSpend[KeyOf[r]] + (a - res[r].amount))
      BY <1>1, <2>1 DEF Commit, Adjusted, a
    <3>2. QED BY <1>1, <2>1, <3>1 DEF NonNegative
  <2>2. CASE res[r].month # wall
    BY <1>1, <2>2 DEF Commit, a
  <2>3. QED BY <2>1, <2>2
<1>8. month' = wall
  BY DEF Commit
<1> HIDE DEF x
<1>9. QED BY <1>2, <1>3, <1>4, <1>5, <1>6, <1>7, <1>8, CallKeepsCap

\* Release only lowers the counter.
LEMMA ReleaseKeepsCap ==
  ASSUME IInv, IInv', CapExceededByOneHold, NEW r \in Requests, Release(r)
  PROVE  CapExceededByOneHold'
<1>1. KeyOf[r] \in Keys /\ res[r].amount \in Nat /\ RolledSpend \in [Keys -> Nat]
  BY StoreAssumption DEF IInv, TypeOK, RolledSpend
<1>2. \A q \in Requests : q # r => charge'[q] = charge[q] /\ res'[q] = res[q]
  BY DEF Release, IInv, TypeOK
<1>3. \A k \in Keys : k # KeyOf[r] => spend'[k] = RolledSpend[k]
  BY <1>1 DEF Release, Adjusted
<1>4. ExcessAt(r, wall) = 0
  <2>1. LinkedAt(r) /\ stage[r] = "granted" /\ ~ res[r].applied
    BY DEF Release, IInv, Linked
  <2>2. QED BY <2>1 DEF ExcessAt, LinkedAt
<1>5. \A m \in Nat : m = wall => ExcessAt(r, m)' = 0
  <2>1. charge'[r] = Ledger!VoidCharge
    BY DEF Release, IInv, TypeOK
  <2>2. QED BY <2>1 DEF ExcessAt, Ledger!VoidCharge
<1>6. spend'[KeyOf[r]] <= RolledSpend[KeyOf[r]] + 0
  BY <1>1 DEF Release, Adjusted, NonNegative
<1>7. month' = wall
  BY DEF Release
<1>8. QED BY <1>2, <1>3, <1>4, <1>5, <1>6, <1>7, CallKeepsCap

\* A capped key's counter stays below its cap plus one hold plus what realised
\* costs exceeded their own holds by, for any number of concurrent reservers.
THEOREM CapHolds == Spec => []CapExceededByOneHold
<1>1. Init => CapExceededByOneHold
  <2> SUFFICES ASSUME Init, NEW k \in Keys, MonthlyBudget[k] > 0
               PROVE  spend[k] < MonthlyBudget[k] + MaxEstimate + Total(ExcessOf(k, month), N)
    BY DEF CapExceededByOneHold
  <2>1. Total(ExcessOf(k, month), N) \in Nat
    BY InitIInv, ExcessNat DEF IInv
  <2>2. QED BY <2>1, StoreAssumption DEF Init
<1>2. IInv /\ IInv' /\ CapExceededByOneHold /\ [Next]_vars => CapExceededByOneHold'
  <2> SUFFICES ASSUME IInv, IInv', CapExceededByOneHold, [Next]_vars
               PROVE  CapExceededByOneHold'
    OBVIOUS
  <2>1. ASSUME UNCHANGED <<month, spend, res, charge>> PROVE CapExceededByOneHold'
    <3>1. ASSUME NEW k \in Keys
          PROVE  Total(ExcessOf(k, month), N)' = Total(ExcessOf(k, month), N)
      <4>1. ExcessOf(k, month)' = ExcessOf(k, month)
        BY <2>1 DEF ExcessOf
      <4>2. QED BY <4>1 DEF Total, RunningTotal
    <3>2. QED BY <2>1, <3>1 DEF CapExceededByOneHold
  <2>2. CASE Tick
    BY <2>1, <2>2 DEF Tick, store
  <2>3. CASE Restart
    <3> SUFFICES ASSUME NEW k \in Keys, MonthlyBudget[k] > 0
                 PROVE  spend'[k] < MonthlyBudget[k] + MaxEstimate
                                      + Total(ExcessOf(k, month), N)'
      BY DEF CapExceededByOneHold
    <3> DEFINE f == ExcessOf(k, month)'
    <3>1. f \in [1..N -> Int] /\ \A i \in 1..N : f[i] = 0
      BY <2>3 DEF Restart, IInv, TypeOK, Requests, ExcessOf, Ledger!VoidCharge, Linked, LinkedAt
    <3>2. Total(ExcessOf(k, month), N)' = Total(f, N)
      BY DEF Total, RunningTotal
    <3> HIDE DEF f
    <3>3. Total(f, N) = 0
      BY <3>1, TotalZero, StoreAssumption
    <3>4. QED BY <2>3, <3>2, <3>3, StoreAssumption DEF Restart
  <2>4. ASSUME NEW r \in Requests, NEW est \in Estimates, Reserve(r, est)
        PROVE  CapExceededByOneHold'
    <3>1. stage[r] = "idle" /\ month' = wall /\ UNCHANGED <<now, wall>>
      BY <2>4 DEF Reserve
    <3>2. CASE Grant(r, est)
      BY <3>1, <3>2, GrantKeepsCap
    <3>3. CASE RejectBudget(r) \/ RejectRate(r)
      BY <3>1, <3>3, RejectKeepsCap DEF RejectBudget, RejectRate
    <3>4. QED BY <2>4, <3>2, <3>3 DEF Reserve
  <2>5. ASSUME NEW r \in Requests, NEW cost \in Costs, Commit(r, cost)
        PROVE  CapExceededByOneHold'
    BY <2>5, CommitKeepsCap
  <2>6. ASSUME NEW r \in Requests, Release(r) PROVE CapExceededByOneHold'
    BY <2>6, ReleaseKeepsCap
  <2>7. CASE UNCHANGED vars
    BY <2>1, <2>7 DEF vars, store
  <2>8. QED BY <2>2, <2>3, <2>4, <2>5, <2>6, <2>7 DEF Next, AlreadyApplied
<1>3. QED BY <1>1, <1>2, InitIInv, NextIInv, TypeCorrect, PTL DEF Spec
-----------------------------------------------------------------------------
(***************************************************************************)
(* The sliding window.  The slots are trimmed only by Reserve, so the      *)
(* count that decides a request is tied to the grants by the slots that    *)
(* are young enough to count.                                              *)
(***************************************************************************)
GrantedIn(k, l, t) ==
  {r \in Requests : KeyOf[r] = k /\ grantedAt[r].life = l /\ grantedAt[r].at \in t..(t + Window)}

\* Every grant of a limited key in this life that a window ending now still sees has its
\* slot.
SlotsLinked ==
  /\ \A k \in Keys : IsFiniteSet(rates[k])
  /\ \A r \in Requests :
       /\ grantedAt[r].at <= now /\ grantedAt[r].life <= life
       /\ (/\ RateLimitRPM[KeyOf[r]] > 0 /\ grantedAt[r].life = life
           /\ grantedAt[r].at >= 0 /\ grantedAt[r].at >= now - Window)
            => [req |-> r, ts |-> grantedAt[r].at] \in rates[KeyOf[r]]

RateInv == SlotsLinked /\ RateWindowRespected

\* Requests with a slot each are no more than the slots.
LEMMA SlotsBound ==
  ASSUME NEW W, NEW at, NEW L, IsFiniteSet(L), \A r \in W : [req |-> r, ts |-> at[r].at] \in L
  PROVE  IsFiniteSet(W) /\ Cardinality(W) <= Cardinality(L)
<1> DEFINE f == [r \in W |-> [req |-> r, ts |-> at[r].at]]
<1>1. f \in [W -> L]
  OBVIOUS
<1>2. ASSUME NEW a \in W, NEW b \in W, f[a] = f[b] PROVE a = b
  <2>1. f[a].req = a /\ f[b].req = b
    OBVIOUS
  <2> HIDE DEF f
  <2>2. QED BY <1>2, <2>1
<1> HIDE DEF f
<1>3. f \in Injection(W, L)
  BY <1>1, <1>2 DEF Injection, IsInjective
<1>4. QED BY <1>3, FS_Injection

LEMMA SomeRequests ==
  ASSUME NEW S \in SUBSET Requests, NEW T \in SUBSET Requests, NEW r
  PROVE  /\ T \subseteq S => Cardinality(T) <= Cardinality(S)
         /\ T \subseteq S \cup {r} => Cardinality(T) <= Cardinality(S) + 1
         /\ Cardinality(S) \in Nat /\ Cardinality(T) \in Nat
         /\ IsFiniteSet(S)
<1>1. IsFiniteSet(Requests)
  BY StoreAssumption, FS_Interval DEF Requests
<1>2. IsFiniteSet(S) /\ IsFiniteSet(T)
  BY <1>1, FS_Subset
<1>3. /\ IsFiniteSet(S \cup {r})
      /\ Cardinality(S \cup {r}) = Cardinality(S) \/ Cardinality(S \cup {r}) = Cardinality(S) + 1
  BY <1>2, FS_AddElement
<1>4. /\ T \subseteq S => Cardinality(T) <= Cardinality(S)
      /\ T \subseteq S \cup {r} => Cardinality(T) <= Cardinality(S \cup {r})
  BY <1>2, <1>3, FS_Subset
<1>5. Cardinality(S) \in Nat /\ Cardinality(T) \in Nat
  BY <1>2, FS_CardinalityType
<1>6. QED BY <1>2, <1>3, <1>4, <1>5

\* Nothing was granted yet in the second that begins.
LEMMA NewSecond ==
  ASSUME TypeOK, SlotsLinked, NEW k \in Keys, NEW l \in Nat, NEW t \in Int, t > now
  PROVE  Cardinality(GrantedIn(k, l, t)) = 0
<1>1. GrantedIn(k, l, t) = {}
  <2> SUFFICES ASSUME NEW r \in Requests, grantedAt[r].at \in t..(t + Window) PROVE FALSE
    BY DEF GrantedIn
  <2>1. grantedAt[r].at <= now /\ now \in Nat /\ grantedAt[r].at \in Nat \cup {-1}
    BY DEF SlotsLinked, TypeOK
  <2>2. QED BY <2>1, StoreAssumption
<1>2. QED BY <1>1, FS_EmptySet

LEMMA WindowStated ==
  RateWindowRespected <=>
    \A k \in Keys : RateLimitRPM[k] > 0 =>
      \A l \in 0..life, t \in 0..now : Cardinality(GrantedIn(k, l, t)) <= RateLimitRPM[k]
BY DEF RateWindowRespected, GrantedIn

\* A grant takes a slot that the trimmed list still had room for.
LEMMA GrantKeepsWindow ==
  ASSUME TypeOK, RateInv, NEW r \in Requests, NEW est \in Estimates, Grant(r, est), now' = now, life' = life
  PROVE  RateInv'
<1> DEFINE key == KeyOf[r]
<1>0. /\ now \in Nat /\ life \in Nat /\ Window \in Nat /\ key \in Keys /\ RateLimitRPM \in [Keys -> Nat]
      /\ rates \in [Keys -> SUBSET [req : Requests, ts : Nat]]
      /\ grantedAt \in [Requests -> [life : Nat, at : Nat \cup {-1}]] /\ \A q \in Requests : KeyOf[q] \in Keys
  BY StoreAssumption DEF TypeOK
<1>1. grantedAt' = [grantedAt EXCEPT ![r] = [life |-> life, at |-> now]]
  BY DEF Grant
<1>2. CASE RateLimitRPM[key] = 0
  <2>1. rates' = rates
    BY <1>0, <1>2 DEF Grant
  <2>2. SlotsLinked'
    BY <1>0, <1>1, <1>2, <2>1 DEF RateInv, SlotsLinked
  <2>3. ASSUME NEW k \in Keys, RateLimitRPM[k] > 0, NEW l \in 0..life, NEW t \in 0..now
        PROVE  Cardinality(GrantedIn(k, l, t)') <= RateLimitRPM[k]
    <3>1. GrantedIn(k, l, t)' = GrantedIn(k, l, t)
      BY <1>0, <1>1, <1>2, <2>3 DEF GrantedIn
    <3>2. QED BY <2>3, <3>1, WindowStated DEF RateInv
  <2>4. QED BY <2>2, <2>3 DEF RateInv, RateWindowRespected, GrantedIn
<1>3. CASE RateLimitRPM[key] > 0
  <2>1. /\ rates' = [rates EXCEPT ![key] = LiveSlots(key) \cup {[req |-> r, ts |-> now]}]
        /\ ~ (Cardinality(LiveSlots(key)) >= RateLimitRPM[key])
    BY <1>3 DEF Grant, OverRate
  <2>2. IsFiniteSet(LiveSlots(key)) /\ Cardinality(LiveSlots(key)) \in Nat
    <3>1. LiveSlots(key) \subseteq rates[key] /\ IsFiniteSet(rates[key])
      BY <1>0 DEF RateInv, SlotsLinked, LiveSlots
    <3>2. QED BY <3>1, FS_Subset, FS_CardinalityType
  <2>3. SlotsLinked'
    <3>1. ASSUME NEW k \in Keys PROVE IsFiniteSet(rates'[k])
      <4>1. IsFiniteSet(LiveSlots(key) \cup {[req |-> r, ts |-> now]})
        BY <2>2, FS_AddElement
      <4>2. rates'[k] = rates[k] \/ rates'[k] = LiveSlots(key) \cup {[req |-> r, ts |-> now]}
        BY <1>0, <2>1
      <4>3. QED BY <3>1, <4>1, <4>2 DEF RateInv, SlotsLinked
    <3>2. ASSUME NEW q \in Requests
          PROVE  /\ grantedAt'[q].at <= now /\ grantedAt'[q].life <= life
                 /\ (/\ RateLimitRPM[KeyOf[q]] > 0 /\ grantedAt'[q].life = life
                     /\ grantedAt'[q].at >= 0 /\ grantedAt'[q].at >= now - Window)
                      => [req |-> q, ts |-> grantedAt'[q].at] \in rates'[KeyOf[q]]
      <4>1. CASE q = r
        BY <1>0, <1>1, <2>1, <4>1
      <4>2. CASE q # r
        BY <1>0, <1>1, <2>1, <4>2 DEF RateInv, SlotsLinked, LiveSlots
      <4>3. QED BY <4>1, <4>2
    <3>3. QED BY <3>1, <3>2 DEF SlotsLinked
  <2>4. ASSUME NEW k \in Keys, RateLimitRPM[k] > 0, NEW l \in 0..life, NEW t \in 0..now
        PROVE  Cardinality(GrantedIn(k, l, t)') <= RateLimitRPM[k]
    <3>0. GrantedIn(k, l, t) \in SUBSET Requests /\ GrantedIn(k, l, t)' \in SUBSET Requests
      BY DEF GrantedIn
    <3>1. CASE k = key /\ l = life /\ t >= now - Window
      <4>1. \A q \in GrantedIn(k, l, t) : [req |-> q, ts |-> grantedAt[q].at] \in LiveSlots(k)
        BY <1>0, <1>3, <2>4, <3>1 DEF GrantedIn, RateInv, SlotsLinked, LiveSlots
      <4>2. Cardinality(GrantedIn(k, l, t)) <= Cardinality(LiveSlots(k))
        BY <2>2, <3>1, <4>1, SlotsBound
      <4>3. GrantedIn(k, l, t)' \subseteq GrantedIn(k, l, t) \cup {r}
        BY <1>0, <1>1 DEF GrantedIn
      <4>4. /\ Cardinality(GrantedIn(k, l, t)') <= Cardinality(GrantedIn(k, l, t)) + 1
            /\ Cardinality(GrantedIn(k, l, t)) \in Nat /\ Cardinality(GrantedIn(k, l, t)') \in Nat
        BY <3>0, <4>3, SomeRequests
      <4>5. QED BY <1>0, <2>1, <2>2, <2>4, <3>1, <4>2, <4>4
    <3>2. CASE ~ (k = key /\ l = life /\ t >= now - Window)
      <4>1. GrantedIn(k, l, t)' \subseteq GrantedIn(k, l, t)
        BY <1>0, <1>1, <2>4, <3>2 DEF GrantedIn
      <4>2. /\ Cardinality(GrantedIn(k, l, t)') <= Cardinality(GrantedIn(k, l, t))
            /\ Cardinality(GrantedIn(k, l, t)) \in Nat /\ Cardinality(GrantedIn(k, l, t)') \in Nat
        BY <3>0, <4>1, SomeRequests
      <4>3. Cardinality(GrantedIn(k, l, t)) <= RateLimitRPM[k]
        BY <2>4, WindowStated DEF RateInv
      <4>4. QED BY <1>0, <4>2, <4>3
    <3>3. QED BY <3>1, <3>2
  <2>5. QED BY <2>3, <2>4 DEF RateInv, RateWindowRespected, GrantedIn
<1>4. QED BY <1>0, <1>2, <1>3

\* Trimming without a grant drops only slots too old to count.
LEMMA TrimKeepsWindow ==
  ASSUME TypeOK, RateInv, NEW k \in Keys, rates' = [rates EXCEPT ![k] = LiveSlots(k)],
         UNCHANGED <<grantedAt, now, life>>
  PROVE  RateInv'
<1>0. /\ now \in Nat /\ life \in Nat /\ Window \in Nat
      /\ rates \in [Keys -> SUBSET [req : Requests, ts : Nat]]
      /\ grantedAt \in [Requests -> [life : Nat, at : Nat \cup {-1}]] /\ \A q \in Requests : KeyOf[q] \in Keys
  BY StoreAssumption DEF TypeOK
<1>1. ASSUME NEW j \in Keys PROVE IsFiniteSet(rates'[j])
  <2>1. rates'[j] \subseteq rates[j] /\ IsFiniteSet(rates[j])
    BY <1>0 DEF RateInv, SlotsLinked, LiveSlots
  <2>2. QED BY <2>1, FS_Subset
<1>2. SlotsLinked'
  BY <1>0, <1>1 DEF RateInv, SlotsLinked, LiveSlots
<1>3. RateWindowRespected'
  BY DEF RateInv, RateWindowRespected
<1>4. QED BY <1>2, <1>3 DEF RateInv

\* No Window + 1 consecutive seconds in one life of the process see more grants of a key than its
\* limit allows, for any limits, any window, and any number of requests and restarts.
THEOREM RateWindowHolds == Spec => []RateWindowRespected
<1>1. Init => RateInv
  <2> SUFFICES ASSUME Init PROVE RateInv
    OBVIOUS
  <2>1. TypeOK
    BY StoreAssumption DEF Init, TypeOK, NoReservation, NotGranted, Ledger!NoCharge, Ledger!Charges, Requests
  <2>2. SlotsLinked
    BY FS_EmptySet DEF Init, NotGranted, SlotsLinked
  <2>3. ASSUME NEW k \in Keys, RateLimitRPM[k] > 0, NEW l \in 0..life, NEW t \in 0..now
        PROVE  Cardinality(GrantedIn(k, l, t)) <= RateLimitRPM[k]
    <3>1. GrantedIn(k, l, t) = {}
      BY <2>3 DEF Init, NotGranted, GrantedIn
    <3>2. QED BY <2>3, <3>1, FS_EmptySet, StoreAssumption
  <2>4. QED BY <2>2, <2>3, WindowStated DEF RateInv
<1>2. TypeOK /\ RateInv /\ [Next]_vars => RateInv'
  <2> SUFFICES ASSUME TypeOK, RateInv, [Next]_vars PROVE RateInv'
    OBVIOUS
  <2>1. ASSUME UNCHANGED <<now, rates, life, grantedAt>> PROVE RateInv'
    BY <2>1 DEF RateInv, SlotsLinked, RateWindowRespected
  <2>2. CASE Tick
    <3>1. /\ now' = now + 1 /\ rates' = rates /\ grantedAt' = grantedAt /\ life' = life
          /\ now \in Nat /\ life \in Nat
          /\ Window \in Nat /\ grantedAt \in [Requests -> [life : Nat, at : Nat \cup {-1}]] /\ RateLimitRPM \in [Keys -> Nat]
      BY <2>2, StoreAssumption DEF Tick, store, TypeOK
    <3>2. SlotsLinked'
      BY <3>1 DEF RateInv, SlotsLinked
    <3>3. ASSUME NEW k \in Keys, RateLimitRPM[k] > 0, NEW l \in 0..life, NEW t \in 0..now'
          PROVE  Cardinality(GrantedIn(k, l, t)) <= RateLimitRPM[k]
      <4>1. CASE t \in 0..now
        BY <3>3, <4>1, WindowStated DEF RateInv
      <4>2. CASE t > now
        <5>1. Cardinality(GrantedIn(k, l, t)) = 0
          BY <4>2, NewSecond DEF RateInv
        <5>2. QED BY <3>1, <3>3, <5>1
      <4>3. QED BY <3>1, <3>3, <4>1, <4>2
    <3>4. QED BY <3>1, <3>2, <3>3 DEF RateInv, RateWindowRespected, GrantedIn
  <2>3. CASE Restart
    <3>1. /\ now' = now /\ rates' = [k \in Keys |-> {}] /\ grantedAt' = grantedAt /\ life' = life + 1
          /\ now \in Nat /\ life \in Nat /\ grantedAt \in [Requests -> [life : Nat, at : Nat \cup {-1}]]
      BY <2>3 DEF Restart, TypeOK
    <3>2. \A r \in Requests : grantedAt[r].life <= life /\ grantedAt[r].at <= now
      BY DEF RateInv, SlotsLinked
    <3>3. SlotsLinked'
      BY <3>1, <3>2, FS_EmptySet DEF SlotsLinked
    <3>4. ASSUME NEW k \in Keys, RateLimitRPM[k] > 0, NEW l \in 0..life', NEW t \in 0..now'
          PROVE  Cardinality(GrantedIn(k, l, t)) <= RateLimitRPM[k]
      <4>1. CASE l \in 0..life
        BY <3>1, <3>4, <4>1, WindowStated DEF RateInv
      <4>2. CASE l = life'
        <5>1. GrantedIn(k, l, t) = {}
          BY <3>1, <3>2, <4>2 DEF GrantedIn
        <5>2. QED BY <3>4, <5>1, FS_EmptySet, StoreAssumption
      <4>3. QED BY <3>1, <3>4, <4>1, <4>2
    <3>5. QED BY <3>1, <3>3, <3>4 DEF RateInv, RateWindowRespected, GrantedIn
  <2>4. ASSUME NEW r \in Requests, NEW est \in Estimates, Reserve(r, est)
        PROVE  RateInv'
    <3>1. CASE Grant(r, est)
      BY <2>4, <3>1, GrantKeepsWindow DEF Reserve
    <3>2. CASE RejectBudget(r)
      BY <2>1, <2>4, <3>2 DEF Reserve, RejectBudget, Reject
    <3>3. CASE RejectRate(r)
      <4>1. KeyOf[r] \in Keys
        BY StoreAssumption
      <4>2. QED BY <2>4, <3>3, <4>1, TrimKeepsWindow DEF Reserve, RejectRate, Reject
    <3>4. QED BY <2>4, <3>1, <3>2, <3>3 DEF Reserve
  <2>5. ASSUME NEW r \in Requests, NEW cost \in Costs, Commit(r, cost)
        PROVE  RateInv'
    BY <2>1, <2>5 DEF Commit
  <2>6. ASSUME NEW r \in Requests, Release(r) PROVE RateInv'
    BY <2>1, <2>6 DEF Release
  <2>7. CASE UNCHANGED vars
    BY <2>1, <2>7 DEF vars, store
  <2>8. QED BY <2>2, <2>3, <2>4, <2>5, <2>6, <2>7 DEF Next, AlreadyApplied
<1>3. RateInv => RateWindowRespected
  BY DEF RateInv
<1>4. QED BY <1>1, <1>2, <1>3, TypeCorrect, PTL DEF Spec
-----------------------------------------------------------------------------
(***************************************************************************)
(* The shared store.                                                       *)
(***************************************************************************)
\* A step of the process: one of the shared store's, or none of it.
SharedStep == [Shared!Next]_sharedVars

StrandedAt(r) == charged[r].st = "held" /\ charged[r].amt > 0 /\ ~ Shared!InFlight(r)
UnaccountedAt(r) ==
  pc[r] = "granted" /\ SharedBudget[SharedKeyOf[r]] > 0 /\ ~ holds[r].applied /\ charged[r].st = "none"

\* What ties the reservation that a replica works on to the charge on the server.  The totals
\* alone are not inductive: what is returned or replaced is res.amount, under res.month.
SharedLinkedAt(r) ==
  /\ charged[r].st = "held" => charged[r].month = holds[r].month /\ charged[r].amt = holds[r].amount
  /\ pc[r] = "idle" => charged[r].st = "none" /\ \A op \in Shared!Ops : late[r][op] = 0
  /\ \A op \in Shared!Ops : late[r][op] > 0 => r \in troubled
  /\ pc[r] \in {"hold", "rate"} => ~ holds[r].noop /\ ~ holds[r].applied
  /\ pc[r] = "hold" /\ charged[r].st # "none" => r \in troubled
  /\ pc[r] = "rate" => charged[r].st # "none" /\ (~ holds[r].held => holds[r].amount = 0)
  /\ StrandedAt(r) => r \in troubled
  /\ UnaccountedAt(r) => r \in troubled /\ ~ failClosed

SharedLinked == \A r \in Requests : SharedLinkedAt(r)

SharedInv == Shared!TypeOK /\ SharedLinked /\ Shared!BudgetMatchesCharges
-----------------------------------------------------------------------------
(***************************************************************************)
(* How the totals of the charges on the server move.                       *)
(***************************************************************************)
\* A charge of the shared store, in any of its states.
SharedCharge == Shared!Ledger!Charges({"none", "held", "booked", "void"})

\* What a charge on the server counts for is a natural number.
LEMMA SharedCountedNat ==
  ASSUME NEW c \in SharedCharge, NEW m
  PROVE  Shared!Ledger!Counted(c, m) \in Nat
BY DEF SharedCharge, Shared!Ledger!Counted, Shared!Ledger!Charges

\* The requests of both stores are the same numbers.
LEMMA SameRequests == Shared!Requests = Requests /\ Requests = 1..N /\ Shared!Ledger!Requests = 1..N
BY DEF Shared!Requests, Requests, Shared!Ledger!Requests

\* Both count with the same operator.
LEMMA SameCardinality == ASSUME NEW S PROVE Shared!Cardinality(S) = Cardinality(S)
BY DEF Shared!Cardinality, Cardinality

\* Replacing one charge moves its key's total by the difference and leaves every other total alone.
LEMMA SharedSpentMoves ==
  ASSUME charged \in [Requests -> SharedCharge], NEW r \in Requests, NEW c \in SharedCharge,
         charged' = [charged EXCEPT ![r] = c], NEW k, NEW m
  PROVE  Shared!Ledger!Spent(k, m)' =
           Shared!Ledger!Spent(k, m) + (IF SharedKeyOf[r] = k
                                 THEN Shared!Ledger!Counted(c, m) - Shared!Ledger!Counted(charged[r], m)
                                 ELSE 0)
<1> DEFINE f == Shared!Ledger!ChargesOf(k, m)
           g == Shared!Ledger!ChargesOf(k, m)'
<1>0. charged' \in [Requests -> SharedCharge]
  OBVIOUS
<1>1. f \in [1..N -> Int] /\ g \in [1..N -> Int]
  BY <1>0, SharedCountedNat, SameRequests DEF Shared!Ledger!ChargesOf
<1>2. r \in 1..N /\ N \in Nat
  BY StoreAssumption, SameRequests
<1>3. \A i \in 1..N : i # r => g[i] = f[i]
  BY <1>2, SameRequests DEF Shared!Ledger!ChargesOf
<1>4. /\ f[r] = IF SharedKeyOf[r] = k THEN Shared!Ledger!Counted(charged[r], m) ELSE 0
      /\ g[r] = IF SharedKeyOf[r] = k THEN Shared!Ledger!Counted(c, m) ELSE 0
  BY <1>2, SameRequests DEF Shared!Ledger!ChargesOf
<1>5. Total(g, N) = Total(f, N) + (g[r] - f[r])
  <2> HIDE DEF f, g
  <2> QED BY <1>1, <1>2, <1>3, TotalUpdate
<1>6. f[r] \in Int /\ g[r] \in Int /\ Total(f, N) \in Int
  <2> HIDE DEF f, g
  <2> QED BY <1>1, <1>2, TotalInt
<1>7. Shared!Ledger!Spent(k, m)' = Total(g, N) /\ Shared!Ledger!Spent(k, m) = Total(f, N)
  BY DEF Shared!Ledger!Spent, Shared!Ledger!Total, Total, Shared!Ledger!RunningTotal, RunningTotal
<1> HIDE DEF f, g
<1>8. CASE SharedKeyOf[r] = k
  BY <1>4, <1>5, <1>7, <1>8
<1>9. CASE SharedKeyOf[r] # k
  BY <1>4, <1>5, <1>6, <1>7, <1>9
<1>10. QED BY <1>8, <1>9

\* A total is an integer that bounds each of the charges in it.
LEMMA SharedSpentBounds ==
  ASSUME charged \in [Requests -> SharedCharge], NEW k, NEW m
  PROVE  /\ Shared!Ledger!Spent(k, m) \in Int
         /\ \A r \in Requests : SharedKeyOf[r] = k =>
               Shared!Ledger!Counted(charged[r], m) <= Shared!Ledger!Spent(k, m)
<1>1. Shared!Ledger!Spent(k, m) = Total(Shared!Ledger!ChargesOf(k, m), N)
  BY DEF Shared!Ledger!Spent, Shared!Ledger!Total, Total, Shared!Ledger!RunningTotal, RunningTotal
<1> DEFINE f == Shared!Ledger!ChargesOf(k, m)
<1>2. /\ f \in [1..N -> Nat] /\ f \in [1..N -> Int] /\ N \in Nat
      /\ \A r \in 1..N : SharedKeyOf[r] = k => f[r] = Shared!Ledger!Counted(charged[r], m)
  BY SharedCountedNat, SameRequests, StoreAssumption DEF Shared!Ledger!ChargesOf
<1> HIDE DEF f
<1>3. Total(f, N) \in Int
  BY <1>2, TotalInt
<1>4. \A r \in 1..N : f[r] <= Total(f, N)
  BY <1>2, TotalBoundsEntry
<1>5. QED
  BY <1>1, <1>2, <1>3, <1>4, SameRequests DEF f

-----------------------------------------------------------------------------
(***************************************************************************)
(* The server: every run of a script, first or repeated.                   *)
(***************************************************************************)
\* The parts of the server's state that the ledger is about keep their types and agree.
ServerKept ==
  /\ budget' \in [Keys -> [0..MaxMonth -> Int]]
  /\ charged' \in [Requests -> SharedCharge]
  /\ repeated' \in [Keys -> Nat]
  /\ Shared!BudgetMatchesCharges'

\* What the invariant says of the server, with the types that the proofs use.
LEMMA ServerParts ==
  ASSUME SharedInv
  PROVE  /\ budget \in [Keys -> [0..MaxMonth -> Int]]
         /\ charged \in [Requests -> SharedCharge]
         /\ repeated \in [Keys -> Nat]
         /\ \A k \in Keys, m \in 0..MaxMonth :
              /\ budget[k][m] - Shared!Ledger!Spent(k, m) <= repeated[k]
              /\ Shared!Ledger!Spent(k, m) - budget[k][m] <= repeated[k]
BY SameRequests DEF SharedInv, Shared!TypeOK, Shared!Months, SharedCharge, Shared!BudgetMatchesCharges

\* The keys of the server follow the charges if one key moves, in one month, by what its
\* charge does, give or take what the repeated calls have moved.
LEMMA BudgetFollowsCharge ==
  ASSUME SharedInv, NEW r \in Requests, NEW c \in SharedCharge, NEW n \in 0..MaxMonth,
         NEW b \in Int, NEW p \in Nat,
         charged' = [charged EXCEPT ![r] = c],
         budget' = [budget EXCEPT ![SharedKeyOf[r]][n] = b],
         repeated' = [repeated EXCEPT ![SharedKeyOf[r]] = p],
         repeated[SharedKeyOf[r]] <= p,
         b - (Shared!Ledger!Spent(SharedKeyOf[r], n)
               + (Shared!Ledger!Counted(c, n) - Shared!Ledger!Counted(charged[r], n))) <= p,
         (Shared!Ledger!Spent(SharedKeyOf[r], n)
           + (Shared!Ledger!Counted(c, n) - Shared!Ledger!Counted(charged[r], n))) - b <= p,
         \A m \in 0..MaxMonth : m # n =>
            Shared!Ledger!Counted(c, m) = Shared!Ledger!Counted(charged[r], m)
  PROVE  ServerKept
<1> DEFINE key == SharedKeyOf[r]
<1>0. /\ budget \in [Keys -> [0..MaxMonth -> Int]] /\ key \in Keys
      /\ charged \in [Requests -> SharedCharge] /\ charged[r] \in SharedCharge
      /\ repeated \in [Keys -> Nat]
  BY ServerParts, SharedAssumption, SameRequests
<1>1. /\ budget' \in [Keys -> [0..MaxMonth -> Int]] /\ charged' \in [Requests -> SharedCharge]
      /\ repeated' \in [Keys -> Nat]
  BY <1>0
<1>2. ASSUME NEW k \in Keys, NEW m \in 0..MaxMonth
      PROVE  /\ budget'[k][m] - Shared!Ledger!Spent(k, m)' <= repeated'[k]
             /\ Shared!Ledger!Spent(k, m)' - budget'[k][m] <= repeated'[k]
  <2>1. Shared!Ledger!Spent(k, m)' =
           Shared!Ledger!Spent(k, m) + (IF key = k
                                 THEN Shared!Ledger!Counted(c, m) - Shared!Ledger!Counted(charged[r], m)
                                 ELSE 0)
    <3>1. charged \in [Requests -> SharedCharge]
      BY <1>0
    <3>2. QED BY <3>1, SharedSpentMoves, Zenon
  <2>2. /\ Shared!Ledger!Counted(c, m) \in Nat /\ Shared!Ledger!Counted(charged[r], m) \in Nat
        /\ budget[k][m] \in Int /\ repeated[k] \in Nat /\ Shared!Ledger!Spent(k, m) \in Int
        /\ budget[k][m] - Shared!Ledger!Spent(k, m) <= repeated[k]
        /\ Shared!Ledger!Spent(k, m) - budget[k][m] <= repeated[k]
    BY <1>0, SharedCountedNat, SharedSpentBounds, ServerParts
  <2>3. CASE k = key /\ m = n
    <3>1. budget'[k][m] = b /\ repeated'[k] = p
      BY <1>0, <2>3
    <3>2. QED BY <2>1, <2>2, <2>3, <3>1
  <2>4. CASE k = key /\ m # n
    <3>1. budget'[k][m] = budget[k][m] /\ repeated'[k] = p /\ repeated[k] <= p
      BY <1>0, <2>4
    <3>2. QED BY <2>1, <2>2, <2>4, <3>1
  <2>5. CASE k # key
    <3>1. budget'[k] = budget[k] /\ repeated'[k] = repeated[k]
      BY <1>0, <2>5
    <3>2. QED BY <2>1, <2>2, <2>5, <3>1
  <2>6. QED BY <2>3, <2>4, <2>5
<1>3. QED BY <1>1, <1>2 DEF ServerKept, Shared!BudgetMatchesCharges, Shared!Months

\* A call whose script did not run changes nothing.
LEMMA NothingKeeps ==
  ASSUME SharedInv, UNCHANGED <<budget, charged, repeated>>
  PROVE  ServerKept
<1>1. budget' = budget /\ charged' = charged /\ repeated' = repeated
  OBVIOUS
<1>2. Shared!BudgetMatchesCharges'
  BY <1>1 DEF SharedInv, Shared!BudgetMatchesCharges, Shared!Ledger!Spent, Shared!Ledger!ChargesOf
<1>3. QED BY <1>1, <1>2, ServerParts DEF ServerKept

\* The key and month that a call of request r is about, and what they say of each other.
LEMMA CallParts ==
  ASSUME SharedInv, NEW r \in Requests
  PROVE  LET key == SharedKeyOf[r]
             n == holds[r].month
         IN /\ key \in Keys /\ n \in 0..MaxMonth /\ n \in Nat
            /\ holds[r].amount \in Nat /\ holds[r].actual \in Nat
            /\ charged[r] \in SharedCharge
            /\ budget[key][n] \in Int /\ repeated[key] \in Nat
            /\ Shared!Ledger!Spent(key, n) \in Nat
            /\ budget[key][n] - Shared!Ledger!Spent(key, n) <= repeated[key]
            /\ Shared!Ledger!Spent(key, n) - budget[key][n] <= repeated[key]
            /\ Shared!Ledger!Counted(charged[r], n) \in Nat
            /\ Shared!Ledger!Counted(charged[r], n) <= Shared!Ledger!Spent(key, n)
            /\ charged[r].st = "held" =>
                 /\ charged[r].month = n /\ charged[r].amt = holds[r].amount
                 /\ Shared!Ledger!Counted(charged[r], n) = holds[r].amount
                 /\ \A m : m # n => Shared!Ledger!Counted(charged[r], m) = 0
            /\ charged[r].st = "none" => \A m : Shared!Ledger!Counted(charged[r], m) = 0
            /\ SharedBudget[key] \in Nat
<1> DEFINE key == SharedKeyOf[r]
           n == holds[r].month
<1>1. key \in Keys /\ SharedBudget[key] \in Nat
  BY SharedAssumption, SameRequests
<1>2. n \in 0..MaxMonth /\ n \in Nat /\ holds[r].amount \in Nat /\ holds[r].actual \in Nat
  <2>1. holds \in [Requests -> [month : 0..MaxMonth, amount : Nat, actual : Nat,
                                held : BOOLEAN, noop : BOOLEAN, applied : BOOLEAN]]
    BY SameRequests DEF SharedInv, Shared!TypeOK, Shared!Months
  <2>2. n \in 0..MaxMonth /\ holds[r].amount \in Nat /\ holds[r].actual \in Nat
    BY <2>1
  <2>3. QED BY <2>2, SharedAssumption
<1>3. charged[r] \in SharedCharge /\ budget[key][n] \in Int /\ repeated[key] \in Nat
  BY <1>1, <1>2, ServerParts
<1>4. /\ budget[key][n] - Shared!Ledger!Spent(key, n) <= repeated[key]
      /\ Shared!Ledger!Spent(key, n) - budget[key][n] <= repeated[key]
  BY <1>1, <1>2, ServerParts
<1>5. Shared!Ledger!Counted(charged[r], n) \in Nat
  BY <1>3, SharedCountedNat
<1>6. /\ Shared!Ledger!Spent(key, n) \in Int
      /\ Shared!Ledger!Counted(charged[r], n) <= Shared!Ledger!Spent(key, n)
  BY SharedSpentBounds, ServerParts
<1>7. SharedLinkedAt(r)
  BY DEF SharedInv, SharedLinked
<1>8. charged[r].st = "held" =>
         /\ charged[r].month = n /\ charged[r].amt = holds[r].amount
         /\ Shared!Ledger!Counted(charged[r], n) = holds[r].amount
         /\ \A m : m # n => Shared!Ledger!Counted(charged[r], m) = 0
  BY <1>7 DEF SharedLinkedAt, Shared!Ledger!Counted
<1>9. charged[r].st = "none" => \A m : Shared!Ledger!Counted(charged[r], m) = 0
  BY DEF Shared!Ledger!Counted
<1>10. QED BY <1>1, <1>2, <1>3, <1>4, <1>5, <1>6, <1>8, <1>9

\* The step is one of the abstract ledger, or none.
LedgerStep == Shared!Ledger!Next \/ UNCHANGED <<charged, repeated>>

\* A call that ran before makes no charge: what it moves is accounted for as repeated.
LEMMA RepeatIsLedgerRepeat ==
  ASSUME SharedInv, NEW r \in Requests, NEW moved \in Nat, UNCHANGED charged,
         repeated' = [repeated EXCEPT ![SharedKeyOf[r]] = @ + moved]
  PROVE  LedgerStep
<1>1. SharedKeyOf[r] \in Keys /\ repeated \in [Keys -> Nat]
  BY ServerParts, CallParts
<1>2. repeated' \in [Keys -> Int] /\ \A k \in Keys : repeated'[k] >= repeated[k]
  BY <1>1
<1>3. QED BY <1>2 DEF LedgerStep, Shared!Ledger!Next, Shared!Ledger!Repeat

\* The charge of one request moves on as the ledger lets it.
LEMMA ChargeIsLedgerStep ==
  ASSUME SharedInv, NEW r \in Requests, NEW c \in SharedCharge, UNCHANGED repeated,
         charged' = [charged EXCEPT ![r] = c],
         \/ /\ charged[r].st = "none" /\ c.st = "held" /\ Shared!Ledger!Admits(SharedKeyOf[r], c.month)
         \/ charged[r].st = "held" /\ c = Shared!Ledger!VoidCharge
         \/ charged[r].st = "held" /\ c.st = "booked" /\ c.month = charged[r].month
  PROVE  LedgerStep
<1>1. charged \in [Requests -> SharedCharge] /\ r \in Shared!Ledger!Requests
  BY ServerParts, SameRequests
<1>2. charged'[r] = c /\ Shared!Ledger!OnlyChanges(r)
  BY <1>1 DEF Shared!Ledger!OnlyChanges
<1>3. /\ c.st = "held" => c \in Shared!Ledger!Charges({"held"})
      /\ c.st = "booked" => c \in Shared!Ledger!Charges({"booked"})
      /\ charged[r].month \in Nat
  BY <1>1 DEF SharedCharge, Shared!Ledger!Charges
<1>4. CASE charged[r].st = "none" /\ c.st = "held" /\ Shared!Ledger!Admits(SharedKeyOf[r], c.month)
  <2>1. Shared!Ledger!Hold(r)
    BY <1>2, <1>3, <1>4 DEF Shared!Ledger!Hold
  <2>2. QED BY <1>1, <2>1 DEF LedgerStep, Shared!Ledger!Next
<1>5. CASE charged[r].st = "held" /\ c = Shared!Ledger!VoidCharge
  <2>1. Shared!Ledger!Drop(r)
    BY <1>5 DEF Shared!Ledger!Drop
  <2>2. QED BY <1>1, <2>1 DEF LedgerStep, Shared!Ledger!Next
<1>6. CASE charged[r].st = "held" /\ c.st = "booked" /\ c.month = charged[r].month
  <2>1. Shared!Ledger!Book(r)
    BY <1>2, <1>3, <1>6 DEF Shared!Ledger!Book
  <2>2. QED BY <1>1, <2>1 DEF LedgerStep, Shared!Ledger!Next
<1>7. QED BY <1>4, <1>5, <1>6

\* What any run of a script leaves: the ledger kept, and the charge of r moved as the script moves it.
ScriptRuns(r, op) ==
  /\ ServerKept /\ LedgerStep
  /\ charged' = [charged EXCEPT ![r] = charged'[r]]
  /\ charged'[r].st = "held" => charged'[r].month = holds[r].month /\ charged'[r].amt = holds[r].amount
  /\ charged'[r].st = "none" => charged[r].st = "none"
  /\ charged'[r] # charged[r] => op # "rate"
  /\ op = "hold" => IF Shared!AtCap(r) THEN charged' = charged ELSE charged'[r].st # "none"
  /\ op \in {"return", "book"} => charged'[r].st # "held"

\* The hold script: a first run is a hold of the ledger, admitted by the true spend.
LEMMA HoldRuns ==
  ASSUME SharedInv, NEW r \in Requests, Shared!HoldScript(r)
  PROVE  ScriptRuns(r, "hold")
<1> DEFINE key == SharedKeyOf[r]
           n == holds[r].month
           a == holds[r].amount
           b == budget[key][n] + a
           held == [st |-> "held", month |-> n, amt |-> a]
<1>0. /\ key \in Keys /\ n \in 0..MaxMonth /\ n \in Nat /\ a \in Nat /\ charged[r] \in SharedCharge
      /\ budget[key][n] \in Int /\ repeated[key] \in Nat /\ Shared!Ledger!Spent(key, n) \in Nat
      /\ budget[key][n] - Shared!Ledger!Spent(key, n) <= repeated[key]
      /\ Shared!Ledger!Spent(key, n) - budget[key][n] <= repeated[key]
      /\ Shared!Ledger!Counted(charged[r], n) \in Nat /\ SharedBudget[key] \in Nat
      /\ charged[r].st = "none" => \A m : Shared!Ledger!Counted(charged[r], m) = 0
      /\ charged[r].st = "held" => charged[r].month = n /\ charged[r].amt = a
  BY CallParts
<1>a. charged \in [Requests -> SharedCharge] /\ repeated \in [Keys -> Nat] /\ b \in Int
  BY <1>0, ServerParts
<1>1. CASE Shared!AtCap(r)
  <2>1. UNCHANGED <<budget, charged, repeated>>
    BY <1>1 DEF Shared!HoldScript
  <2>2. ServerKept /\ LedgerStep
    BY <2>1, NothingKeeps DEF LedgerStep
  <2>3. QED BY <1>0, <1>1, <1>a, <2>1, <2>2 DEF ScriptRuns
<1>2. CASE ~ Shared!AtCap(r) /\ charged[r].st = "none"
  <2>1. /\ budget' = [budget EXCEPT ![key][n] = b]
        /\ charged' = [charged EXCEPT ![r] = held] /\ UNCHANGED repeated
    BY <1>2 DEF Shared!HoldScript, Shared!Charged
  <2>2. /\ held \in SharedCharge /\ Shared!Ledger!Counted(held, n) = a
        /\ \A m : m # n => Shared!Ledger!Counted(held, m) = 0
        /\ held.st = "held" /\ held.month = n /\ held.amt = a
    BY <1>0 DEF SharedCharge, Shared!Ledger!Charges, Shared!Ledger!Counted
  <2>3. Shared!Ledger!Admits(key, n)
    BY <1>0, <1>2 DEF Shared!Ledger!Admits, Shared!AtCap
  <2> HIDE DEF held
  <2>4. LedgerStep
    BY <1>2, <2>1, <2>2, <2>3, ChargeIsLedgerStep
  <2> DEFINE p == repeated[key]
  <2>5. /\ repeated' = [repeated EXCEPT ![key] = p]
        /\ b - (Shared!Ledger!Spent(key, n)
                 + (Shared!Ledger!Counted(held, n) - Shared!Ledger!Counted(charged[r], n))) <= p
        /\ (Shared!Ledger!Spent(key, n)
             + (Shared!Ledger!Counted(held, n) - Shared!Ledger!Counted(charged[r], n))) - b <= p
        /\ \A m \in 0..MaxMonth : m # n =>
             Shared!Ledger!Counted(held, m) = Shared!Ledger!Counted(charged[r], m)
    BY <1>0, <1>2, <1>a, <2>1, <2>2
  <2>6. ServerKept
    <3>1. n \in 0..MaxMonth /\ b \in Int /\ p \in Nat /\ repeated[key] <= p /\ held \in SharedCharge
      BY <1>0, <1>a, <2>2
    <3>2. budget' = [budget EXCEPT ![key][n] = b] /\ charged' = [charged EXCEPT ![r] = held]
      BY <2>1
    <3> HIDE DEF n, key, b, p
    <3>3. QED BY <2>5, <3>1, <3>2, BudgetFollowsCharge DEF key
  <2>7. charged'[r] = held
    BY <1>a, <2>1
  <2>8. QED BY <1>2, <2>1, <2>2, <2>4, <2>6, <2>7 DEF ScriptRuns
<1>3. CASE ~ Shared!AtCap(r) /\ charged[r].st # "none"
  <2> DEFINE p == repeated[key] + a
  <2>1. /\ budget' = [budget EXCEPT ![key][n] = b]
        /\ repeated' = [repeated EXCEPT ![key] = @ + a] /\ charged' = charged
    BY <1>3 DEF Shared!HoldScript, Shared!Charged
  <2>2. LedgerStep
    BY <1>0, <2>1, RepeatIsLedgerRepeat
  <2>3. /\ charged' = [charged EXCEPT ![r] = charged[r]] /\ repeated' = [repeated EXCEPT ![key] = p]
        /\ p \in Nat /\ repeated[key] <= p
        /\ b - (Shared!Ledger!Spent(key, n)
                 + (Shared!Ledger!Counted(charged[r], n) - Shared!Ledger!Counted(charged[r], n))) <= p
        /\ (Shared!Ledger!Spent(key, n)
             + (Shared!Ledger!Counted(charged[r], n) - Shared!Ledger!Counted(charged[r], n))) - b <= p
    BY <1>0, <1>a, <2>1
  <2>4. ServerKept
    <3> HIDE DEF b, n, key, p
    <3>1. n \in 0..MaxMonth /\ b \in Int /\ charged[r] \in SharedCharge
      BY <1>0, <1>a
    <3>2. QED BY <2>1, <2>3, <3>1, BudgetFollowsCharge DEF key, n
  <2>5. QED BY <1>0, <1>3, <1>a, <2>1, <2>2, <2>3, <2>4 DEF ScriptRuns
<1>4. QED BY <1>1, <1>2, <1>3

\* The release script: where it clamps at zero, the key had drifted below the charges, and
\* comes no further from them.
LEMMA ReturnRuns ==
  ASSUME SharedInv, NEW r \in Requests, Shared!ReturnScript(r)
  PROVE  ScriptRuns(r, "return")
<1> DEFINE key == SharedKeyOf[r]
           n == holds[r].month
           a == holds[r].amount
           b == Shared!NonNegative(budget[key][n] - a)
           void == Shared!Ledger!VoidCharge
<1>0. /\ key \in Keys /\ n \in 0..MaxMonth /\ n \in Nat /\ a \in Nat /\ charged[r] \in SharedCharge
      /\ budget[key][n] \in Int /\ repeated[key] \in Nat /\ Shared!Ledger!Spent(key, n) \in Nat
      /\ budget[key][n] - Shared!Ledger!Spent(key, n) <= repeated[key]
      /\ Shared!Ledger!Spent(key, n) - budget[key][n] <= repeated[key]
      /\ Shared!Ledger!Counted(charged[r], n) \in Nat
      /\ Shared!Ledger!Counted(charged[r], n) <= Shared!Ledger!Spent(key, n)
      /\ charged[r].st = "held" =>
           /\ Shared!Ledger!Counted(charged[r], n) = a
           /\ \A m : m # n => Shared!Ledger!Counted(charged[r], m) = 0
  BY CallParts
<1>a. charged \in [Requests -> SharedCharge] /\ repeated \in [Keys -> Nat]
  BY ServerParts
<1>b. b \in Int /\ b = IF budget[key][n] - a < 0 THEN 0 ELSE budget[key][n] - a
  BY <1>0 DEF Shared!NonNegative
<1>1. CASE charged[r].st = "held"
  <2>1. /\ budget' = [budget EXCEPT ![key][n] = b]
        /\ charged' = [charged EXCEPT ![r] = void] /\ UNCHANGED repeated
    BY <1>1 DEF Shared!ReturnScript, Shared!Charged
  <2>2. void \in SharedCharge /\ void.st = "void" /\ \A m : Shared!Ledger!Counted(void, m) = 0
    BY DEF SharedCharge, Shared!Ledger!Charges, Shared!Ledger!Counted, Shared!Ledger!VoidCharge
  <2>3. LedgerStep
    BY <1>1, <2>1, <2>2, ChargeIsLedgerStep
  <2> HIDE DEF b, void
  <2> DEFINE p == repeated[key]
  <2>5. /\ repeated' = [repeated EXCEPT ![key] = p]
        /\ b - (Shared!Ledger!Spent(key, n)
                 + (Shared!Ledger!Counted(void, n) - Shared!Ledger!Counted(charged[r], n))) <= p
        /\ (Shared!Ledger!Spent(key, n)
             + (Shared!Ledger!Counted(void, n) - Shared!Ledger!Counted(charged[r], n))) - b <= p
        /\ \A m \in 0..MaxMonth : m # n =>
             Shared!Ledger!Counted(void, m) = Shared!Ledger!Counted(charged[r], m)
    BY <1>0, <1>1, <1>a, <1>b, <2>1, <2>2
  <2>6. ServerKept
    <3>1. n \in 0..MaxMonth /\ b \in Int /\ p \in Nat /\ repeated[key] <= p /\ void \in SharedCharge
      BY <1>0, <1>b, <2>2
    <3>2. budget' = [budget EXCEPT ![key][n] = b] /\ charged' = [charged EXCEPT ![r] = void]
      BY <2>1
    <3> HIDE DEF n, key, b, p
    <3>3. QED BY <2>5, <3>1, <3>2, BudgetFollowsCharge DEF key
  <2>7. charged'[r] = void
    BY <1>a, <2>1
  <2>8. QED BY <2>1, <2>2, <2>3, <2>6, <2>7 DEF ScriptRuns
<1>2. CASE charged[r].st # "held"
  <2> DEFINE p == repeated[key] + a
  <2>1. /\ budget' = [budget EXCEPT ![key][n] = b]
        /\ repeated' = [repeated EXCEPT ![key] = @ + a] /\ charged' = charged
    BY <1>2 DEF Shared!ReturnScript, Shared!Charged
  <2>2. LedgerStep
    BY <1>0, <2>1, RepeatIsLedgerRepeat
  <2> HIDE DEF b
  <2>3. /\ charged' = [charged EXCEPT ![r] = charged[r]] /\ repeated' = [repeated EXCEPT ![key] = p]
        /\ p \in Nat /\ repeated[key] <= p
        /\ b - (Shared!Ledger!Spent(key, n)
                 + (Shared!Ledger!Counted(charged[r], n) - Shared!Ledger!Counted(charged[r], n))) <= p
        /\ (Shared!Ledger!Spent(key, n)
             + (Shared!Ledger!Counted(charged[r], n) - Shared!Ledger!Counted(charged[r], n))) - b <= p
    BY <1>0, <1>a, <1>b, <2>1
  <2>4. ServerKept
    <3> HIDE DEF n, key, p
    <3>1. n \in 0..MaxMonth /\ b \in Int /\ charged[r] \in SharedCharge
      BY <1>0, <1>b
    <3>2. QED BY <2>1, <2>3, <3>1, BudgetFollowsCharge DEF key, n
  <2>5. QED BY <1>2, <1>a, <2>1, <2>2, <2>3, <2>4 DEF ScriptRuns
<1>3. QED BY <1>1, <1>2

\* The pipeline of Commit: the first run replaces the hold by the realised cost.
LEMMA BookRuns ==
  ASSUME SharedInv, NEW r \in Requests, Shared!BookPipeline(r)
  PROVE  ScriptRuns(r, "book")
<1> DEFINE key == SharedKeyOf[r]
           n == holds[r].month
           a == holds[r].amount
           cost == holds[r].actual
           b == budget[key][n] + (cost - a)
           booked == [st |-> "booked", month |-> n, amt |-> cost]
           moved == IF cost - a < 0 THEN - (cost - a) ELSE cost - a
<1>0. /\ key \in Keys /\ n \in 0..MaxMonth /\ n \in Nat /\ a \in Nat /\ cost \in Nat
      /\ charged[r] \in SharedCharge
      /\ budget[key][n] \in Int /\ repeated[key] \in Nat /\ Shared!Ledger!Spent(key, n) \in Nat
      /\ budget[key][n] - Shared!Ledger!Spent(key, n) <= repeated[key]
      /\ Shared!Ledger!Spent(key, n) - budget[key][n] <= repeated[key]
      /\ Shared!Ledger!Counted(charged[r], n) \in Nat
      /\ charged[r].st = "held" =>
           /\ charged[r].month = n
           /\ Shared!Ledger!Counted(charged[r], n) = a
           /\ \A m : m # n => Shared!Ledger!Counted(charged[r], m) = 0
  BY CallParts
<1>a. charged \in [Requests -> SharedCharge] /\ repeated \in [Keys -> Nat]
  BY ServerParts
<1>b. b \in Int /\ moved \in Nat /\ cost - a <= moved /\ - (cost - a) <= moved
  BY <1>0
<1>1. CASE charged[r].st = "held"
  <2>1. /\ budget' = [budget EXCEPT ![key][n] = b]
        /\ charged' = [charged EXCEPT ![r] = booked] /\ UNCHANGED repeated
    BY <1>1 DEF Shared!BookPipeline, Shared!Charged
  <2>2. /\ booked \in SharedCharge /\ Shared!Ledger!Counted(booked, n) = cost
        /\ \A m : m # n => Shared!Ledger!Counted(booked, m) = 0
        /\ booked.st = "booked" /\ booked.month = n
    BY <1>0 DEF SharedCharge, Shared!Ledger!Charges, Shared!Ledger!Counted
  <2> HIDE DEF booked
  <2>3. LedgerStep
    BY <1>0, <1>1, <2>1, <2>2, ChargeIsLedgerStep
  <2> DEFINE p == repeated[key]
  <2>5. /\ repeated' = [repeated EXCEPT ![key] = p]
        /\ b - (Shared!Ledger!Spent(key, n)
                 + (Shared!Ledger!Counted(booked, n) - Shared!Ledger!Counted(charged[r], n))) <= p
        /\ (Shared!Ledger!Spent(key, n)
             + (Shared!Ledger!Counted(booked, n) - Shared!Ledger!Counted(charged[r], n))) - b <= p
        /\ \A m \in 0..MaxMonth : m # n =>
             Shared!Ledger!Counted(booked, m) = Shared!Ledger!Counted(charged[r], m)
    BY <1>0, <1>1, <1>a, <2>1, <2>2
  <2>6. ServerKept
    <3>1. n \in 0..MaxMonth /\ b \in Int /\ p \in Nat /\ repeated[key] <= p /\ booked \in SharedCharge
      BY <1>0, <1>b, <2>2
    <3>2. budget' = [budget EXCEPT ![key][n] = b] /\ charged' = [charged EXCEPT ![r] = booked]
      BY <2>1
    <3> HIDE DEF n, key, b, p
    <3>3. QED BY <2>5, <3>1, <3>2, BudgetFollowsCharge DEF key
  <2>7. charged'[r] = booked
    BY <1>a, <2>1
  <2>8. QED BY <2>1, <2>2, <2>3, <2>6, <2>7 DEF ScriptRuns
<1>2. CASE charged[r].st # "held"
  <2> DEFINE p == repeated[key] + moved
  <2>1. /\ budget' = [budget EXCEPT ![key][n] = b]
        /\ repeated' = [repeated EXCEPT ![key] = @ + moved] /\ charged' = charged
    BY <1>2 DEF Shared!BookPipeline, Shared!Charged
  <2> HIDE DEF moved
  <2>2. LedgerStep
    BY <1>b, <2>1, RepeatIsLedgerRepeat
  <2>3. /\ charged' = [charged EXCEPT ![r] = charged[r]] /\ repeated' = [repeated EXCEPT ![key] = p]
        /\ p \in Nat /\ repeated[key] <= p
        /\ b - (Shared!Ledger!Spent(key, n)
                 + (Shared!Ledger!Counted(charged[r], n) - Shared!Ledger!Counted(charged[r], n))) <= p
        /\ (Shared!Ledger!Spent(key, n)
             + (Shared!Ledger!Counted(charged[r], n) - Shared!Ledger!Counted(charged[r], n))) - b <= p
    BY <1>0, <1>a, <1>b, <2>1
  <2>4. ServerKept
    <3> HIDE DEF n, key, p, b
    <3>1. n \in 0..MaxMonth /\ b \in Int /\ charged[r] \in SharedCharge
      BY <1>0, <1>b
    <3>2. QED BY <2>1, <2>3, <3>1, BudgetFollowsCharge DEF key, n
  <2>5. QED BY <1>2, <1>a, <2>1, <2>2, <2>3, <2>4 DEF ScriptRuns
<1>3. QED BY <1>1, <1>2

\* Every run of every script.
LEMMA ScriptsRun ==
  ASSUME SharedInv, NEW r \in Requests, NEW op, Shared!Run(r, op)
  PROVE  ScriptRuns(r, op) /\ (op # "rate" => UNCHANGED <<slots, admitted>>)
<1>1. CASE op = "hold" /\ Shared!HoldScript(r)
  BY <1>1, HoldRuns DEF Shared!HoldScript
<1>2. CASE op = "return" /\ Shared!ReturnScript(r)
  BY <1>2, ReturnRuns DEF Shared!ReturnScript
<1>3. CASE op = "book" /\ Shared!BookPipeline(r)
  BY <1>3, BookRuns DEF Shared!BookPipeline
<1>4. CASE op = "rate" /\ Shared!RateScript(r)
  <2>1. UNCHANGED <<budget, charged, repeated>>
    BY <1>4 DEF Shared!RateScript
  <2>2. ServerKept /\ LedgerStep
    BY <2>1, NothingKeeps DEF LedgerStep
  <2>3. charged \in [Requests -> SharedCharge]
    BY ServerParts
  <2>4. charged[r].st = "held" => charged[r].month = holds[r].month /\ charged[r].amt = holds[r].amount
    BY CallParts
  <2>5. QED BY <1>4, <2>1, <2>2, <2>3, <2>4 DEF ScriptRuns
<1>5. QED BY <1>1, <1>2, <1>3, <1>4 DEF Shared!Run
-----------------------------------------------------------------------------
(***************************************************************************)
(* What the steps of one request do to the rest, action by action.         *)
(***************************************************************************)
\* The types of what a request keeps, and of the rest of the server.
RestTyped ==
  /\ failClosed \in BOOLEAN /\ serverNow \in Nat /\ serverWall \in 0..MaxMonth
  /\ slots \in [Keys -> SUBSET [req : Requests, ts : Nat]]
  /\ pc \in [Requests -> Shared!PCs]
  /\ holds \in [Requests -> [month : 0..MaxMonth, amount : Nat, actual : Nat,
                             held : BOOLEAN, noop : BOOLEAN, applied : BOOLEAN]]
  /\ late \in [Requests -> [Shared!Ops -> Nat]]
  /\ admitted \in [Requests -> SUBSET Nat]
  /\ troubled \subseteq Requests /\ faults \in Nat

\* Types, in the parts that the proofs use.
LEMMA SharedTypeParts ==
  Shared!TypeOK <=> /\ RestTyped /\ budget \in [Keys -> [0..MaxMonth -> Int]]
                    /\ charged \in [Requests -> SharedCharge] /\ repeated \in [Keys -> Nat]
BY SameRequests DEF Shared!TypeOK, RestTyped, Shared!Months, SharedCharge

\* The step is one of request r: it leaves the others alone, gets nobody else into trouble,
\* and keeps r linked to its charge.
StepOf(r) ==
  /\ failClosed' = failClosed
  /\ \A q \in Requests \ {r} :
       pc'[q] = pc[q] /\ holds'[q] = holds[q] /\ late'[q] = late[q] /\ charged'[q] = charged[q]
  /\ troubled \subseteq troubled' /\ troubled' \subseteq troubled \cup {r}
  /\ SharedLinkedAt(r)'

\* A step of one request keeps the invariant of all.
LEMMA StepKeepsInv ==
  ASSUME SharedInv, NEW r \in Requests, RestTyped', ServerKept, StepOf(r)
  PROVE  SharedInv'
<1>1. Shared!TypeOK'
  BY SameRequests DEF Shared!TypeOK, RestTyped, Shared!Months, SharedCharge, ServerKept
<1>2. ASSUME NEW q \in Requests PROVE SharedLinkedAt(q)'
  <2>1. CASE q = r
    BY <2>1 DEF StepOf
  <2>2. CASE q # r
    <3>1. /\ pc'[q] = pc[q] /\ holds'[q] = holds[q] /\ late'[q] = late[q] /\ charged'[q] = charged[q]
          /\ failClosed' = failClosed /\ (q \in troubled' <=> q \in troubled)
      BY <2>2 DEF StepOf
    <3>2. SharedLinkedAt(q)
      BY DEF SharedInv, SharedLinked
    <3>3. QED BY <3>1, <3>2
              DEF SharedLinkedAt, StrandedAt, UnaccountedAt, Shared!InFlight, Shared!Settling
  <2>3. QED BY <2>1, <2>2
<1>3. QED BY <1>1, <1>2 DEF SharedInv, SharedLinked, ServerKept

\* What the invariant says of request r, with the types that the steps need.
LEMMA AtRequest ==
  ASSUME SharedInv, NEW r \in Requests
  PROVE  /\ RestTyped /\ SharedLinkedAt(r) /\ SharedKeyOf[r] \in Keys
         /\ charged \in [Requests -> SharedCharge] /\ charged[r] \in SharedCharge
         /\ SharedBudget[SharedKeyOf[r]] \in Nat
BY ServerParts, CallParts, SharedTypeParts DEF SharedInv, SharedLinked

\* The clamp of estimates and costs.
LEMMA SharedClamp ==
  ASSUME NEW x \in Int PROVE Shared!NonNegative(x) \in Nat /\ (x = 0 => Shared!NonNegative(x) = 0)
BY DEF Shared!NonNegative

\* The rate script keeps the types of the slots and of the history of admissions.
LEMMA RateTyped ==
  ASSUME SharedInv, NEW r \in Requests, Shared!RateScript(r)
  PROVE  /\ slots' \in [Keys -> SUBSET [req : Requests, ts : Nat]]
         /\ admitted' \in [Requests -> SUBSET Nat]
<1> DEFINE key == SharedKeyOf[r]
           live == Shared!LiveSlots(key)
           more == {e \in live : e.req # r} \cup {[req |-> r, ts |-> serverNow]}
<1>1. /\ RestTyped /\ key \in Keys
  BY AtRequest
<1>2. live \in SUBSET [req : Requests, ts : Nat]
  BY <1>1 DEF RestTyped, Shared!LiveSlots
<1>3. more \in SUBSET [req : Requests, ts : Nat]
  <2> HIDE DEF live
  <2>1. [req |-> r, ts |-> serverNow] \in [req : Requests, ts : Nat]
    BY <1>1 DEF RestTyped
  <2>2. QED BY <1>2, <2>1
<1>4. slots' = [slots EXCEPT ![key] = live] \/ slots' = [slots EXCEPT ![key] = more]
  BY DEF Shared!RateScript
<1>5. admitted' = admitted \/ admitted' = [admitted EXCEPT ![r] = @ \cup {serverNow}]
  BY DEF Shared!RateScript
<1> HIDE DEF live, more
<1>6. slots' \in [Keys -> SUBSET [req : Requests, ts : Nat]]
  <2>1. slots \in [Keys -> SUBSET [req : Requests, ts : Nat]]
    BY <1>1 DEF RestTyped
  <2> HIDE DEF key
  <2>2. QED BY <1>1, <1>2, <1>3, <1>4, <2>1
<1>7. admitted' \in [Requests -> SUBSET Nat]
  BY <1>1, <1>5 DEF RestTyped
<1>8. QED BY <1>6, <1>7

\* A run of a script keeps the types of what the other lemmas leave out.
LEMMA RunTyped ==
  ASSUME SharedInv, NEW r \in Requests, NEW op, Shared!Run(r, op)
  PROVE  /\ slots' \in [Keys -> SUBSET [req : Requests, ts : Nat]]
         /\ admitted' \in [Requests -> SUBSET Nat]
<1>1. CASE op # "rate"
  BY <1>1, AtRequest, ScriptsRun DEF RestTyped
<1>2. CASE op = "rate"
  BY <1>2, RateTyped DEF Shared!Run
<1>3. QED BY <1>1, <1>2

\* What a step of one request is to show.
StepDone(r) == RestTyped' /\ ServerKept /\ StepOf(r) /\ LedgerStep

\* The server runs a call and its reply is read.
LEMMA ReplyStep ==
  ASSUME SharedInv, NEW r \in Requests, NEW op \in Shared!Ops, Shared!Replies(r, op),
         NEW l \in Shared!PCs, pc' = [pc EXCEPT ![r] = l],
         NEW h \in [month : 0..MaxMonth, amount : Nat, actual : Nat,
                    held : BOOLEAN, noop : BOOLEAN, applied : BOOLEAN],
         holds' = [holds EXCEPT ![r] = h], h.month = holds[r].month, h.amount = holds[r].amount,
         SharedLinkedAt(r)'
  PROVE  StepDone(r)
<1>1. RestTyped /\ charged \in [Requests -> SharedCharge]
  BY AtRequest
<1>2. ScriptRuns(r, op) /\ UNCHANGED <<failClosed, serverNow, serverWall, late, troubled, faults>>
  BY ScriptsRun DEF Shared!Replies, Shared!env, Shared!trouble
<1>3. RestTyped'
  BY <1>1, <1>2, RunTyped DEF RestTyped, Shared!Replies
<1>4. StepOf(r)
  BY <1>1, <1>2 DEF StepOf, ScriptRuns, RestTyped
<1>5. QED BY <1>2, <1>3, <1>4 DEF StepDone, ScriptRuns

\* A call goes unanswered: whatever the request does then, it is in trouble.
LEMMA NoReplyStep ==
  ASSUME SharedInv, NEW r \in Requests, Shared!NoReply(r),
         NEW l \in Shared!PCs \ {"idle"}, pc' = [pc EXCEPT ![r] = l],
         NEW h \in [month : 0..MaxMonth, amount : Nat, actual : Nat,
                    held : BOOLEAN, noop : BOOLEAN, applied : BOOLEAN],
         holds' = [holds EXCEPT ![r] = h], h.month = holds[r].month, h.amount = holds[r].amount,
         l \in {"hold", "rate"} => h = holds[r] /\ l = pc[r],
         l = "granted" /\ ~ h.applied => charged[r].st # "none" \/ ~ failClosed
  PROVE  StepDone(r)
<1>1. /\ RestTyped /\ charged \in [Requests -> SharedCharge] /\ SharedLinkedAt(r)
  BY AtRequest
<1>2. /\ late' = [late EXCEPT ![r][pc[r]] = @ + 1] /\ pc[r] \in Shared!Ops
      /\ faults' = faults + 1 /\ troubled' = troubled \cup {r}
      /\ UNCHANGED <<failClosed, serverNow, serverWall, budget, slots, charged, repeated, admitted>>
  BY DEF Shared!NoReply, Shared!env, Shared!server
<1>3. late' \in [Requests -> [Shared!Ops -> Nat]]
  BY <1>1, <1>2 DEF RestTyped
<1>4. RestTyped'
  BY <1>1, <1>2, <1>3 DEF RestTyped
<1>5. pc'[r] = l /\ holds'[r] = h /\ charged'[r] = charged[r] /\ r \in troubled'
  BY <1>1, <1>2 DEF RestTyped
<1>6. SharedLinkedAt(r)'
  BY <1>1, <1>2, <1>5 DEF SharedLinkedAt, StrandedAt, UnaccountedAt
<1>7. StepOf(r)
  BY <1>1, <1>2, <1>6 DEF StepOf, RestTyped
<1>8. QED BY <1>2, <1>4, <1>7, NothingKeeps DEF StepDone, LedgerStep

\* Reserve starts: a call to the budget script, or a hold of zero without one.
LEMMA ReserveStep ==
  ASSUME SharedInv, NEW r \in Requests, NEW usd \in SharedEstimates, Shared!Reserve(r, usd)
  PROVE  StepDone(r)
<1> DEFINE est == Shared!NonNegative(usd)
           h == [Shared!NoReservation EXCEPT !.month = serverWall, !.amount = est]
           key == SharedKeyOf[r]
<1>1. /\ RestTyped /\ charged \in [Requests -> SharedCharge] /\ SharedLinkedAt(r)
      /\ key \in Keys /\ SharedBudget[key] \in Nat
  BY AtRequest
<1>2. est \in Nat
  BY SharedAssumption, SharedClamp
<1>3. /\ pc[r] = "idle" /\ holds' = [holds EXCEPT ![r] = h]
      /\ UNCHANGED <<failClosed, serverNow, serverWall, budget, slots, repeated, admitted, late, troubled, faults>>
  BY DEF Shared!Reserve, Shared!env, Shared!trouble
<1>4. /\ h \in [month : 0..MaxMonth, amount : Nat, actual : Nat,
                held : BOOLEAN, noop : BOOLEAN, applied : BOOLEAN]
      /\ h.month = serverWall /\ h.amount = est /\ ~ h.held /\ ~ h.noop /\ ~ h.applied
  BY <1>1, <1>2, SharedAssumption DEF RestTyped, Shared!NoReservation
<1> HIDE DEF h
<1>5. holds' \in [Requests -> [month : 0..MaxMonth, amount : Nat, actual : Nat,
                               held : BOOLEAN, noop : BOOLEAN, applied : BOOLEAN]] /\ holds'[r] = h
  BY <1>1, <1>3, <1>4 DEF RestTyped
<1>6. charged[r].st = "none" /\ \A op \in Shared!Ops : late[r][op] = 0
  BY <1>1, <1>3 DEF SharedLinkedAt
<1>7. CASE SharedBudget[key] > 0 \/ est > 0
  <2>1. pc' = [pc EXCEPT ![r] = "hold"] /\ charged' = charged
    BY <1>7 DEF Shared!Reserve, Shared!Goto
  <2>2. RestTyped'
    BY <1>1, <1>3, <1>5, <2>1 DEF RestTyped, Shared!PCs, Shared!Ops
  <2>3. pc'[r] = "hold"
    BY <1>1, <2>1 DEF RestTyped
  <2>4. SharedLinkedAt(r)'
    BY <1>3, <1>4, <1>5, <1>6, <2>1, <2>3 DEF SharedLinkedAt, StrandedAt, UnaccountedAt
  <2>5. StepOf(r)
    BY <1>1, <1>3, <2>1, <2>4 DEF StepOf, RestTyped
  <2>6. QED BY <1>3, <2>1, <2>2, <2>5, NothingKeeps DEF StepDone, LedgerStep
<1>8. CASE ~ (SharedBudget[key] > 0 \/ est > 0)
  <2> DEFINE c == [st |-> "held", month |-> serverWall, amt |-> 0]
  <2>0. est = 0 /\ SharedBudget[key] = 0
    BY <1>1, <1>2, <1>8
  <2>1. /\ pc' = [pc EXCEPT ![r] = Shared!AfterBudget(r)]
        /\ charged' = [charged EXCEPT ![r] = c]
    BY <1>8 DEF Shared!Reserve, Shared!Goto
  <2>2. /\ c \in SharedCharge /\ \A m : Shared!Ledger!Counted(c, m) = 0
        /\ c.st = "held" /\ c.month = serverWall /\ c.amt = 0
    <3>1. serverWall \in Nat
      BY <1>1, SharedAssumption DEF RestTyped
    <3>2. QED BY <3>1 DEF SharedCharge, Shared!Ledger!Charges, Shared!Ledger!Counted
  <2> HIDE DEF c
  <2>3. Shared!AfterBudget(r) \in {"rate", "granted"}
    BY DEF Shared!AfterBudget
  <2>4. /\ pc' \in [Requests -> Shared!PCs] /\ pc'[r] \in {"rate", "granted"} /\ charged'[r] = c
        /\ charged' \in [Requests -> SharedCharge]
    BY <1>1, <2>1, <2>2, <2>3 DEF RestTyped, Shared!PCs, Shared!Ops
  <2>5. RestTyped'
    BY <1>1, <1>3, <1>5, <2>4 DEF RestTyped
  <2>6. SharedLinkedAt(r)'
    BY <1>3, <1>4, <1>5, <1>6, <2>0, <2>2, <2>4 DEF SharedLinkedAt, StrandedAt, UnaccountedAt
  <2>7. StepOf(r)
    BY <1>1, <1>3, <2>1, <2>6 DEF StepOf, RestTyped
  <2>8. LedgerStep
    <3>1. Shared!Ledger!Admits(key, c.month)
      BY <2>0 DEF Shared!Ledger!Admits
    <3>2. QED BY <1>3, <1>6, <2>1, <2>2, <3>1, ChargeIsLedgerStep
  <2>9. ServerKept
    <3>1. /\ budget \in [Keys -> [0..MaxMonth -> Int]] /\ repeated \in [Keys -> Nat]
          /\ serverWall \in 0..MaxMonth
      BY <1>1, ServerParts DEF RestTyped
    <3> DEFINE b == budget[key][serverWall]
               p == repeated[key]
    <3>2. /\ b \in Int /\ p \in Nat /\ repeated[key] <= p
          /\ b - Shared!Ledger!Spent(key, serverWall) <= p
          /\ Shared!Ledger!Spent(key, serverWall) - b <= p
          /\ Shared!Ledger!Spent(key, serverWall) \in Int
      <4>1. b \in Int /\ p \in Nat /\ repeated[key] <= p
        <5> HIDE DEF key
        <5>1. b \in Int
          BY <1>1, <3>1
        <5>2. p \in Nat
          BY <1>1, <3>1
        <5>3. QED BY <5>1, <5>2
      <4>2. /\ b - Shared!Ledger!Spent(key, serverWall) <= p
            /\ Shared!Ledger!Spent(key, serverWall) - b <= p
        BY <1>1, <3>1, ServerParts
      <4>3. Shared!Ledger!Spent(key, serverWall) \in Int
        BY <1>1, SharedSpentBounds
      <4>4. QED BY <4>1, <4>2, <4>3
    <3>3. /\ budget' = [budget EXCEPT ![key][serverWall] = b]
          /\ repeated' = [repeated EXCEPT ![key] = p]
      BY <1>1, <1>3, <3>1
    <3>4. \A m : Shared!Ledger!Counted(charged[r], m) = 0
      BY <1>6 DEF Shared!Ledger!Counted
    <3> HIDE DEF b, p
    <3>5. /\ b - (Shared!Ledger!Spent(key, serverWall)
                   + (Shared!Ledger!Counted(c, serverWall) - Shared!Ledger!Counted(charged[r], serverWall))) <= p
          /\ (Shared!Ledger!Spent(key, serverWall)
               + (Shared!Ledger!Counted(c, serverWall) - Shared!Ledger!Counted(charged[r], serverWall))) - b <= p
          /\ \A m \in 0..MaxMonth : Shared!Ledger!Counted(c, m) = Shared!Ledger!Counted(charged[r], m)
      BY <2>2, <3>2, <3>4
    <3>6. c \in SharedCharge
      BY <2>2
    <3>7. QED BY <2>1, <3>1, <3>2, <3>3, <3>5, <3>6, BudgetFollowsCharge DEF key
  <2>10. QED BY <2>5, <2>7, <2>8, <2>9 DEF StepDone
<1>9. QED BY <1>7, <1>8

\* The reply to the budget script.
LEMMA HoldRepliesStep ==
  ASSUME SharedInv, NEW r \in Requests, Shared!HoldReplies(r)
  PROVE  StepDone(r)
<1>1. /\ RestTyped /\ charged \in [Requests -> SharedCharge] /\ SharedLinkedAt(r)
  BY AtRequest
<1>2. /\ Shared!Replies(r, "hold") /\ pc[r] = "hold" /\ "hold" \in Shared!Ops
      /\ ScriptRuns(r, "hold") /\ UNCHANGED <<late, troubled, failClosed>>
  BY ScriptsRun DEF Shared!HoldReplies, Shared!Replies, Shared!Ops, Shared!env, Shared!trouble
<1>3. CASE Shared!AtCap(r)
  <2>1. pc' = [pc EXCEPT ![r] = "rejected"] /\ holds' = [holds EXCEPT ![r] = holds[r]]
    BY <1>1, <1>3 DEF Shared!HoldReplies, Shared!Goto, RestTyped
  <2>2. charged' = charged /\ pc'[r] = "rejected" /\ holds'[r] = holds[r]
    BY <1>1, <1>2, <1>3, <2>1 DEF RestTyped, ScriptRuns
  <2>3. SharedLinkedAt(r)'
    BY <1>1, <1>2, <2>2 DEF SharedLinkedAt, StrandedAt, UnaccountedAt
  <2>4. /\ "rejected" \in Shared!PCs
        /\ holds[r] \in [month : 0..MaxMonth, amount : Nat, actual : Nat,
                         held : BOOLEAN, noop : BOOLEAN, applied : BOOLEAN]
    BY <1>1 DEF RestTyped, Shared!PCs
  <2>5. QED BY <1>2, <2>1, <2>3, <2>4, ReplyStep
<1>4. CASE ~ Shared!AtCap(r)
  <2> DEFINE h == [holds[r] EXCEPT !.held = TRUE]
             l == Shared!AfterBudget(r)
  <2>1. pc' = [pc EXCEPT ![r] = l] /\ holds' = [holds EXCEPT ![r] = h]
    BY <1>1, <1>4 DEF Shared!HoldReplies, Shared!Goto, RestTyped
  <2>2. /\ h \in [month : 0..MaxMonth, amount : Nat, actual : Nat,
                  held : BOOLEAN, noop : BOOLEAN, applied : BOOLEAN]
        /\ h.month = holds[r].month /\ h.amount = holds[r].amount /\ h.held
        /\ h.noop = holds[r].noop /\ h.applied = holds[r].applied
    BY <1>1 DEF RestTyped
  <2>3. l \in {"rate", "granted"} /\ l \in Shared!PCs
    BY DEF Shared!AfterBudget, Shared!PCs, Shared!Ops
  <2> HIDE DEF h, l
  <2>4. pc'[r] = l /\ holds'[r] = h
    BY <1>1, <2>1 DEF RestTyped
  <2>5. /\ charged'[r].st # "none"
        /\ charged'[r].st = "held" => charged'[r].month = h.month /\ charged'[r].amt = h.amount
    BY <1>2, <1>4, <2>2 DEF ScriptRuns
  <2>6. SharedLinkedAt(r)'
    BY <1>1, <1>2, <2>2, <2>3, <2>4, <2>5
       DEF SharedLinkedAt, StrandedAt, UnaccountedAt, Shared!InFlight, Shared!Settling, Shared!Ops
  <2>7. QED BY <1>2, <2>1, <2>2, <2>3, <2>6, ReplyStep
<1>5. QED BY <1>3, <1>4

\* Where a Reserve that gives up goes.
LEMMA GivesUp ==
  ASSUME NEW r, Shared!GiveUp(r)
  PROVE  \E l \in {"return", "rejected"} :
           /\ pc' = [pc EXCEPT ![r] = l]
           /\ l = "return" <=> holds[r].held /\ holds[r].amount > 0
BY DEF Shared!GiveUp, Shared!Goto

\* The reply to the rate script.
LEMMA RateRepliesStep ==
  ASSUME SharedInv, NEW r \in Requests, Shared!RateReplies(r)
  PROVE  StepDone(r)
<1>1. /\ RestTyped /\ charged \in [Requests -> SharedCharge] /\ SharedLinkedAt(r)
  BY AtRequest
<1>2. /\ Shared!Replies(r, "rate") /\ pc[r] = "rate" /\ "rate" \in Shared!Ops
      /\ ScriptRuns(r, "rate") /\ UNCHANGED <<late, troubled, failClosed, holds>>
  BY ScriptsRun DEF Shared!RateReplies, Shared!Replies, Shared!Ops, Shared!env, Shared!trouble
<1>3. charged'[r] = charged[r]
  BY <1>2 DEF ScriptRuns
<1>4. PICK l \in {"return", "rejected", "granted"} :
        /\ pc' = [pc EXCEPT ![r] = l]
        /\ l = "rejected" => ~ (holds[r].held /\ holds[r].amount > 0)
  BY GivesUp DEF Shared!RateReplies, Shared!Goto
<1>5. pc'[r] = l /\ holds'[r] = holds[r] /\ l \in Shared!PCs
  BY <1>1, <1>2, <1>4 DEF RestTyped, Shared!PCs, Shared!Ops
<1>6. holds[r].amount \in Nat /\ charged[r].st = "held" => charged[r].amt = holds[r].amount
  BY <1>1 DEF SharedLinkedAt
<1>7. SharedLinkedAt(r)'
  <2>1. l = "rejected" => ~ StrandedAt(r)'
    <3>1. holds[r].amount \in Nat
      BY <1>1 DEF RestTyped
    <3>2. QED BY <1>1, <1>2, <1>3, <1>4, <1>6, <3>1 DEF SharedLinkedAt, StrandedAt
  <2>2. l # "rejected" => Shared!InFlight(r)'
    BY <1>1, <1>2, <1>4, <1>5 DEF SharedLinkedAt, Shared!InFlight, Shared!Settling, Shared!Ops
  <2>3. QED BY <1>1, <1>2, <1>3, <1>4, <1>5, <2>1, <2>2 DEF SharedLinkedAt, StrandedAt, UnaccountedAt
<1>8. /\ holds' = [holds EXCEPT ![r] = holds[r]]
      /\ holds[r] \in [month : 0..MaxMonth, amount : Nat, actual : Nat,
                       held : BOOLEAN, noop : BOOLEAN, applied : BOOLEAN]
  BY <1>1, <1>2 DEF RestTyped
<1>9. QED BY <1>2, <1>4, <1>5, <1>7, <1>8, ReplyStep

\* Where a settlement ends, or the release inside a Reserve that gave up.
LEMMA SettlementEnds ==
  ASSUME SharedInv, NEW r \in Requests, Shared!Settled(r)
  PROVE  \E l \in {"granted", "rejected"} :
           /\ pc' = [pc EXCEPT ![r] = l] /\ holds' = [holds EXCEPT ![r] = holds[r]]
           /\ l = "granted" => holds[r].applied
           /\ l \in Shared!PCs
           /\ holds[r] \in [month : 0..MaxMonth, amount : Nat, actual : Nat,
                            held : BOOLEAN, noop : BOOLEAN, applied : BOOLEAN]
<1>1. RestTyped
  BY AtRequest
<1>2. QED BY <1>1 DEF Shared!Settled, Shared!Goto, RestTyped, Shared!PCs

\* The reply to a settlement: nothing of the request is held any more.
LEMMA SettleRepliesStep ==
  ASSUME SharedInv, NEW r \in Requests, NEW op \in {"return", "book"},
         Shared!Replies(r, op), Shared!Settled(r)
  PROVE  StepDone(r)
<1>1. /\ RestTyped /\ charged \in [Requests -> SharedCharge] /\ SharedLinkedAt(r)
  BY AtRequest
<1>2. /\ op \in Shared!Ops /\ ScriptRuns(r, op) /\ pc[r] = op /\ UNCHANGED <<late, troubled, failClosed>>
  BY ScriptsRun DEF Shared!Replies, Shared!Ops, Shared!env, Shared!trouble
<1>3. PICK l \in {"granted", "rejected"} :
        /\ pc' = [pc EXCEPT ![r] = l] /\ holds' = [holds EXCEPT ![r] = holds[r]]
        /\ l = "granted" => holds[r].applied
        /\ l \in Shared!PCs
        /\ holds[r] \in [month : 0..MaxMonth, amount : Nat, actual : Nat,
                         held : BOOLEAN, noop : BOOLEAN, applied : BOOLEAN]
  BY SettlementEnds
<1>4. pc'[r] = l /\ holds'[r] = holds[r] /\ charged'[r].st # "held"
  BY <1>1, <1>2, <1>3 DEF RestTyped, ScriptRuns
<1>5. SharedLinkedAt(r)'
  BY <1>1, <1>2, <1>3, <1>4 DEF SharedLinkedAt, StrandedAt, UnaccountedAt
<1>6. QED BY <1>2, <1>3, <1>5, ReplyStep

\* Calls that go unanswered: sent again, given up by Reserve, or by a settlement.
LEMMA FailedStep ==
  ASSUME SharedInv, NEW r \in Requests,
         Shared!Resend(r) \/ Shared!HoldFails(r) \/ Shared!RateFails(r) \/ Shared!SettleFails(r)
  PROVE  StepDone(r)
<1>1. /\ RestTyped /\ charged \in [Requests -> SharedCharge] /\ SharedLinkedAt(r)
  BY AtRequest
<1>2. /\ Shared!NoReply(r) /\ pc[r] \in Shared!Ops
      /\ holds[r] \in [month : 0..MaxMonth, amount : Nat, actual : Nat,
                       held : BOOLEAN, noop : BOOLEAN, applied : BOOLEAN]
      /\ holds = [holds EXCEPT ![r] = holds[r]] /\ pc = [pc EXCEPT ![r] = pc[r]]
  BY <1>1 DEF Shared!Resend, Shared!HoldFails, Shared!RateFails, Shared!SettleFails, Shared!NoReply, RestTyped
<1>3. /\ pc[r] \in Shared!PCs \ {"idle"} /\ pc[r] # "granted"
      /\ {"rejected", "granted", "return"} \subseteq Shared!PCs \ {"idle"}
  BY <1>2 DEF Shared!PCs, Shared!Ops
<1>4. CASE Shared!Resend(r)
  <2>1. pc' = [pc EXCEPT ![r] = pc[r]] /\ holds' = [holds EXCEPT ![r] = holds[r]]
    BY <1>2, <1>4 DEF Shared!Resend
  <2>2. QED BY <1>2, <1>3, <2>1, NoReplyStep
<1>5. CASE Shared!HoldFails(r) /\ failClosed
  <2>1. pc' = [pc EXCEPT ![r] = "rejected"] /\ holds' = [holds EXCEPT ![r] = holds[r]]
    BY <1>2, <1>5 DEF Shared!HoldFails, Shared!Goto
  <2>2. QED BY <1>2, <1>3, <2>1, NoReplyStep
<1>6. CASE Shared!HoldFails(r) /\ ~ failClosed
  <2> DEFINE h == [holds[r] EXCEPT !.noop = TRUE]
  <2>1. pc' = [pc EXCEPT ![r] = "granted"] /\ holds' = [holds EXCEPT ![r] = h]
    BY <1>1, <1>6 DEF Shared!HoldFails, Shared!Goto, RestTyped
  <2>2. /\ h \in [month : 0..MaxMonth, amount : Nat, actual : Nat,
                  held : BOOLEAN, noop : BOOLEAN, applied : BOOLEAN]
        /\ h.month = holds[r].month /\ h.amount = holds[r].amount
    BY <1>2
  <2> HIDE DEF h
  <2>3. QED BY <1>2, <1>3, <1>6, <2>1, <2>2, NoReplyStep
<1>7. CASE Shared!RateFails(r)
  <2>1. holds' = [holds EXCEPT ![r] = holds[r]] /\ pc[r] = "rate" /\ charged[r].st # "none"
    BY <1>1, <1>2, <1>7 DEF Shared!RateFails, SharedLinkedAt
  <2>2. \E l \in {"return", "rejected", "granted"} : pc' = [pc EXCEPT ![r] = l]
    BY <1>7, GivesUp DEF Shared!RateFails, Shared!Goto
  <2>3. PICK l \in {"return", "rejected", "granted"} : pc' = [pc EXCEPT ![r] = l]
    BY <2>2
  <2>4. QED BY <1>2, <1>3, <2>1, <2>3, NoReplyStep
<1>8. CASE Shared!SettleFails(r)
  <2>1. PICK l \in {"granted", "rejected"} :
          /\ pc' = [pc EXCEPT ![r] = l] /\ holds' = [holds EXCEPT ![r] = holds[r]]
          /\ l = "granted" => holds[r].applied
    BY <1>8, SettlementEnds DEF Shared!SettleFails
  <2>2. QED BY <1>2, <1>3, <2>1, NoReplyStep
<1>9. QED BY <1>4, <1>5, <1>6, <1>7, <1>8

\* The server runs a call that nobody waits for any more.
LEMMA LateStep ==
  ASSUME SharedInv, NEW r \in Requests, NEW op \in Shared!Ops, Shared!RunsLate(r, op)
  PROVE  StepDone(r)
<1>1. /\ RestTyped /\ charged \in [Requests -> SharedCharge] /\ SharedLinkedAt(r)
  BY AtRequest
<1>2. /\ late[r][op] > 0 /\ late' = [late EXCEPT ![r][op] = @ - 1]
      /\ UNCHANGED <<failClosed, serverNow, serverWall, pc, holds, troubled, faults>>
      /\ ScriptRuns(r, op)
  BY ScriptsRun DEF Shared!RunsLate, Shared!env
<1>3. late' \in [Requests -> [Shared!Ops -> Nat]] /\ \A o \in Shared!Ops : late'[r][o] <= late[r][o]
  <2>1. late \in [Requests -> [Shared!Ops -> Nat]] /\ late[r][op] \in Nat
    BY <1>1 DEF RestTyped
  <2>2. late[r][op] - 1 \in Nat
    BY <1>2, <2>1
  <2>3. QED BY <1>2, <2>1, <2>2
<1>4. RestTyped'
  BY <1>1, <1>2, <1>3, RunTyped DEF RestTyped, Shared!RunsLate
<1>5. r \in troubled /\ pc[r] # "idle"
  BY <1>1, <1>2 DEF SharedLinkedAt
<1>6. SharedLinkedAt(r)'
  <2>1. UnaccountedAt(r)' => UnaccountedAt(r)
    BY <1>2 DEF UnaccountedAt, ScriptRuns
  <2>2. pc[r] = "rate" => charged'[r].st # "none"
    BY <1>1, <1>2 DEF SharedLinkedAt, ScriptRuns
  <2>3. charged'[r].st = "held" => charged'[r].month = holds[r].month /\ charged'[r].amt = holds[r].amount
    BY <1>2 DEF ScriptRuns
  <2>4. QED BY <1>1, <1>2, <1>5, <2>1, <2>2, <2>3 DEF SharedLinkedAt
<1>7. StepOf(r)
  BY <1>1, <1>2, <1>6 DEF StepOf, ScriptRuns, RestTyped
<1>8. QED BY <1>2, <1>4, <1>7 DEF StepDone, ScriptRuns

\* A settlement starts: its call is on its way.
LEMMA CallStarts ==
  ASSUME SharedInv, NEW r \in Requests, NEW l \in {"return", "book"}, pc[r] = "granted",
         pc' = [pc EXCEPT ![r] = l],
         NEW h \in [month : 0..MaxMonth, amount : Nat, actual : Nat,
                    held : BOOLEAN, noop : BOOLEAN, applied : BOOLEAN],
         holds' = [holds EXCEPT ![r] = h], h.month = holds[r].month, h.amount = holds[r].amount,
         UNCHANGED <<failClosed, serverNow, serverWall, budget, slots, charged, repeated, admitted,
                     late, troubled, faults>>
  PROVE  StepDone(r)
<1>1. /\ RestTyped /\ charged \in [Requests -> SharedCharge] /\ SharedLinkedAt(r)
  BY AtRequest
<1>2. pc'[r] = l /\ holds'[r] = h
  BY <1>1 DEF RestTyped
<1>3. RestTyped'
  BY <1>1 DEF RestTyped, Shared!PCs, Shared!Ops
<1>4. SharedLinkedAt(r)'
  BY <1>1, <1>2 DEF SharedLinkedAt, StrandedAt, UnaccountedAt, Shared!InFlight, Shared!Ops
<1>5. StepOf(r)
  BY <1>1, <1>4 DEF StepOf, RestTyped
<1>6. QED BY <1>3, <1>5, NothingKeeps DEF StepDone, LedgerStep

LEMMA CommitStarts ==
  ASSUME SharedInv, NEW r \in Requests, NEW cost \in SharedCosts, Shared!Commit(r, cost)
  PROVE  StepDone(r)
<1> DEFINE h == [holds[r] EXCEPT !.applied = TRUE, !.actual = Shared!NonNegative(cost)]
<1>1. RestTyped /\ Shared!NonNegative(cost) \in Nat
  BY AtRequest, SharedAssumption, SharedClamp
<1>2. /\ h \in [month : 0..MaxMonth, amount : Nat, actual : Nat,
                held : BOOLEAN, noop : BOOLEAN, applied : BOOLEAN]
      /\ h.month = holds[r].month /\ h.amount = holds[r].amount
  BY <1>1 DEF RestTyped
<1>3. /\ pc[r] = "granted" /\ pc' = [pc EXCEPT ![r] = "book"]
      /\ holds' = [holds EXCEPT ![r].applied = TRUE, ![r].actual = Shared!NonNegative(cost)]
      /\ UNCHANGED <<failClosed, serverNow, serverWall, budget, slots, charged, repeated, admitted,
                     late, troubled, faults>>
  BY DEF Shared!Commit, Shared!Settling, Shared!Goto, Shared!env, Shared!server, Shared!trouble
<1>4. holds' = [holds EXCEPT ![r] = h]
  BY <1>1, <1>3 DEF RestTyped
<1> HIDE DEF h
<1>5. QED BY <1>2, <1>3, <1>4, CallStarts

LEMMA ReleaseStarts ==
  ASSUME SharedInv, NEW r \in Requests, Shared!Release(r)
  PROVE  StepDone(r)
<1> DEFINE h == [holds[r] EXCEPT !.applied = TRUE]
<1>1. RestTyped
  BY AtRequest
<1>2. /\ h \in [month : 0..MaxMonth, amount : Nat, actual : Nat,
                held : BOOLEAN, noop : BOOLEAN, applied : BOOLEAN]
      /\ h.month = holds[r].month /\ h.amount = holds[r].amount
  BY <1>1 DEF RestTyped
<1>3. /\ pc[r] = "granted" /\ pc' = [pc EXCEPT ![r] = "return"]
      /\ holds' = [holds EXCEPT ![r].applied = TRUE]
      /\ UNCHANGED <<failClosed, serverNow, serverWall, budget, slots, charged, repeated, admitted,
                     late, troubled, faults>>
  BY DEF Shared!Release, Shared!Settling, Shared!Goto, Shared!env, Shared!server, Shared!trouble
<1>4. holds' = [holds EXCEPT ![r] = h]
  BY <1>1, <1>3 DEF RestTyped
<1> HIDE DEF h
<1>5. QED BY <1>2, <1>3, <1>4, CallStarts
-----------------------------------------------------------------------------
(***************************************************************************)
(* Crashes, the clock, and the invariant.                                  *)
(***************************************************************************)
\* A crash takes requests out of flight and gets each into trouble.
LEMMA CrashStep ==
  ASSUME SharedInv, NEW p, Shared!Crash(p)
  PROVE  SharedInv' /\ UNCHANGED <<charged, repeated>>
<1> DEFINE killed == {r \in Requests : ReplicaOf[r] = p /\ Shared!InFlight(r)}
<1>0. Shared!Requests = Requests
  BY SameRequests
<1>1. /\ faults' = faults + Cardinality(killed) /\ troubled' = troubled \cup killed
      /\ pc' = [r \in Requests |-> IF r \in killed THEN "dead" ELSE pc[r]]
      /\ late' = [r \in Requests |-> [op \in Shared!Ops |->
                    IF r \in killed /\ pc[r] = op THEN late[r][op] + 1 ELSE late[r][op]]]
      /\ UNCHANGED <<failClosed, serverNow, serverWall, budget, slots, charged, repeated, admitted, holds>>
  <2>1. UNCHANGED <<failClosed, serverNow, serverWall, budget, slots, charged, repeated, admitted, holds>>
    BY DEF Shared!Crash, Shared!env, Shared!server
  <2>2. killed = {r \in Shared!Requests : ReplicaOf[r] = p /\ Shared!InFlight(r)}
    BY <1>0
  <2> HIDE DEF killed
  <2>3. /\ faults' = faults + Cardinality(killed) /\ troubled' = troubled \cup killed
        /\ pc' = [r \in Shared!Requests |-> IF r \in killed THEN "dead" ELSE pc[r]]
        /\ late' = [r \in Shared!Requests |-> [op \in Shared!Ops |->
                      IF r \in killed /\ pc[r] = op THEN late[r][op] + 1 ELSE late[r][op]]]
    BY <2>2, SameCardinality DEF Shared!Crash
  <2>4. QED BY <1>0, <2>1, <2>3
<1>2. killed \in SUBSET Requests /\ \A r \in killed : pc[r] # "idle"
  BY DEF Shared!InFlight, Shared!Settling, Shared!Ops
<1> HIDE DEF killed
<1>3. Cardinality(killed) \in Nat
  <2>1. IsFiniteSet(Requests)
    BY StoreAssumption, SameRequests, FS_Interval
  <2>2. QED BY <1>2, <2>1, FS_Subset, FS_CardinalityType
<1>4. RestTyped /\ RestTyped'
  <2>1. RestTyped
    BY SharedTypeParts DEF SharedInv
  <2>2. pc' \in [Requests -> Shared!PCs]
    BY <1>1, <2>1 DEF RestTyped, Shared!PCs
  <2>3. late' \in [Requests -> [Shared!Ops -> Nat]]
    <3>1. \A r \in Requests, op \in Shared!Ops : late[r][op] \in Nat
      BY <2>1 DEF RestTyped
    <3>2. QED BY <1>1, <3>1
  <2>4. faults' \in Nat /\ troubled' \subseteq Requests
    BY <1>1, <1>2, <1>3, <2>1 DEF RestTyped
  <2>5. QED BY <1>1, <2>1, <2>2, <2>3, <2>4 DEF RestTyped
<1>5. ServerKept
  BY <1>1, NothingKeeps
<1>6. Shared!TypeOK'
  BY <1>4, <1>5, SameRequests DEF Shared!TypeOK, RestTyped, Shared!Months, SharedCharge, ServerKept
<1>7. ASSUME NEW r \in Requests PROVE SharedLinkedAt(r)'
  <2>1. SharedLinkedAt(r)
    BY DEF SharedInv, SharedLinked
  <2>2. CASE r \in killed
    <3>1. pc'[r] = "dead" /\ r \in troubled'
      BY <1>1, <2>2
    <3>2. QED BY <1>1, <2>1, <3>1 DEF SharedLinkedAt, StrandedAt, UnaccountedAt
  <2>3. CASE r \notin killed
    <3>1. /\ pc'[r] = pc[r] /\ (r \in troubled' <=> r \in troubled)
          /\ \A op \in Shared!Ops : late'[r][op] = late[r][op]
      BY <1>1, <2>3
    <3>2. QED BY <1>1, <2>1, <3>1
              DEF SharedLinkedAt, StrandedAt, UnaccountedAt, Shared!InFlight, Shared!Settling
  <2>4. QED BY <2>2, <2>3
<1>8. QED BY <1>1, <1>5, <1>6, <1>7 DEF SharedInv, SharedLinked, ServerKept

\* Time passes.
LEMMA TickStep ==
  ASSUME SharedInv, Shared!Tick
  PROVE  SharedInv' /\ UNCHANGED <<charged, repeated>>
<1>1. /\ serverNow' = serverNow + 1 /\ serverWall' \in 0..MaxMonth
      /\ UNCHANGED <<failClosed, budget, slots, charged, repeated, admitted, pc, holds,
                     late, troubled, faults>>
  BY DEF Shared!Tick, Shared!server, Shared!trouble, Shared!Months
<1>2. RestTyped'
  BY <1>1, SharedTypeParts DEF RestTyped, SharedInv
<1>3. ServerKept
  BY <1>1, NothingKeeps
<1>4. Shared!TypeOK'
  BY <1>2, <1>3, SameRequests DEF Shared!TypeOK, RestTyped, Shared!Months, SharedCharge, ServerKept
<1>5. SharedLinked'
  BY <1>1 DEF SharedInv, SharedLinked, SharedLinkedAt, StrandedAt, UnaccountedAt,
              Shared!InFlight, Shared!Settling
<1>6. QED BY <1>1, <1>3, <1>4, <1>5 DEF SharedInv, ServerKept

\* Nothing of the shared store moves.
LEMMA StutterStep ==
  ASSUME SharedInv, UNCHANGED sharedVars
  PROVE  SharedInv' /\ UNCHANGED <<charged, repeated>>
<1>1. UNCHANGED <<failClosed, serverNow, serverWall, budget, slots, pc, holds, late, charged, repeated,
                  admitted, troubled, faults>>
  BY DEF sharedVars
<1>2. ServerKept
  BY <1>1, NothingKeeps
<1>3. Shared!TypeOK'
  BY <1>1 DEF SharedInv, Shared!TypeOK
<1>4. SharedLinked'
  BY <1>1 DEF SharedInv, SharedLinked, SharedLinkedAt, StrandedAt, UnaccountedAt,
              Shared!InFlight, Shared!Settling
<1>5. QED BY <1>1, <1>2, <1>3, <1>4 DEF SharedInv, ServerKept

\* The steps there are.
LEMMA SharedCases ==
  ASSUME SharedInv, SharedStep
  PROVE  \/ \E r \in Requests : StepDone(r)
         \/ \E p : Shared!Crash(p)
         \/ Shared!Tick
         \/ UNCHANGED sharedVars
<1>1. CASE Shared!Next
  <2>1. ASSUME NEW r \in Requests, NEW usd \in SharedEstimates, Shared!Reserve(r, usd)
        PROVE  StepDone(r)
    BY <2>1, ReserveStep
  <2>2. ASSUME NEW r \in Requests, Shared!HoldReplies(r) PROVE StepDone(r)
    BY <2>2, HoldRepliesStep
  <2>3. ASSUME NEW r \in Requests, Shared!RateReplies(r) PROVE StepDone(r)
    BY <2>3, RateRepliesStep
  <2>4. ASSUME NEW r \in Requests,
               Shared!Resend(r) \/ Shared!HoldFails(r) \/ Shared!RateFails(r) \/ Shared!SettleFails(r)
        PROVE  StepDone(r)
    BY <2>4, FailedStep
  <2>5. ASSUME NEW r \in Requests, NEW cost \in SharedCosts, Shared!Commit(r, cost) PROVE StepDone(r)
    BY <2>5, CommitStarts
  <2>6. ASSUME NEW r \in Requests, Shared!Release(r) PROVE StepDone(r)
    BY <2>6, ReleaseStarts
  <2>7. ASSUME NEW r \in Requests, Shared!ReturnReplies(r) PROVE StepDone(r)
    BY <2>7, SettleRepliesStep DEF Shared!ReturnReplies
  <2>8. ASSUME NEW r \in Requests, Shared!BookReplies(r) PROVE StepDone(r)
    BY <2>8, SettleRepliesStep DEF Shared!BookReplies
  <2>9. ASSUME NEW r \in Requests, NEW op \in Shared!Ops, Shared!RunsLate(r, op) PROVE StepDone(r)
    BY <2>9, LateStep
  <2>10. ASSUME NEW r \in Requests, Shared!SettleNothing(r) PROVE UNCHANGED sharedVars
    BY <2>10 DEF Shared!SettleNothing, Shared!vars, Shared!env, Shared!server, Shared!trouble, sharedVars
  <2>11. QED
    BY <1>1, <2>1, <2>2, <2>3, <2>4, <2>5, <2>6, <2>7, <2>8, <2>9, <2>10, SameRequests DEF Shared!Next
<1>2. QED BY <1>1 DEF SharedStep

\* The invariant is inductive, and every step is one of the abstract ledger or leaves it alone.
LEMMA SharedInvKept ==
  ASSUME SharedInv, SharedStep PROVE SharedInv' /\ LedgerStep
<1>1. CASE \E r \in Requests : StepDone(r)
  BY <1>1, StepKeepsInv DEF StepDone
<1>2. CASE \E p : Shared!Crash(p)
  BY <1>2, CrashStep DEF LedgerStep
<1>3. CASE Shared!Tick
  BY <1>3, TickStep DEF LedgerStep
<1>4. CASE UNCHANGED sharedVars
  BY <1>4, StutterStep DEF LedgerStep
<1>5. QED BY <1>1, <1>2, <1>3, <1>4, SharedCases

\* Initially nothing is held.
LEMMA SharedInvInit == Shared!Init => SharedInv
<1> SUFFICES ASSUME Shared!Init PROVE SharedInv
  OBVIOUS
<1>1. /\ failClosed \in BOOLEAN /\ serverNow = 0 /\ serverWall = 0 /\ faults = 0 /\ troubled = {}
      /\ budget = [k \in Keys |-> [m \in 0..MaxMonth |-> 0]] /\ slots = [k \in Keys |-> {}]
      /\ pc = [r \in Requests |-> "idle"] /\ holds = [r \in Requests |-> Shared!NoReservation]
      /\ late = [r \in Requests |-> [op \in Shared!Ops |-> 0]] /\ repeated = [k \in Keys |-> 0]
      /\ charged = [r \in Requests |-> Shared!Ledger!NoCharge] /\ admitted = [r \in Requests |-> {}]
  BY SameRequests DEF Shared!Init, Shared!Months
<1>2. RestTyped
  <2>1. pc \in [Requests -> Shared!PCs]
    BY <1>1 DEF Shared!PCs
  <2>2. holds \in [Requests -> [month : 0..MaxMonth, amount : Nat, actual : Nat,
                                held : BOOLEAN, noop : BOOLEAN, applied : BOOLEAN]]
    BY <1>1, SharedAssumption DEF Shared!NoReservation
  <2>3. QED BY <1>1, <2>1, <2>2, SharedAssumption DEF RestTyped
<1>3. /\ charged \in [Requests -> SharedCharge] /\ budget \in [Keys -> [0..MaxMonth -> Int]]
      /\ repeated \in [Keys -> Nat]
  BY <1>1 DEF SharedCharge, Shared!Ledger!Charges, Shared!Ledger!NoCharge
<1>4. SharedLinked
  BY <1>1 DEF SharedLinked, SharedLinkedAt, StrandedAt, UnaccountedAt, Shared!Ledger!NoCharge
<1>5. ASSUME NEW k \in Keys, NEW m \in 0..MaxMonth
      PROVE  budget[k][m] = 0 /\ Shared!Ledger!Spent(k, m) = 0 /\ repeated[k] = 0
  <2> DEFINE f == Shared!Ledger!ChargesOf(k, m)
  <2>1. f \in [1..N -> Int] /\ \A r \in 1..N : f[r] = 0
    BY <1>1, SameRequests DEF Shared!Ledger!ChargesOf, Shared!Ledger!Counted, Shared!Ledger!NoCharge
  <2>2. Shared!Ledger!Spent(k, m) = Total(f, N)
    BY DEF Shared!Ledger!Spent, Shared!Ledger!Total, Total, Shared!Ledger!RunningTotal, RunningTotal
  <2> HIDE DEF f
  <2>3. Total(f, N) = 0
    BY <2>1, TotalZero, StoreAssumption
  <2>4. QED BY <1>1, <2>2, <2>3
<1>6. QED
  BY <1>2, <1>3, <1>4, <1>5, SharedTypeParts DEF SharedInv, Shared!BudgetMatchesCharges, Shared!Months

\* The process takes steps of the shared store, or none of it.
LEMMA StoresStep == [StoresNext]_allVars => SharedStep
BY DEF StoresNext, allVars, SharedStep

THEOREM SharedInvAlways == StoresSpec => []SharedInv
<1>1. StoresInit => SharedInv
  BY SharedInvInit DEF StoresInit
<1>2. SharedInv /\ [StoresNext]_allVars => SharedInv'
  BY SharedInvKept, StoresStep
<1>3. QED BY <1>1, <1>2, PTL DEF StoresSpec

\* The shared store is well typed whatever is lost, late or carried out again.
THEOREM SharedTypeCorrect == StoresSpec => []Shared!TypeOK
<1>1. SharedInv => Shared!TypeOK
  BY DEF SharedInv
<1>2. QED BY <1>1, SharedInvAlways, PTL

\* Whatever calls to the server are lost, late or sent again, and whichever replica crashes, every
\* budget key is the total of the charges under it, give or take what scripts moved when they ran
\* again; and no hold leaks, nor goes a request of a capped key upstream without one, unless a call
\* of that request went unanswered.
THEOREM SharedLedgerExact == StoresSpec => []SharedSpendMatchesCharges
<1>1. SharedInv => SharedSpendMatchesCharges
  <2> SUFFICES ASSUME SharedInv PROVE SharedSpendMatchesCharges
    OBVIOUS
  <2>1. \A r \in Requests : (StrandedAt(r) => r \in troubled)
                            /\ (UnaccountedAt(r) => r \in troubled /\ ~ failClosed)
    BY DEF SharedInv, SharedLinked, SharedLinkedAt
  <2>2. /\ Shared!Stranded = {r \in Requests : StrandedAt(r)}
        /\ Shared!Unaccounted = {r \in Requests : UnaccountedAt(r)}
    BY SameRequests DEF Shared!Stranded, Shared!Unaccounted, StrandedAt, UnaccountedAt
  <2>3. Shared!StrandedByTroubleOnly /\ Shared!GrantsAccounted
    BY <2>1, <2>2 DEF Shared!StrandedByTroubleOnly, Shared!GrantsAccounted
  <2>4. QED BY <2>3 DEF SharedInv, SharedSpendMatchesCharges
<1>2. QED BY <1>1, SharedInvAlways, PTL
-----------------------------------------------------------------------------
(***************************************************************************)
(* The sliding window on the server.                                       *)
(***************************************************************************)
AdmittedIn(k, t) ==
  {r \in Requests : SharedKeyOf[r] = k /\ admitted[r] \cap t..(t + SharedWindow - 1) # {}}

\* For every admission that a window ending now still sees, the request has a slot at least as young:
\* the script renews the score of a member that it admits again.
HasSlot(S, r, t) == \E e \in S : e.req = r /\ e.ts >= t
SharedSlotsLinked ==
  /\ \A k \in Keys : IsFiniteSet(slots[k])
  /\ \A r \in Requests : \A t \in admitted[r] :
       /\ t <= serverNow
       /\ t > serverNow - SharedWindow => HasSlot(slots[SharedKeyOf[r]], r, t)

SharedWindows ==
  \A k \in Keys : SharedRPM[k] > 0 =>
    \A t \in 0..serverNow : Cardinality(AdmittedIn(k, t)) <= SharedRPM[k]

SharedRateInv == SharedSlotsLinked /\ SharedWindows

\* Requests with a slot of their own each are no more than the slots.
LEMMA OwnSlots ==
  ASSUME NEW W, NEW L, IsFiniteSet(L), \A r \in W : \E e \in L : e.req = r
  PROVE  IsFiniteSet(W) /\ Cardinality(W) <= Cardinality(L)
<1> DEFINE f == [r \in W |-> CHOOSE e \in L : e.req = r]
<1>1. \A r \in W : f[r] \in L /\ f[r].req = r
  OBVIOUS
<1>2. f \in [W -> L]
  BY <1>1
<1> HIDE DEF f
<1>3. ASSUME NEW a \in W, NEW b \in W, f[a] = f[b] PROVE a = b
  <2>1. f[a].req = a /\ f[b].req = b
    BY <1>1
  <2>2. QED BY <1>3, <2>1
<1>4. f \in Injection(W, L)
  BY <1>2, <1>3 DEF Injection, IsInjective
<1>5. QED BY <1>4, FS_Injection

LEMMA SharedWindowStated == SharedWindows <=> Shared!RateWindowRespected
<1>1. \A k, t : AdmittedIn(k, t) =
                  {r \in Shared!Requests : /\ SharedKeyOf[r] = k
                                           /\ admitted[r] \cap t..(t + SharedWindow - 1) # {}}
  BY SameRequests DEF AdmittedIn
<1>2. QED BY <1>1, SameCardinality DEF SharedWindows, Shared!RateWindowRespected

\* Only the rate script and the clock move what the window depends on.
LEMMA RunMovesSlots ==
  ASSUME NEW r, NEW op, Shared!Run(r, op)
  PROVE  UNCHANGED <<slots, admitted>> \/ Shared!RateScript(r)
BY DEF Shared!Run, Shared!HoldScript, Shared!ReturnScript, Shared!BookPipeline

LEMMA SharedRateCases ==
  ASSUME SharedInv, SharedStep
  PROVE  \/ UNCHANGED <<slots, admitted, serverNow>>
         \/ UNCHANGED <<slots, admitted>> /\ serverNow' = serverNow + 1
         \/ \E r \in Requests : Shared!RateScript(r) /\ UNCHANGED serverNow
<1>1. CASE UNCHANGED sharedVars
  BY <1>1 DEF sharedVars
<1>2. CASE Shared!Next
  <2>1. CASE Shared!Tick
    BY <2>1 DEF Shared!Tick, Shared!server
  <2>2. ASSUME NEW p, Shared!Crash(p) PROVE UNCHANGED <<slots, admitted, serverNow>>
    BY <2>2 DEF Shared!Crash, Shared!env, Shared!server
  <2>3. ASSUME NEW r, NEW usd, Shared!Reserve(r, usd) PROVE UNCHANGED <<slots, admitted, serverNow>>
    BY <2>3 DEF Shared!Reserve, Shared!env
  <2>4. ASSUME NEW r, NEW op, Shared!Replies(r, op) \/ Shared!RunsLate(r, op)
        PROVE  \/ UNCHANGED <<slots, admitted, serverNow>>
               \/ Shared!RateScript(r) /\ UNCHANGED serverNow
    BY <2>4, RunMovesSlots DEF Shared!Replies, Shared!RunsLate, Shared!env
  <2>5. ASSUME NEW r, \/ Shared!HoldReplies(r) \/ Shared!RateReplies(r)
                      \/ Shared!ReturnReplies(r) \/ Shared!BookReplies(r)
        PROVE  \/ UNCHANGED <<slots, admitted, serverNow>>
               \/ Shared!RateScript(r) /\ UNCHANGED serverNow
    BY <2>4, <2>5 DEF Shared!HoldReplies, Shared!RateReplies, Shared!ReturnReplies, Shared!BookReplies
  <2>6. ASSUME NEW r, \/ Shared!Resend(r) \/ Shared!HoldFails(r)
                      \/ Shared!RateFails(r) \/ Shared!SettleFails(r)
        PROVE  UNCHANGED <<slots, admitted, serverNow>>
    <3>1. Shared!NoReply(r)
      BY <2>6 DEF Shared!Resend, Shared!HoldFails, Shared!RateFails, Shared!SettleFails
    <3>2. QED BY <3>1 DEF Shared!NoReply, Shared!env, Shared!server
  <2>7. ASSUME NEW r, NEW cost, Shared!Commit(r, cost) PROVE UNCHANGED <<slots, admitted, serverNow>>
    BY <2>7 DEF Shared!Commit, Shared!env, Shared!server
  <2>8. ASSUME NEW r, Shared!Release(r) PROVE UNCHANGED <<slots, admitted, serverNow>>
    BY <2>8 DEF Shared!Release, Shared!env, Shared!server
  <2>9. ASSUME NEW r, Shared!SettleNothing(r) PROVE UNCHANGED <<slots, admitted, serverNow>>
    BY <2>9 DEF Shared!SettleNothing, Shared!vars, Shared!env, Shared!server
  <2>10. QED BY <1>2, <2>1, <2>2, <2>3, <2>4, <2>5, <2>6, <2>7, <2>8, <2>9, SameRequests DEF Shared!Next
<1>3. QED BY <1>1, <1>2 DEF SharedStep

\* The script admits a request only while the slots it has just trimmed leave room.
LEMMA ScriptKeepsWindow ==
  ASSUME SharedInv, SharedRateInv, NEW r \in Requests, Shared!RateScript(r), UNCHANGED serverNow
  PROVE  SharedRateInv'
<1> DEFINE key == SharedKeyOf[r]
           live == Shared!LiveSlots(key)
           more == {e \in live : e.req # r} \cup {[req |-> r, ts |-> serverNow]}
<1>0. /\ serverNow \in Nat /\ SharedWindow \in Nat /\ key \in Keys /\ SharedRPM \in [Keys -> Nat]
      /\ slots \in [Keys -> SUBSET [req : Requests, ts : Nat]]
      /\ admitted \in [Requests -> SUBSET Nat] /\ \A q \in Requests : SharedKeyOf[q] \in Keys
  BY SharedAssumption, SameRequests, SharedTypeParts DEF SharedInv, RestTyped
<1>1. /\ live = {e \in slots[key] : e.ts > serverNow - SharedWindow}
      /\ live \in SUBSET [req : Requests, ts : Nat]
  BY <1>0 DEF Shared!LiveSlots
<1>2. IsFiniteSet(live) /\ Cardinality(live) \in Nat
  <2>1. live \subseteq slots[key] /\ IsFiniteSet(slots[key])
    BY <1>0, <1>1 DEF SharedRateInv, SharedSlotsLinked
  <2>2. QED BY <2>1, FS_Subset, FS_CardinalityType
<1>3. IsFiniteSet(more)
  <2> DEFINE others == {e \in live : e.req # r}
  <2>1. IsFiniteSet(others)
    <3>1. others \subseteq live
      OBVIOUS
    <3> HIDE DEF live, others
    <3>2. QED BY <1>2, <3>1, FS_Subset
  <2> HIDE DEF others
  <2>2. IsFiniteSet(others \cup {[req |-> r, ts |-> serverNow]})
    BY <2>1, FS_AddElement
  <2>3. QED BY <2>2 DEF others
\* The slots of the young admissions survive the trimming.
<1>4. ASSUME NEW q \in Requests, SharedKeyOf[q] = key, NEW t \in admitted[q],
             t > serverNow - SharedWindow
      PROVE  HasSlot(live, q, t)
  <2>1. t \in Nat /\ HasSlot(slots[key], q, t)
    BY <1>0, <1>4 DEF SharedRateInv, SharedSlotsLinked
  <2>2. PICK e \in slots[key] : e.req = q /\ e.ts >= t
    BY <2>1 DEF HasSlot
  <2>3. e.ts \in Nat
    BY <1>0
  <2>4. e \in live
    BY <1>0, <1>1, <1>4, <2>1, <2>2, <2>3
  <2>5. QED BY <2>2, <2>4 DEF HasSlot
<1> HIDE DEF live
<1>5. CASE Shared!RateFull(key)
  <2>1. slots' = [slots EXCEPT ![key] = live] /\ admitted' = admitted
    BY <1>5 DEF Shared!RateScript, live
  <2>2. ASSUME NEW j \in Keys PROVE IsFiniteSet(slots'[j])
    BY <1>0, <1>2, <2>1 DEF SharedRateInv, SharedSlotsLinked
  <2>3. ASSUME NEW q \in Requests, NEW t \in admitted'[q]
        PROVE  /\ t <= serverNow
               /\ t > serverNow - SharedWindow => HasSlot(slots'[SharedKeyOf[q]], q, t)
    <3>1. CASE SharedKeyOf[q] = key
      BY <1>0, <1>4, <2>1, <2>3, <3>1 DEF SharedRateInv, SharedSlotsLinked
    <3>2. CASE SharedKeyOf[q] # key
      BY <1>0, <2>1, <2>3, <3>2 DEF SharedRateInv, SharedSlotsLinked
    <3>3. QED BY <3>1, <3>2
  <2>4. SharedSlotsLinked'
    BY <2>2, <2>3 DEF SharedSlotsLinked, HasSlot
  <2>5. SharedWindows'
    BY <2>1 DEF SharedRateInv, SharedWindows, AdmittedIn
  <2>6. QED BY <2>4, <2>5 DEF SharedRateInv
<1>6. CASE ~ Shared!RateFull(key)
  <2>1. /\ slots' = [slots EXCEPT ![key] = more]
        /\ admitted' = [admitted EXCEPT ![r] = @ \cup {serverNow}]
        /\ Cardinality(live) < SharedRPM[key]
    <3>1. ~ (Cardinality(live) >= SharedRPM[key])
      BY <1>6, SameCardinality DEF Shared!RateFull, live
    <3>2. QED BY <1>0, <1>2, <1>6, <3>1 DEF Shared!RateScript, live
  <2>2. ASSUME NEW j \in Keys PROVE IsFiniteSet(slots'[j])
    <3> HIDE DEF more
    <3>1. slots'[j] = slots[j] \/ slots'[j] = more
      BY <1>0, <2>1
    <3>2. QED BY <1>3, <2>2, <3>1 DEF SharedRateInv, SharedSlotsLinked
  <2>3. ASSUME NEW q \in Requests, NEW t \in admitted'[q]
        PROVE  /\ t <= serverNow
               /\ t > serverNow - SharedWindow => HasSlot(slots'[SharedKeyOf[q]], q, t)
    <3>1. CASE q = r
      <4>1. t <= serverNow
        BY <1>0, <2>1, <2>3, <3>1 DEF SharedRateInv, SharedSlotsLinked
      <4>2. [req |-> r, ts |-> serverNow] \in slots'[key]
        BY <1>0, <2>1
      <4>3. t \in Nat
        BY <1>0, <2>1, <2>3, <3>1
      <4>4. QED BY <1>0, <3>1, <4>1, <4>2, <4>3 DEF HasSlot
    <3>2. CASE q # r /\ SharedKeyOf[q] = key
      <4>1. t \in admitted[q] /\ t <= serverNow
        BY <1>0, <2>1, <2>3, <3>2 DEF SharedRateInv, SharedSlotsLinked
      <4>2. t > serverNow - SharedWindow => HasSlot(live, q, t)
        BY <1>4, <3>2, <4>1
      <4>3. \A e \in live : e.req = q => e \in slots'[key]
        BY <1>0, <2>1, <3>2
      <4>4. QED BY <3>2, <4>1, <4>2, <4>3 DEF HasSlot
    <3>3. CASE SharedKeyOf[q] # key
      <4>1. t \in admitted[q] /\ slots'[SharedKeyOf[q]] = slots[SharedKeyOf[q]]
        BY <1>0, <2>1, <2>3, <3>3
      <4>2. QED BY <4>1 DEF SharedRateInv, SharedSlotsLinked
    <3>4. QED BY <3>1, <3>2, <3>3
  <2>4. ASSUME NEW k \in Keys, SharedRPM[k] > 0, NEW t \in 0..serverNow
        PROVE  Cardinality(AdmittedIn(k, t)') <= SharedRPM[k]
    <3>0. AdmittedIn(k, t) \in SUBSET Requests /\ AdmittedIn(k, t)' \in SUBSET Requests
      BY DEF AdmittedIn
    <3>1. CASE k = key /\ t > serverNow - SharedWindow
      <4>1. ASSUME NEW q \in AdmittedIn(k, t) PROVE \E e \in live : e.req = q
        <5>1. PICK u \in admitted[q] : u \in t..(t + SharedWindow - 1)
          BY <4>1 DEF AdmittedIn
        <5>2. q \in Requests /\ SharedKeyOf[q] = key /\ u > serverNow - SharedWindow
          BY <1>0, <2>4, <3>1, <4>1, <5>1 DEF AdmittedIn
        <5>3. QED BY <1>4, <5>2 DEF HasSlot
      <4>2. Cardinality(AdmittedIn(k, t)) <= Cardinality(live)
        BY <1>2, <4>1, OwnSlots
      <4>3. AdmittedIn(k, t)' \subseteq AdmittedIn(k, t) \cup {r}
        BY <1>0, <2>1 DEF AdmittedIn
      <4>4. /\ Cardinality(AdmittedIn(k, t)') <= Cardinality(AdmittedIn(k, t)) + 1
            /\ Cardinality(AdmittedIn(k, t)) \in Nat /\ Cardinality(AdmittedIn(k, t)') \in Nat
        BY <3>0, <4>3, SomeRequests
      <4>5. QED BY <1>0, <1>2, <2>1, <2>4, <3>1, <4>2, <4>4
    <3>2. CASE ~ (k = key /\ t > serverNow - SharedWindow)
      <4>1. AdmittedIn(k, t)' \subseteq AdmittedIn(k, t)
        <5> SUFFICES ASSUME NEW q \in AdmittedIn(k, t)' PROVE q \in AdmittedIn(k, t)
          OBVIOUS
        <5>1. q \in Requests /\ SharedKeyOf[q] = k
          BY DEF AdmittedIn
        <5>2. PICK u \in admitted'[q] : u \in t..(t + SharedWindow - 1)
          BY DEF AdmittedIn
        <5>3. u \in admitted[q]
          BY <1>0, <2>1, <2>4, <3>2, <5>1, <5>2
        <5>4. QED BY <5>1, <5>2, <5>3 DEF AdmittedIn
      <4>2. /\ Cardinality(AdmittedIn(k, t)') <= Cardinality(AdmittedIn(k, t))
            /\ Cardinality(AdmittedIn(k, t)) \in Nat /\ Cardinality(AdmittedIn(k, t)') \in Nat
        BY <3>0, <4>1, SomeRequests
      <4>3. Cardinality(AdmittedIn(k, t)) <= SharedRPM[k]
        BY <2>4 DEF SharedRateInv, SharedWindows
      <4>4. QED BY <1>0, <4>2, <4>3
    <3>3. QED BY <3>1, <3>2
  <2>5. SharedSlotsLinked'
    BY <2>2, <2>3 DEF SharedSlotsLinked, HasSlot
  <2>6. SharedWindows'
    BY <2>4 DEF SharedWindows
  <2>7. QED BY <2>5, <2>6 DEF SharedRateInv
<1>7. QED BY <1>5, <1>6

LEMMA SharedRateKept ==
  ASSUME SharedInv, SharedRateInv, SharedStep PROVE SharedRateInv'
<1>1. CASE UNCHANGED <<slots, admitted, serverNow>>
  BY <1>1 DEF SharedRateInv, SharedSlotsLinked, HasSlot, SharedWindows, AdmittedIn
<1>2. CASE UNCHANGED <<slots, admitted>> /\ serverNow' = serverNow + 1
  <2>0. /\ serverNow \in Nat /\ SharedWindow \in Nat /\ SharedRPM \in [Keys -> Nat]
        /\ admitted \in [Requests -> SUBSET Nat]
    BY SharedAssumption, SharedTypeParts DEF SharedInv, RestTyped
  <2>1. SharedSlotsLinked'
    BY <1>2, <2>0 DEF SharedRateInv, SharedSlotsLinked, HasSlot
  <2>2. ASSUME NEW k \in Keys, SharedRPM[k] > 0, NEW t \in 0..(serverNow + 1)
        PROVE  Cardinality(AdmittedIn(k, t)) <= SharedRPM[k]
    <3>1. CASE t \in 0..serverNow
      BY <2>2, <3>1 DEF SharedRateInv, SharedWindows
    <3>2. CASE t = serverNow + 1
      <4>1. AdmittedIn(k, t) = {}
        <5> SUFFICES ASSUME NEW r \in Requests, NEW u \in admitted[r], u \in t..(t + SharedWindow - 1)
                     PROVE  FALSE
          BY DEF AdmittedIn
        <5>1. u <= serverNow /\ u \in Nat
          BY <2>0 DEF SharedRateInv, SharedSlotsLinked
        <5>2. QED BY <2>0, <3>2, <5>1
      <4>2. QED BY <2>0, <2>2, <4>1, FS_EmptySet
    <3>3. QED BY <2>0, <2>2, <3>1, <3>2
  <2>3. SharedWindows'
    BY <1>2, <2>2 DEF SharedWindows, AdmittedIn
  <2>4. QED BY <2>1, <2>3 DEF SharedRateInv
<1>3. CASE \E r \in Requests : Shared!RateScript(r) /\ UNCHANGED serverNow
  BY <1>3, ScriptKeepsWindow
<1>4. QED BY <1>1, <1>2, <1>3, SharedRateCases

LEMMA SharedRateInit == Shared!Init => SharedRateInv
<1> SUFFICES ASSUME Shared!Init PROVE SharedRateInv
  OBVIOUS
<1>1. /\ serverNow = 0 /\ slots = [k \in Keys |-> {}] /\ admitted = [r \in Requests |-> {}]
  BY SameRequests DEF Shared!Init
<1>2. SharedSlotsLinked
  BY <1>1, FS_EmptySet DEF SharedSlotsLinked
<1>3. ASSUME NEW k \in Keys, SharedRPM[k] > 0, NEW t \in 0..serverNow
      PROVE  Cardinality(AdmittedIn(k, t)) <= SharedRPM[k]
  <2>1. AdmittedIn(k, t) = {}
    BY <1>1 DEF AdmittedIn
  <2>2. QED BY <1>3, <2>1, FS_EmptySet, SharedAssumption
<1>4. QED BY <1>2, <1>3 DEF SharedRateInv, SharedWindows
-----------------------------------------------------------------------------
(***************************************************************************)
(* Both stores.                                                            *)
(***************************************************************************)
\* The process with both stores behaves, on the variables of each, like that store.
LEMMA StoresImplyStore == StoresSpec => Spec
<1>1. StoresInit => Init
  BY DEF StoresInit
<1>2. [StoresNext]_allVars => [Next]_vars
  BY DEF StoresNext, allVars
<1>3. QED BY <1>1, <1>2, PTL DEF StoresSpec, Spec

\* The shared store implements the abstract ledger, whatever is lost or carried out again: every
\* request makes one charge, which is settled once, and a hold is admitted by the true total, give or
\* take what scripts moved when they ran again.  And neither store lets more requests of a key through
\* in a window than its limit, the shared one on all replicas together, the one in memory in one life.
THEOREM SharedImplementsLedger == StoresSpec => SharedLedgerSpec
<1>1. StoresSpec => Shared!LedgerSpec
  <2>1. StoresInit => Shared!Ledger!Init
    BY SameRequests DEF StoresInit, Shared!Init, Shared!Ledger!Init
  <2>2. SharedInv /\ [StoresNext]_allVars => [Shared!Ledger!Next]_<<charged, repeated>>
    BY SharedInvKept, StoresStep DEF LedgerStep
  <2>3. QED BY <2>1, <2>2, SharedInvAlways, PTL DEF StoresSpec, Shared!LedgerSpec, Shared!Ledger!Spec
<1>2. StoresSpec => []RateWindowRespected
  BY StoresImplyStore, RateWindowHolds, PTL
<1>3. StoresSpec => []Shared!RateWindowRespected
  <2>1. StoresInit => SharedRateInv
    BY SharedRateInit DEF StoresInit
  <2>2. SharedInv /\ SharedRateInv /\ [StoresNext]_allVars => SharedRateInv'
    BY SharedRateKept, StoresStep
  <2>3. SharedRateInv => Shared!RateWindowRespected
    BY SharedWindowStated DEF SharedRateInv
  <2>4. QED BY <2>1, <2>2, <2>3, SharedInvAlways, PTL DEF StoresSpec
<1>4. QED BY <1>1, <1>2, <1>3, PTL DEF SharedLedgerSpec
=============================================================================
