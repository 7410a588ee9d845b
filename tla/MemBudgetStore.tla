--------------------------- MODULE MemBudgetStore ---------------------------
(***************************************************************************)
(* gateway/budget.go: the in-process BudgetStore.  Every method runs under *)
(* the store's mutex, so each call is one step; requests interleave        *)
(* between calls, and the wall clock moves under them, into the next month *)
(* included.  USD amounts are integer units.                               *)
(***************************************************************************)
EXTENDS Integers, FiniteSets, Sums

CONSTANTS
  N, Keys, KeyOf, MonthlyBudget,  \* as in BudgetLedger
  RateLimitRPM,   \* requests per window for each key, 0 = unlimited
  Window,         \* the sliding window in seconds (60 in the code)
  Estimates,      \* estimates a caller may pass to Reserve
  Costs,          \* realised costs a caller may pass to Commit
  MaxEstimate,    \* the largest estimate
  MaxTime,        \* bound on the clock, in seconds
  MaxRestarts     \* bound on restarts of the process

Requests == 1..N

ASSUME StoreAssumption ==
  /\ N \in Nat
  /\ KeyOf \in [Requests -> Keys]
  /\ MonthlyBudget \in [Keys -> Nat]
  /\ RateLimitRPM \in [Keys -> Nat]
  /\ Window \in Nat
  /\ Estimates \subseteq Int
  /\ Costs \subseteq Int
  /\ MaxEstimate \in Nat /\ \A e \in Estimates : e <= MaxEstimate
  /\ MaxTime \in Nat /\ MaxRestarts \in Nat

VARIABLES
  now,        \* time.Now() in seconds
  wall,       \* the calendar month of time.Now()
  month,      \* MemBudgetStore.month, which may lag behind wall
  spend,      \* MemBudgetStore.spend: reserved plus committed USD of month
  rates,      \* MemBudgetStore.rates: the recorded slots of each key
  stage,      \* where each request is in Reserve -> Commit | Release
  res,        \* the BudgetReservation each granted request owns
  charge,     \* history: the charge each request has made (BudgetLedger)
  life,       \* history: how often the process has restarted
  grantedAt   \* history: in which life of the process, and when, the request was granted

store == <<month, spend, rates>>
vars == <<now, wall, store, stage, res, charge, life, grantedAt>>

Ledger == INSTANCE BudgetLedger WITH slack <- [k \in Keys |-> 0]

NonNegative(x) == IF x < 0 THEN 0 ELSE x
NoReservation == [month |-> 0, amount |-> 0, applied |-> FALSE]
NotGranted == [life |-> 0, at |-> -1]

TypeOK ==
  /\ now \in Nat /\ wall \in Nat /\ month \in Nat
  /\ spend \in [Keys -> Nat]
  /\ rates \in [Keys -> SUBSET [req : Requests, ts : Nat]]
  /\ stage \in [Requests -> {"idle", "granted", "rejected", "dead"}]
  /\ res \in [Requests -> [month : Nat, amount : Nat, applied : BOOLEAN]]
  /\ charge \in [Requests -> Ledger!Charges({"none", "held", "booked", "void"})]
  /\ life \in Nat
  /\ grantedAt \in [Requests -> [life : Nat, at : Nat \cup {-1}]]
-----------------------------------------------------------------------------
Init ==
  /\ now = 0 /\ wall = 0 /\ month = 0
  /\ spend = [k \in Keys |-> 0]
  /\ rates = [k \in Keys |-> {}]
  /\ stage = [r \in Requests |-> "idle"]
  /\ res = [r \in Requests |-> NoReservation]
  /\ charge = [r \in Requests |-> Ledger!NoCharge]
  /\ life = 0
  /\ grantedAt = [r \in Requests |-> NotGranted]

\* Mutant: the month changes but last month's counters stay.
KeptSpend == spend

\* rollMonthLocked: the spend map the rest of the call works on.
RolledSpend == IF wall # month THEN [k \in Keys |-> 0] ELSE spend

\* The slots of the key that are still inside the window.
LiveSlots(k) == {e \in rates[k] : e.ts >= now - Window}

\* Mutant: only a key that is over its cap, not at it, is rejected.
OverBudgetOnly(k) == MonthlyBudget[k] > 0 /\ RolledSpend[k] > MonthlyBudget[k]

OverBudget(k) == MonthlyBudget[k] > 0 /\ RolledSpend[k] >= MonthlyBudget[k]
OverRate(k) == RateLimitRPM[k] > 0 /\ Cardinality(LiveSlots(k)) >= RateLimitRPM[k]

Reject(r) ==
  /\ stage' = [stage EXCEPT ![r] = "rejected"]
  /\ spend' = RolledSpend
  /\ UNCHANGED <<res, charge, grantedAt>>

RejectBudget(r) ==
  /\ OverBudget(KeyOf[r])
  /\ Reject(r)
  /\ UNCHANGED rates

RejectRate(r) ==
  LET k == KeyOf[r] IN
  /\ ~ OverBudget(k) /\ OverRate(k)
  /\ Reject(r)
  /\ rates' = [rates EXCEPT ![k] = LiveSlots(k)]

Grant(r, est) ==
  LET k == KeyOf[r]
      amount == NonNegative(est)
  IN
  /\ ~ OverBudget(k) /\ ~ OverRate(k)
  /\ rates' = IF RateLimitRPM[k] > 0
              THEN [rates EXCEPT ![k] = LiveSlots(k) \cup {[req |-> r, ts |-> now]}]
              ELSE rates
  /\ spend' = [RolledSpend EXCEPT ![k] = @ + amount]
  /\ res' = [res EXCEPT ![r] = [month |-> wall, amount |-> amount, applied |-> FALSE]]
  /\ stage' = [stage EXCEPT ![r] = "granted"]
  /\ charge' = [charge EXCEPT ![r] = [st |-> "held", month |-> wall, amt |-> amount]]
  /\ grantedAt' = [grantedAt EXCEPT ![r] = [life |-> life, at |-> now]]

Reserve(r, est) ==
  /\ stage[r] = "idle"
  /\ month' = wall
  /\ RejectBudget(r) \/ RejectRate(r) \/ Grant(r, est)
  /\ UNCHANGED <<now, wall, life>>

\* The spend of the reservation's key once delta is added, clamped at zero.
Adjusted(r, delta) == [RolledSpend EXCEPT ![KeyOf[r]] = NonNegative(@ + delta)]

\* Commit and Release on a reservation that was already settled return at once.
AlreadyApplied(r) == stage[r] = "granted" /\ res[r].applied /\ UNCHANGED vars

\* Mutant: Commit without the single-use guard.
CommitAgain(r, cost) ==
  /\ stage[r] = "granted"
  /\ res' = [res EXCEPT ![r].applied = TRUE]
  /\ month' = wall
  /\ spend' = Adjusted(r, NonNegative(cost) - res[r].amount)
  /\ charge' = [charge EXCEPT ![r] = [st |-> "booked", month |-> wall, amt |-> NonNegative(cost)]]
  /\ UNCHANGED <<now, wall, rates, stage, life, grantedAt>>

Commit(r, cost) ==
  LET actual == NonNegative(cost) IN
  /\ stage[r] = "granted" /\ ~ res[r].applied
  /\ res' = [res EXCEPT ![r].applied = TRUE]
  /\ month' = wall
  /\ spend' = IF wall = res[r].month
              THEN Adjusted(r, actual - res[r].amount)
              ELSE [RolledSpend EXCEPT ![KeyOf[r]] = @ + actual]
  /\ charge' = [charge EXCEPT ![r] = [st |-> "booked", month |-> wall, amt |-> actual]]
  /\ UNCHANGED <<now, wall, rates, stage, life, grantedAt>>

Release(r) ==
  /\ stage[r] = "granted" /\ ~ res[r].applied
  /\ res' = [res EXCEPT ![r].applied = TRUE]
  /\ month' = wall
  /\ spend' = IF wall = res[r].month
              THEN Adjusted(r, - res[r].amount)
              ELSE RolledSpend
  /\ charge' = [charge EXCEPT ![r] = Ledger!VoidCharge]
  /\ UNCHANGED <<now, wall, rates, stage, life, grantedAt>>

\* The process restarts: counters are ephemeral, requests in flight die with it.
Restart ==
  /\ life < MaxRestarts
  /\ life' = life + 1
  /\ month' = wall
  /\ spend' = [k \in Keys |-> 0]
  /\ rates' = [k \in Keys |-> {}]
  /\ stage' = [r \in Requests |-> IF stage[r] = "granted" THEN "dead" ELSE stage[r]]
  /\ res' = [r \in Requests |-> NoReservation]
  /\ charge' = [r \in Requests |->
                  IF charge[r].st = "none" THEN charge[r] ELSE Ledger!VoidCharge]
  /\ UNCHANGED <<now, wall, grantedAt>>

\* A second passes; it may be the one in which the month changes.
Tick ==
  /\ now < MaxTime
  /\ now' = now + 1
  /\ wall' \in {wall, wall + 1}
  /\ UNCHANGED <<store, stage, res, charge, life, grantedAt>>

Next ==
  \/ Tick
  \/ Restart
  \/ \E r \in Requests :
       \/ \E est \in Estimates : Reserve(r, est)
       \/ \E cost \in Costs : Commit(r, cost)
       \/ Release(r)
       \/ AlreadyApplied(r)

Spec == Init /\ [][Next]_vars
-----------------------------------------------------------------------------
(***************************************************************************)
(* Correctness.                                                            *)
(***************************************************************************)

\* The month-to-date counter of every key is exactly the total of the holds that
\* are outstanding and the costs that were committed in the store's month: no
\* hold leaks, none is returned twice, the clamps at zero never hide a difference,
\* whatever order Reserve, Commit, Release and a month change come in.
SpendMatchesCharges == \A k \in Keys : spend[k] = Ledger!Spent(k, month)

\* What a committed request cost beyond the hold it had placed in the same month.
ExcessOf(k, m) ==
  [r \in Requests |->
     IF KeyOf[r] = k /\ charge[r].st = "booked" /\ charge[r].month = m
     THEN IF res[r].month = m THEN NonNegative(charge[r].amt - res[r].amount)
          ELSE charge[r].amt
     ELSE 0]

\* "concurrent reservers can exceed the cap by at most one hold": a capped key's
\* counter stays below the cap plus one hold, plus only what realised costs
\* exceeded their own holds by.
CapExceededByOneHold ==
  \A k \in Keys : MonthlyBudget[k] > 0 =>
    spend[k] < MonthlyBudget[k] + MaxEstimate + Total(ExcessOf(k, month), N)

\* No run of Window + 1 consecutive seconds in one life of the process sees more grants
\* of a key than its requests-per-minute limit, even though slots are trimmed lazily, by
\* Reserve.  A restart forgets the slots: a window with n restarts in it may see n + 1
\* times the limit.
RateWindowRespected ==
  \A k \in Keys : RateLimitRPM[k] > 0 =>
    \A l \in 0..life, t \in 0..now :
      Cardinality({r \in Requests : /\ KeyOf[r] = k
                                    /\ grantedAt[r].life = l
                                    /\ grantedAt[r].at \in t..(t + Window)})
        <= RateLimitRPM[k]

\* The store implements the abstract ledger: every request is charged at most
\* once, and holds are admitted by the true total of the charges.
LedgerSpec == Ledger!Spec
=============================================================================
