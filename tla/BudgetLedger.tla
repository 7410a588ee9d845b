---------------------------- MODULE BudgetLedger ----------------------------
(***************************************************************************)
(* What a BudgetStore (gateway/budget.go) promises its caller, without     *)
(* saying how the spend is kept.  Each request owns one charge, which goes *)
(*                                                                         *)
(*     none --Hold--> held --Book--> booked                                *)
(*                      \----Drop--> void                                  *)
(*                                                                         *)
(* and never leaves its final state, so a request is charged at most once. *)
(* A hold is admitted only while the charges that count against its key    *)
(* and month total less than the monthly budget, give or take the slack by *)
(* which a store that repeats calls may miscount; one that does not has    *)
(* none.  An in-memory store may also forget every charge at once, when    *)
(* its process restarts.                                                   *)
(***************************************************************************)
EXTENDS Integers, Sums

CONSTANTS
  N,              \* number of requests
  Keys,           \* virtual keys
  KeyOf,          \* the virtual key each request authenticates with
  MonthlyBudget   \* cap per key in USD units, 0 = unlimited

Requests == 1..N

VARIABLES
  charge,   \* the charge each request has made
  slack     \* by how much the store may miscount the spend of each key

Charges(states) == [st : states, month : Nat, amt : Nat]
NoCharge == [st |-> "none", month |-> 0, amt |-> 0]
VoidCharge == [st |-> "void", month |-> 0, amt |-> 0]

\* Held and booked charges count against the month they were made in.
Counted(c, m) == IF c.st \in {"held", "booked"} /\ c.month = m THEN c.amt ELSE 0

ChargesOf(k, m) ==
  [r \in Requests |-> IF KeyOf[r] = k THEN Counted(charge[r], m) ELSE 0]

\* The spend of key k in month m: the total of the charges that count.
Spent(k, m) == Total(ChargesOf(k, m), N)

Admits(k, m) == MonthlyBudget[k] > 0 => Spent(k, m) < MonthlyBudget[k] + slack[k]
-----------------------------------------------------------------------------
Init ==
  /\ charge = [r \in Requests |-> NoCharge]
  /\ slack = [k \in Keys |-> 0]

OnlyChanges(r) == charge' = [charge EXCEPT ![r] = charge'[r]]

Hold(r) ==
  /\ charge[r].st = "none"
  /\ OnlyChanges(r)
  /\ charge'[r] \in Charges({"held"})
  /\ Admits(KeyOf[r], charge'[r].month)

\* The realised cost replaces the hold.  A store may book it under the month of
\* the hold or under a later one.
Book(r) ==
  /\ charge[r].st = "held"
  /\ OnlyChanges(r)
  /\ charge'[r] \in Charges({"booked"})
  /\ charge'[r].month >= charge[r].month

Drop(r) ==
  /\ charge[r].st = "held"
  /\ charge' = [charge EXCEPT ![r] = VoidCharge]

Forget ==
  charge' = [r \in Requests |->
               IF charge[r].st = "none" THEN charge[r] ELSE VoidCharge]

\* A call is carried out once more: the charges are what they were, the count is not.
Repeat ==
  /\ slack' \in [Keys -> Int]
  /\ \A k \in Keys : slack'[k] >= slack[k]
  /\ UNCHANGED charge

Next ==
  \/ UNCHANGED slack /\ (Forget \/ \E r \in Requests : Hold(r) \/ Book(r) \/ Drop(r))
  \/ Repeat

Spec == Init /\ [][Next]_<<charge, slack>>
=============================================================================
