---------------------------- MODULE BudgetStores ----------------------------
(***************************************************************************)
(* gateway/main.go: the process takes the shared budget store where Redis  *)
(* is configured and the store in its memory otherwise, once, at its       *)
(* start.  The two serve requests of different workloads here: replicas,   *)
(* faults and the server's clock exist for the shared store only.          *)
(***************************************************************************)
EXTENDS MemBudgetStore

CONSTANTS
  SharedKeyOf, SharedBudget, SharedRPM, SharedWindow,   \* as KeyOf, MonthlyBudget, RateLimitRPM, Window
  SharedEstimates, SharedCosts,
  Replicas, ReplicaOf, SharedMaxTime, MaxMonth, MaxFaults

ASSUME SharedAssumption ==
  /\ SharedKeyOf \in [1..N -> Keys] /\ SharedBudget \in [Keys -> Nat] /\ SharedRPM \in [Keys -> Nat]
  /\ SharedWindow \in Nat /\ SharedEstimates \subseteq Int /\ SharedCosts \subseteq Int
  /\ ReplicaOf \in [1..N -> Replicas] /\ SharedMaxTime \in Nat /\ MaxMonth \in Nat /\ MaxFaults \in Nat

VARIABLES
  redis,      \* cfg.Redis.Addr is not empty
  failClosed, serverNow, serverWall, budget, slots, pc, holds, late,   \* RedisBudgetStore
  charged, repeated, admitted, troubled, faults

Shared == INSTANCE RedisBudgetStore WITH
  KeyOf <- SharedKeyOf, MonthlyBudget <- SharedBudget, RateLimitRPM <- SharedRPM, Window <- SharedWindow,
  Estimates <- SharedEstimates, Costs <- SharedCosts, MaxTime <- SharedMaxTime,
  now <- serverNow, wall <- serverWall, res <- holds, charge <- charged

sharedVars == <<failClosed, serverNow, serverWall, budget, slots, pc, holds, late,
                charged, repeated, admitted, troubled, faults>>
allVars == <<redis, vars, sharedVars>>

StoresInit == Init /\ Shared!Init /\ redis \in BOOLEAN

StoresNext ==
  \/ ~ redis /\ Next /\ UNCHANGED <<redis, sharedVars>>
  \/ redis /\ Shared!Next /\ UNCHANGED <<redis, vars>>

StoresSpec == StoresInit /\ [][StoresNext]_allVars
-----------------------------------------------------------------------------
(***************************************************************************)
(* Correctness of the shared store, as RedisBudgetStore states it.         *)
(***************************************************************************)

\* Every budget key on the server is the total of the charges made under it, whatever
\* calls of budget_redis.go were lost or late and whichever replica crashed, but for
\* what a call that the client library sent again moved a second time, and never by more
\* than that.  Holds leak, and capped requests go upstream without one, only where a call
\* of the request itself went unanswered or its replica crashed; failing closed, no
\* capped request goes upstream without one at all.
SharedSpendMatchesCharges ==
  Shared!BudgetMatchesCharges /\ Shared!StrandedByTroubleOnly /\ Shared!GrantsAccounted

\* The shared store implements the abstract ledger under every fault, with the repeated
\* calls as its slack; its sliding window holds on all replicas together, and that of the
\* store in memory on its own.
SharedLedgerSpec == Shared!LedgerSpec /\ [](RateWindowRespected /\ Shared!RateWindowRespected)
=============================================================================
