--------------------------- MODULE MCBudgetStores ---------------------------
(***************************************************************************)
(* In memory: three requests on a capped and rate-limited key, beside a    *)
(* key that no request uses.  Estimates straddle zero and the cap; costs   *)
(* lie below, at and above the estimates.                                  *)
(* Shared: two replicas with a request each on a capped and rate-limited   *)
(* key, and a key without limits, whose request runs on the first replica: *)
(* a crash may kill two holds at once.  The estimate is exactly the cap,   *)
(* and the realised cost so small that to book it twice leaves a negative  *)
(* counter.                                                                *)
(***************************************************************************)
EXTENDS BudgetStores, TLC

CONSTANTS k1, k2, p1, p2

MCKeys == {k1, k2}
MCKeyOf == <<k1, k1, k1>>
MCMonthlyBudget == (k1 :> 3) @@ (k2 :> 0)
MCRateLimitRPM == (k1 :> 2) @@ (k2 :> 0)
MCEstimates == {-1, 2}
MCCosts == {-1, 1, 3}

MCSharedKeyOf == <<k1, k1, k2>>
MCSharedBudget == (k1 :> 3) @@ (k2 :> 0)
MCSharedRPM == (k1 :> 1) @@ (k2 :> 0)
MCReplicaOf == <<p1, p2, p1>>
MCSharedEstimates == {-1, 3}
MCSharedCosts == {1}

\* The fail mode is an option of the shared store only.
OneMemoryStart == ~ redis => failClosed

\* The requests on the key in memory differ by nothing but their numbers.
InOrder == \A r \in 2..N : stage[r] = "idle" /\ stage'[r] # "idle" => stage[r - 1] # "idle"

\* Two shared requests at a time: both on the key with limits, or both on one replica.
TwoAtATime == pc'[2] = "idle" \/ pc'[3] = "idle"
=============================================================================
