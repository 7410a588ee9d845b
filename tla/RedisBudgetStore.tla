-------------------------- MODULE RedisBudgetStore --------------------------
(***************************************************************************)
(* gateway/budget_redis.go: the BudgetStore that gateway replicas share.   *)
(* A Lua script runs atomically on the server, but Reserve needs two of    *)
(* them (budget, then rate) and a third to undo the first, so the calls of *)
(* several requests interleave.  A call whose reply is lost or late tells  *)
(* the gateway nothing: the server may have run it, may yet run it, or     *)
(* never will.  The client library then sends the same call again, up to   *)
(* three times within the 500 ms of the call (its default, which           *)
(* NewRedisBudgetStore leaves as it is; MaxFaults bounds it here), or the  *)
(* call fails.  None of the scripts can tell a second run from the first.  *)
(* A replica may crash at any time.  Key expiry (a week after the month    *)
(* ends) is out of the bounds here.                                        *)
(***************************************************************************)
EXTENDS Integers, FiniteSets, Sums

CONSTANTS
  N, Keys, KeyOf, MonthlyBudget,  \* as in BudgetLedger
  RateLimitRPM, Window,           \* as in MemBudgetStore; server-side time
  Estimates, Costs,
  Replicas, ReplicaOf,            \* gateway processes, and the one serving each request
  MaxTime,                        \* bound on the clock
  MaxMonth,                       \* bound on the calendar month
  MaxFaults                       \* bound on repeated and failed calls and crashes

Requests == 1..N
Months == 0..MaxMonth

VARIABLES
  failClosed,  \* LEDGERAI_BUDGET_FAIL_MODE=closed
  now,         \* the server's TIME
  wall,        \* the calendar month
  budget,      \* al:budget:{key}:{month}
  slots,       \* al:rate:{key}, the sorted set of (member, score)
  pc,          \* where each request is; in Ops: waiting for the reply to that call
  res,         \* month and amounts its calls carry, and the flags of its reservation
  late,        \* attempts nobody waits for any more, which the server may still run
  charge,      \* history: the charge each request has made on the server (BudgetLedger)
  repeated,    \* history: USD that scripts moved, at most, when they ran again
  admitted,    \* history: server times at which the rate script admitted the request
  troubled,    \* history: requests with a call sent again or failed, or killed by a crash
  faults       \* history: how often that happened

server == <<budget, slots, charge, repeated, admitted>>
env == <<failClosed, now, wall>>
trouble == <<late, troubled, faults>>
vars == <<env, server, pc, res, trouble>>

Ledger == INSTANCE BudgetLedger WITH slack <- repeated

NonNegative(x) == IF x < 0 THEN 0 ELSE x

\* reserveScript, rateLimitScript, releaseScript, and Commit's pipeline.
Ops == {"hold", "rate", "return", "book"}
PCs == Ops \cup {"idle", "granted", "rejected", "dead"}
NoReservation ==
  [month |-> 0, amount |-> 0, actual |-> 0, held |-> FALSE, noop |-> FALSE, applied |-> FALSE]

TypeOK ==
  /\ failClosed \in BOOLEAN /\ now \in Nat /\ wall \in Months
  /\ budget \in [Keys -> [Months -> Int]]
  /\ slots \in [Keys -> SUBSET [req : Requests, ts : Nat]]
  /\ pc \in [Requests -> PCs]
  /\ res \in [Requests -> [month : Months, amount : Nat, actual : Nat,
                           held : BOOLEAN, noop : BOOLEAN, applied : BOOLEAN]]
  /\ late \in [Requests -> [Ops -> Nat]]
  /\ charge \in [Requests -> Ledger!Charges({"none", "held", "booked", "void"})]
  /\ repeated \in [Keys -> Nat]
  /\ admitted \in [Requests -> SUBSET Nat]
  /\ troubled \subseteq Requests /\ faults \in Nat
-----------------------------------------------------------------------------
(***************************************************************************)
(* What the server does with a call, whether or not it did so before.      *)
(***************************************************************************)
\* Mutant: only a key that is over its cap, not at it, is rejected.
PastCap(r) ==
  MonthlyBudget[KeyOf[r]] > 0 /\ budget[KeyOf[r]][res[r].month] > MonthlyBudget[KeyOf[r]]

AtCap(r) ==
  MonthlyBudget[KeyOf[r]] > 0 /\ budget[KeyOf[r]][res[r].month] >= MonthlyBudget[KeyOf[r]]

\* A call's first run makes, books or voids the charge; another run moves the money again.
Charged(r, from, to, moved) ==
  IF charge[r].st = from
  THEN charge' = [charge EXCEPT ![r] = to] /\ UNCHANGED repeated
  ELSE repeated' = [repeated EXCEPT ![KeyOf[r]] = @ + moved] /\ UNCHANGED charge

HoldScript(r) ==
  /\ UNCHANGED <<slots, admitted>>
  /\ IF AtCap(r)
     THEN UNCHANGED <<budget, charge, repeated>>
     ELSE /\ budget' = [budget EXCEPT ![KeyOf[r]][res[r].month] = @ + res[r].amount]
          /\ Charged(r, "none", [st |-> "held", month |-> res[r].month, amt |-> res[r].amount],
                     res[r].amount)

\* Slots older than the window go first, then the count decides, the member's own slot
\* included; to add a member that is there already is to renew its score.
LiveSlots(k) == {e \in slots[k] : e.ts > now - Window}
RateFull(k) == Cardinality(LiveSlots(k)) >= RateLimitRPM[k]

RateScript(r) ==
  LET k == KeyOf[r] IN
  /\ slots' = [slots EXCEPT ![k] =
                 IF RateFull(k) THEN LiveSlots(k)
                 ELSE {e \in LiveSlots(k) : e.req # r} \cup {[req |-> r, ts |-> now]}]
  /\ admitted' = IF RateFull(k) THEN admitted ELSE [admitted EXCEPT ![r] = @ \cup {now}]
  /\ UNCHANGED <<budget, charge, repeated>>

\* Mutant: the hold is returned to the current month, not to the one it was taken from.
ReturnToThisMonth(r) ==
  /\ budget' = [budget EXCEPT ![KeyOf[r]][wall] = NonNegative(@ - res[r].amount)]
  /\ Charged(r, "held", Ledger!VoidCharge, res[r].amount)
  /\ UNCHANGED <<slots, admitted>>

ReturnScript(r) ==
  /\ budget' = [budget EXCEPT ![KeyOf[r]][res[r].month] = NonNegative(@ - res[r].amount)]
  /\ Charged(r, "held", Ledger!VoidCharge, res[r].amount)
  /\ UNCHANGED <<slots, admitted>>

\* Commit's INCRBYFLOAT of the difference, under the month of the hold.
BookPipeline(r) ==
  LET delta == res[r].actual - res[r].amount IN
  /\ budget' = [budget EXCEPT ![KeyOf[r]][res[r].month] = @ + delta]
  /\ Charged(r, "held", [st |-> "booked", month |-> res[r].month, amt |-> res[r].actual],
             IF delta < 0 THEN - delta ELSE delta)
  /\ UNCHANGED <<slots, admitted>>

Run(r, op) ==
  \/ op = "hold" /\ HoldScript(r)
  \/ op = "rate" /\ RateScript(r)
  \/ op = "return" /\ ReturnScript(r)
  \/ op = "book" /\ BookPipeline(r)
-----------------------------------------------------------------------------
(***************************************************************************)
(* The calls on their way.                                                 *)
(***************************************************************************)
Init ==
  /\ failClosed \in BOOLEAN /\ now = 0 /\ wall = 0
  /\ budget = [k \in Keys |-> [m \in Months |-> 0]]
  /\ slots = [k \in Keys |-> {}]
  /\ pc = [r \in Requests |-> "idle"]
  /\ res = [r \in Requests |-> NoReservation]
  /\ late = [r \in Requests |-> [op \in Ops |-> 0]]
  /\ charge = [r \in Requests |-> Ledger!NoCharge]
  /\ repeated = [k \in Keys |-> 0]
  /\ admitted = [r \in Requests |-> {}]
  /\ troubled = {} /\ faults = 0

Goto(r, label) == pc' = [pc EXCEPT ![r] = label]

\* The reply to the call that request r waits for does not come.
NoReply(r) ==
  /\ pc[r] \in Ops
  /\ faults < MaxFaults
  /\ faults' = faults + 1 /\ troubled' = troubled \cup {r}
  /\ late' = [late EXCEPT ![r][pc[r]] = @ + 1]
  /\ UNCHANGED <<env, server>>

\* The client library sends the same call again ...
Resend(r) == NoReply(r) /\ UNCHANGED <<pc, res>>

\* ... and the server runs an attempt that was given up, now or never.
RunsLate(r, op) ==
  /\ late[r][op] > 0
  /\ late' = [late EXCEPT ![r][op] = @ - 1]
  /\ Run(r, op)
  /\ UNCHANGED <<env, pc, res, troubled, faults>>

\* The server runs the call and its reply is read.
Replies(r, op) ==
  /\ pc[r] = op
  /\ Run(r, op)
  /\ UNCHANGED <<env, trouble>>
-----------------------------------------------------------------------------
(***************************************************************************)
(* Reserve, Commit and Release.                                            *)
(***************************************************************************)
\* What Reserve does next once the budget has admitted the request.
AfterBudget(r) == IF RateLimitRPM[KeyOf[r]] > 0 THEN "rate" ELSE "granted"

\* The budget script is called when there is a cap to enforce or an estimate to hold.
\* Without a call it is, to the ledger, a hold of zero.
Reserve(r, usd) ==
  LET est == NonNegative(usd) IN
  /\ pc[r] = "idle"
  /\ res' = [res EXCEPT ![r] = [NoReservation EXCEPT !.month = wall, !.amount = est]]
  /\ IF MonthlyBudget[KeyOf[r]] > 0 \/ est > 0
     THEN Goto(r, "hold") /\ UNCHANGED charge
     ELSE /\ Goto(r, AfterBudget(r))
          /\ charge' = [charge EXCEPT ![r] = [st |-> "held", month |-> wall, amt |-> 0]]
  /\ UNCHANGED <<env, budget, slots, repeated, admitted, trouble>>

HoldReplies(r) ==
  /\ Replies(r, "hold")
  /\ IF AtCap(r)
     THEN Goto(r, "rejected") /\ UNCHANGED res
     ELSE Goto(r, AfterBudget(r)) /\ res' = [res EXCEPT ![r].held = TRUE]

HoldFails(r) ==
  /\ pc[r] = "hold" /\ NoReply(r)
  /\ IF failClosed
     THEN Goto(r, "rejected") /\ UNCHANGED res
     ELSE Goto(r, "granted") /\ res' = [res EXCEPT ![r].noop = TRUE]

\* Reserve gives up after the budget hold: releaseRedis calls only for a positive hold.
GiveUp(r) == Goto(r, IF res[r].held /\ res[r].amount > 0 THEN "return" ELSE "rejected")

RateReplies(r) ==
  /\ Replies(r, "rate") /\ UNCHANGED res
  /\ IF RateFull(KeyOf[r]) THEN GiveUp(r) ELSE Goto(r, "granted")

RateFails(r) ==
  /\ pc[r] = "rate" /\ NoReply(r) /\ UNCHANGED res
  /\ IF failClosed THEN GiveUp(r) ELSE Goto(r, "granted")

\* The end of a settlement, or of the release inside a Reserve that gave up; an error
\* is only logged.
Settled(r) == Goto(r, IF res[r].applied THEN "granted" ELSE "rejected") /\ UNCHANGED res

ReturnReplies(r) == Replies(r, "return") /\ Settled(r)
BookReplies(r) == Replies(r, "book") /\ Settled(r)
SettleFails(r) == pc[r] \in {"return", "book"} /\ NoReply(r) /\ Settled(r)

Settling(r) == pc[r] = "granted" /\ ~ res[r].noop /\ ~ res[r].applied

\* A no-op or applied reservation makes Commit and Release return at once; so does
\* Release of a hold of zero, which leaves the reservation unapplied.
SettleNothing(r) ==
  /\ pc[r] = "granted"
  /\ Settling(r) => res[r].amount = 0
  /\ UNCHANGED vars

Commit(r, cost) ==
  /\ Settling(r)
  /\ res' = [res EXCEPT ![r].applied = TRUE, ![r].actual = NonNegative(cost)]
  /\ Goto(r, "book")
  /\ UNCHANGED <<env, server, trouble>>

Release(r) ==
  /\ Settling(r) /\ res[r].amount > 0
  /\ res' = [res EXCEPT ![r].applied = TRUE]
  /\ Goto(r, "return")
  /\ UNCHANGED <<env, server, trouble>>

\* A replica crashes: its requests die where they are, the server keeps its keys and
\* may still run the calls they were waiting for.
InFlight(r) == pc[r] \in Ops \/ Settling(r)
Crash(p) ==
  LET killed == {r \in Requests : ReplicaOf[r] = p /\ InFlight(r)} IN
  /\ killed # {}
  /\ faults + Cardinality(killed) <= MaxFaults
  /\ faults' = faults + Cardinality(killed) /\ troubled' = troubled \cup killed
  /\ pc' = [r \in Requests |-> IF r \in killed THEN "dead" ELSE pc[r]]
  /\ late' = [r \in Requests |-> [op \in Ops |->
                IF r \in killed /\ pc[r] = op THEN late[r][op] + 1 ELSE late[r][op]]]
  /\ UNCHANGED <<env, server, res>>

Tick ==
  /\ now < MaxTime
  /\ now' = now + 1
  /\ wall' \in {wall, wall + 1} \cap Months
  /\ UNCHANGED <<failClosed, server, pc, res, trouble>>

Next ==
  \/ Tick
  \/ \E p \in Replicas : Crash(p)
  \/ \E r \in Requests :
       \/ \E usd \in Estimates : Reserve(r, usd)
       \/ HoldReplies(r) \/ HoldFails(r)
       \/ RateReplies(r) \/ RateFails(r)
       \/ \E cost \in Costs : Commit(r, cost)
       \/ Release(r)
       \/ SettleNothing(r)
       \/ ReturnReplies(r) \/ BookReplies(r) \/ SettleFails(r)
       \/ Resend(r)
       \/ \E op \in Ops : RunsLate(r, op)

Spec == Init /\ [][Next]_vars
-----------------------------------------------------------------------------
(***************************************************************************)
(* Correctness.                                                            *)
(***************************************************************************)

\* Every budget key on the server is the total of the charges made under it, give or
\* take what calls moved when they ran again: exact while nothing ran twice, whatever
\* calls were lost or late and whichever replica crashed.  Where a call has run twice
\* the clamp of releaseScript adds no error of its own.
BudgetMatchesCharges ==
  \A k \in Keys, m \in Months :
    /\ budget[k][m] - Ledger!Spent(k, m) <= repeated[k]
    /\ Ledger!Spent(k, m) - budget[k][m] <= repeated[k]

\* A hold that no request in flight owns any more.
Stranded == {r \in Requests : charge[r].st = "held" /\ charge[r].amt > 0 /\ ~ InFlight(r)}

\* Holds leak only where a call went unanswered or a crash came between: a request
\* that was rejected or settled otherwise leaves nothing held.
StrandedByTroubleOnly == Stranded \subseteq troubled

\* Requests let through although the server holds and booked nothing for them.
Unaccounted ==
  {r \in Requests : /\ pc[r] = "granted"
                    /\ MonthlyBudget[KeyOf[r]] > 0
                    /\ ~ res[r].applied
                    /\ charge[r].st = "none"}

\* Failing closed, no capped request goes upstream without the server's hold; failing
\* open, only one whose own call failed does.
GrantsAccounted ==
  /\ failClosed => Unaccounted = {}
  /\ Unaccounted \subseteq troubled

\* No Window seconds of server time see more requests of a key admitted by the rate
\* script, on all replicas together and repeated runs included, than its limit.  (A
\* request let through because the script could not be reached is not admitted by it.)
RateWindowRespected ==
  \A k \in Keys : RateLimitRPM[k] > 0 =>
    \A t \in 0..now :
      Cardinality({r \in Requests : KeyOf[r] = k /\ admitted[r] \cap t..(t + Window - 1) # {}})
        <= RateLimitRPM[k]

\* The shared store implements the abstract ledger, with the repeated runs as its slack.
LedgerSpec == Ledger!Spec
=============================================================================
