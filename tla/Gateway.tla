------------------------------- MODULE Gateway -------------------------------
(***************************************************************************)
(* The gateway's inline path (gateway/proxy.go, messages.go) beside the    *)
(* hot reload of its configuration (config_store.go, config_pg.go).  Each  *)
(* request runs on the snapshot it loaded when it arrived.  A reload reads *)
(* keys, DLP policies and the tool allowlist in three queries, between     *)
(* which administrators change the rows, and then swaps the snapshot.  The *)
(* process starts with such a load too, before it serves.  The budget      *)
(* store is the abstract one, BudgetLedger, in one month: its calls get    *)
(* through or Reserve fails; RedisBudgetStore covers lost and repeated     *)
(* ones.                                                                   *)
(***************************************************************************)
EXTENDS Integers, Sequences, FiniteSets, Sums

CONSTANTS
  N, Keys, KeyOf, MonthlyBudget,  \* as in BudgetLedger
  RateLimited,   \* keys with a requests-per-minute limit
  Shape,         \* of each request: [model, tools, findings, stream, maxTokens]
  Routed,        \* models some provider serves
  Policies,      \* DLP policy ids
  KeyRows,       \* [allow, policy] an administrator may give a key; allow = {}: any model
  PolicyRows,    \* DLP actions an administrator may set, "disabled" included
  ToolRows,      \* tool allowlists of the agent; {} = not governed
  StartTables,   \* [keys, dlp, tools] the tables may hold at first; the config file holds the same
  Prices,        \* USD per token the price book may hold
  Tokens,        \* token counts an upstream may report
  DefaultReserve,
  MaxChanges     \* bound on administrators' transactions, by the tables at first

Requests == 1..N

ASSUME GatewayAssumption ==
  /\ N \in Nat
  /\ KeyOf \in [Requests -> Keys]
  /\ MonthlyBudget \in [Keys -> Nat]
  /\ RateLimited \subseteq Keys
  /\ \A r \in Requests :
       /\ Shape[r].findings \in {"none", "injection", "data"}
       /\ Shape[r].stream \in BOOLEAN /\ Shape[r].maxTokens \in Nat
  /\ \A row \in KeyRows : row.policy \in Policies
  /\ StartTables \subseteq [keys : [Keys -> [live : BOOLEAN, row : KeyRows]],
                     dlp : [Policies -> PolicyRows], tools : ToolRows]
  /\ Prices \subseteq Nat /\ Tokens \subseteq Nat /\ DefaultReserve \in Nat
  /\ MaxChanges \in [StartTables -> Nat]

VARIABLES
  hist,     \* committed states of the control-plane tables, the last one current
  snap,     \* Gateway.current
  reload,   \* the reload goroutine: where it is, and the rows it has read
  fresh,    \* history: the index in hist at which the last completed reload began
  req,      \* the handler of each request
  charge,   \* the charge each request has made (BudgetLedger)
  sent,     \* history: the body the upstream may have received
  ev,       \* history: the event handed to EventSink.Emit
  failClosed

config == <<hist, snap, reload, fresh, failClosed>>
vars == <<config, req, charge, sent, ev>>

Ledger == INSTANCE BudgetLedger WITH slack <- [k \in Keys |-> 0]

NoEvent == [status |-> "none", cost |-> 0]

TypeOK ==
  /\ \A i \in DOMAIN hist : hist[i].keys \in [Keys -> [live : BOOLEAN, row : KeyRows]]
  /\ snap.keys \in [Keys -> [live : BOOLEAN, row : KeyRows]]
  /\ snap.dlp \in [Policies -> PolicyRows] /\ snap.tools \in ToolRows /\ snap.prices \in Prices
  /\ reload.at \in {"idle", "policies", "tools", "swap"} /\ reload.boot \in BOOLEAN
  /\ fresh \in DOMAIN hist
  /\ \A r \in Requests :
       /\ req[r].at \in {"idle", "policy", "reserve", "proxy", "wait", "settle", "emit", "done", "dead"}
       /\ req[r].held \in BOOLEAN /\ req[r].usage \in Nat /\ req[r].cost \in Nat
  /\ charge \in [Requests -> Ledger!Charges({"none", "held", "booked", "void"})]
  /\ sent \in [Requests -> {"no", "raw", "redacted"}]
  /\ failClosed \in BOOLEAN
-----------------------------------------------------------------------------
(***************************************************************************)
(* What a snapshot decides.                                                *)
(***************************************************************************)
KeyRow(s, r) == s.keys[KeyOf[r]].row

ModelAllowed(s, r) == KeyRow(s, r).allow = {} \/ Shape[r].model \in KeyRow(s, r).allow

ToolsAllowed(s, r) == s.tools = {} \/ Shape[r].tools \subseteq s.tools

\* Classify, then Decide.  A policy that does not cover the findings acts as "log".
DLPAction(s, r) ==
  LET policy == s.dlp[KeyRow(s, r).policy] IN
  CASE Shape[r].findings = "none" -> "allow"
    [] Shape[r].findings = "injection" -> "flag"
    [] OTHER -> IF policy = "disabled" THEN "log" ELSE policy

\* Stages 3 to 5 of serveCanonical.
Verdict(s, r) ==
  IF ~ ModelAllowed(s, r) THEN "blocked_policy"
  ELSE IF ~ ToolsAllowed(s, r) THEN "blocked_tool"
  ELSE IF DLPAction(s, r) = "block" THEN "blocked_dlp"
  ELSE IF Shape[r].model \notin Routed THEN "blocked_policy"
  ELSE "pass"

\* redactBody before the body goes upstream.
Body(s, r) == IF DLPAction(s, r) = "redact" THEN "redacted" ELSE "raw"

Estimate(s, r) ==
  LET est == Shape[r].maxTokens * s.prices IN IF est > 0 THEN est ELSE DefaultReserve
-----------------------------------------------------------------------------
Idle == [at |-> "idle", boot |-> FALSE, keys |-> <<>>, dlp |-> <<>>, tools |-> {}, since |-> 0]

\* The initial load, before the server listens.
Boot == [Idle EXCEPT !.boot = TRUE]

Tables == hist[Len(hist)]

Loaded(tables, prices) ==
  [keys |-> tables.keys, dlp |-> tables.dlp, tools |-> tables.tools, prices |-> prices]

Init ==
  /\ \E t \in StartTables, p \in Prices : hist = <<t>> /\ snap = Loaded(t, p)
  /\ reload = Boot /\ fresh = 1
  /\ req = [r \in Requests |->
              [at |-> "idle", snap |-> <<>>, since |-> 0, held |-> FALSE,
               usage |-> 0, result |-> "none", cost |-> 0]]
  /\ charge = [r \in Requests |-> Ledger!NoCharge]
  /\ sent = [r \in Requests |-> "no"]
  /\ ev = [r \in Requests |-> NoEvent]
  /\ failClosed \in BOOLEAN
-----------------------------------------------------------------------------
(***************************************************************************)
(* The control plane and the reload.                                       *)
(***************************************************************************)
Change(tables) ==
  /\ Len(hist) <= MaxChanges[hist[1]] /\ tables # Tables
  /\ hist' = Append(hist, tables)
  /\ UNCHANGED <<snap, reload, fresh, failClosed, req, charge, sent, ev>>

UpdateKey(k) ==
  \E row \in KeyRows : Change([Tables EXCEPT !.keys[k].row = row])
RevokeKey(k) == Change([Tables EXCEPT !.keys[k].live = FALSE])
UpdatePolicy(p) == \E a \in PolicyRows : Change([Tables EXCEPT !.dlp[p] = a])

\* One tool is put on the allowlist or taken off it.
UpdateTools ==
  \E t \in ToolRows :
    /\ \E tool \in t \cup Tables.tools : t \ {tool} = Tables.tools \ {tool}
    /\ Change([Tables EXCEPT !.tools = t])

LoadKeys ==
  /\ reload.at = "idle"
  /\ reload' = [reload EXCEPT !.at = "policies", !.keys = Tables.keys, !.since = Len(hist)]
  /\ UNCHANGED <<hist, snap, fresh, failClosed, req, charge, sent, ev>>

LoadPolicies ==
  /\ reload.at = "policies"
  /\ reload' = [reload EXCEPT !.at = "tools", !.dlp = Tables.dlp]
  /\ UNCHANGED <<hist, snap, fresh, failClosed, req, charge, sent, ev>>

LoadTools ==
  /\ reload.at = "tools"
  /\ reload' = [reload EXCEPT !.at = "swap", !.tools = Tables.tools]
  /\ UNCHANGED <<hist, snap, fresh, failClosed, req, charge, sent, ev>>

\* A query fails: the last-good snapshot stays, at the start that of the config file.
LoadFails ==
  /\ reload.at \in {"policies", "tools"} \/ (reload.boot /\ reload.at = "idle")
  /\ reload' = Idle
  /\ UNCHANGED <<hist, snap, fresh, failClosed, req, charge, sent, ev>>

\* Mutant: the reload keeps the old key store.
SwapKeepsKeys ==
  /\ reload.at = "swap"
  /\ \E p \in Prices : snap' = [Loaded(reload, p) EXCEPT !.keys = snap.keys]
  /\ fresh' = reload.since /\ reload' = Idle
  /\ UNCHANGED <<hist, failClosed, req, charge, sent, ev>>

\* The price book is read again, or kept when that fails; then the swap.
Swap ==
  /\ reload.at = "swap"
  /\ \E p \in Prices : snap' = Loaded(reload, p)
  /\ fresh' = reload.since /\ reload' = Idle
  /\ UNCHANGED <<hist, failClosed, req, charge, sent, ev>>
-----------------------------------------------------------------------------
(***************************************************************************)
(* A request.                                                              *)
(***************************************************************************)
\* handleChatCompletions, handleMessages: load the snapshot, authenticate.
Arrive(r) ==
  /\ req[r].at = "idle" /\ ~ reload.boot
  /\ req' = [req EXCEPT ![r].at = IF snap.keys[KeyOf[r]].live THEN "policy" ELSE "done",
                        ![r].snap = snap, ![r].since = fresh]
  /\ UNCHANGED <<config, charge, sent, ev>>

\* The body cannot be read or parsed: 400, and no event.
Malformed(r) ==
  /\ req[r].at = "policy"
  /\ req' = [req EXCEPT ![r].at = "done"]
  /\ UNCHANGED <<config, charge, sent, ev>>

\* finishFmt: the event of a request that is turned away.
Block(r, status) ==
  /\ req' = [req EXCEPT ![r].at = "done"]
  /\ ev' = [ev EXCEPT ![r] = [status |-> status, cost |-> 0]]
  /\ UNCHANGED <<config, charge, sent>>

\* Mutant: the policy is read from the current snapshot, not from the request's.
EvaluateCurrent(r) ==
  /\ req[r].at = "policy"
  /\ IF Verdict(snap, r) # "pass"
     THEN Block(r, Verdict(snap, r))
     ELSE req' = [req EXCEPT ![r].at = "reserve"] /\ UNCHANGED <<config, charge, sent, ev>>

Evaluate(r) ==
  LET v == Verdict(req[r].snap, r) IN
  /\ req[r].at = "policy"
  /\ IF v # "pass"
     THEN Block(r, v)
     ELSE req' = [req EXCEPT ![r].at = "reserve"] /\ UNCHANGED <<config, charge, sent, ev>>

\* BudgetStore.Reserve grants the hold ...
ReserveHolds(r) ==
  /\ req[r].at = "reserve" /\ Ledger!Admits(KeyOf[r], 0)
  /\ charge' = [charge EXCEPT ![r] = [st |-> "held", month |-> 0, amt |-> Estimate(req[r].snap, r)]]
  /\ req' = [req EXCEPT ![r].at = "proxy", ![r].held = TRUE]
  /\ UNCHANGED <<config, sent, ev>>

\* ... or rejects ...
ReserveRejects(r) ==
  /\ req[r].at = "reserve"
  /\ \/ ~ Ledger!Admits(KeyOf[r], 0) /\ Block(r, "blocked_budget")
     \/ KeyOf[r] \in RateLimited /\ Block(r, "blocked_rate")
     \/ failClosed /\ Block(r, "blocked_budget")

\* ... or fails open, with a reservation that holds nothing.
ReserveFailsOpen(r) ==
  /\ req[r].at = "reserve" /\ ~ failClosed
  /\ req' = [req EXCEPT ![r].at = "proxy"]
  /\ UNCHANGED <<config, charge, sent, ev>>

Result(r, result, usage) ==
  req' = [req EXCEPT ![r].at = "settle", ![r].result = result, ![r].usage = usage]

Dispatch(r) ==
  /\ req[r].at = "proxy"
  /\ sent' = [sent EXCEPT ![r] = Body(req[r].snap, r)]
  /\ req' = [req EXCEPT ![r].at = "wait"]
  /\ UNCHANGED <<config, charge, ev>>

\* client.Do fails; the upstream may have received the body all the same.
DispatchFails(r) ==
  /\ req[r].at = "proxy"
  /\ sent' \in {sent, [sent EXCEPT ![r] = Body(req[r].snap, r)]}
  /\ Result(r, "upstream_error", 0)
  /\ UNCHANGED <<config, charge, ev>>

\* A response that is not streamed (a stream was asked for in vain, perhaps): a
\* failed write to the client is ignored, success need not report usage, an error
\* status may, and a body that cannot be read carries none.
Buffered(r) ==
  /\ req[r].at = "wait" /\ req[r].usage = 0
  /\ \E result \in {"ok", "upstream_error"}, u \in Tokens \cup {0} : Result(r, result, u)
  /\ UNCHANGED <<config, charge, sent, ev>>

\* A stream: each chunk that reports usage replaces the usage so far.
Chunk(r) ==
  /\ req[r].at = "wait" /\ Shape[r].stream
  /\ \E u \in Tokens \ {req[r].usage} : req' = [req EXCEPT ![r].usage = u]
  /\ UNCHANGED <<config, charge, sent, ev>>

\* It ends at EOF, when reading it fails, or when writing to the client fails.
StreamEnds(r) ==
  /\ req[r].at = "wait" /\ Shape[r].stream
  /\ \E result \in {"ok", "upstream_error", "client_error"} : Result(r, result, req[r].usage)
  /\ UNCHANGED <<config, charge, sent, ev>>

Cost(r) == IF req[r].result = "ok" THEN req[r].usage * req[r].snap.prices ELSE 0

\* Mutant: an error leaves the hold alone.
SettleKeepsHold(r) ==
  /\ req[r].at = "settle"
  /\ req' = [req EXCEPT ![r].at = "emit", ![r].cost = Cost(r)]
  /\ charge' = IF req[r].held /\ req[r].result = "ok"
               THEN [charge EXCEPT ![r] = [st |-> "booked", month |-> 0, amt |-> Cost(r)]]
               ELSE charge
  /\ UNCHANGED <<config, sent, ev>>

\* Stage 8: Commit on success, Release on any error.
Settle(r) ==
  /\ req[r].at = "settle"
  /\ req' = [req EXCEPT ![r].at = "emit", ![r].cost = Cost(r)]
  /\ charge' = IF ~ req[r].held THEN charge
               ELSE IF req[r].result = "ok"
               THEN [charge EXCEPT ![r] = [st |-> "booked", month |-> 0, amt |-> Cost(r)]]
               ELSE [charge EXCEPT ![r] = Ledger!VoidCharge]
  /\ UNCHANGED <<config, sent, ev>>

\* Stage 9.
Emit(r) ==
  /\ req[r].at = "emit"
  /\ ev' = [ev EXCEPT ![r] = [status |-> req[r].result, cost |-> req[r].cost]]
  /\ req' = [req EXCEPT ![r].at = "done"]
  /\ UNCHANGED <<config, charge, sent>>

InFlight(r) == req[r].at \notin {"idle", "done", "dead"}

\* The process dies with its requests and starts again, from the config file; the
\* shared budget store keeps their holds.
Crash ==
  /\ \E r \in Requests : InFlight(r)
  /\ req' = [r \in Requests |-> IF InFlight(r) THEN [req[r] EXCEPT !.at = "dead"] ELSE req[r]]
  /\ \E p \in Prices : snap' = Loaded(hist[1], p)
  /\ reload' = Boot /\ fresh' = 1
  /\ UNCHANGED <<hist, failClosed, charge, sent, ev>>

Handler(r) ==
  \/ Malformed(r) \/ Evaluate(r)
  \/ ReserveHolds(r) \/ ReserveRejects(r) \/ ReserveFailsOpen(r)
  \/ Dispatch(r) \/ DispatchFails(r)
  \/ Settle(r) \/ Emit(r)

Response(r) == Buffered(r) \/ StreamEnds(r)

Next ==
  \/ \E k \in Keys : UpdateKey(k) \/ RevokeKey(k)
  \/ \E p \in Policies : UpdatePolicy(p)
  \/ UpdateTools
  \/ LoadKeys \/ LoadPolicies \/ LoadTools \/ LoadFails \/ Swap
  \/ \E r \in Requests : Arrive(r) \/ Handler(r) \/ Response(r) \/ Chunk(r)
  \/ Crash

\* A handler runs on, and its upstream answers or times out; its client reads the
\* stream or goes away.
Fairness == \A r \in Requests : WF_vars(Handler(r)) /\ WF_vars(Response(r))

Spec == Init /\ [][Next]_vars /\ Fairness
-----------------------------------------------------------------------------
(***************************************************************************)
(* Correctness.                                                            *)
(***************************************************************************)

\* What the budget still counts for a request that has reported nothing: its estimate
\* until it is settled, its cost until the event is out.  One that died never reports.
Unreported(r) ==
  IF ~ req[r].held \/ ev[r].status # "none" THEN 0
  ELSE CASE charge[r].st = "held" -> Estimate(req[r].snap, r)
         [] charge[r].st = "booked" -> req[r].cost
         [] OTHER -> 0

\* What a request reports that no budget counts: it was let through without a hold.
Unenforced(r) == IF req[r].held THEN 0 ELSE ev[r].cost

\* The spend that budgets are enforced on and the cost that events report differ, for
\* every key, by two things only, however requests, errors, crashes and reloads of the
\* price book interleave: requests that have not reported, or died before they could,
\* count already, and those whose Reserve failed open are reported but never counted.
\* Failing closed, there are none of the latter: what is sent has its hold.
SpendMatchesEvents ==
  /\ \A k \in Keys :
       Ledger!Spent(k, 0) =
         Total([r \in Requests |->
                  IF KeyOf[r] = k THEN ev[r].cost + Unreported(r) - Unenforced(r) ELSE 0], N)
  /\ failClosed => \A r \in Requests : sent[r] # "no" => req[r].held

\* A request is judged by one snapshot, the one it authenticated with: what that
\* snapshot blocks never reaches an upstream and never holds budget, and what it
\* redacts never leaves unredacted, whatever is swapped in meanwhile.
BlockedStaysInside ==
  \A r \in Requests :
    sent[r] # "no" \/ charge[r].st # "none" =>
      /\ req[r].snap.keys[KeyOf[r]].live
      /\ Verdict(req[r].snap, r) = "pass"
      /\ sent[r] \in {"no", Body(req[r].snap, r)}

\* The tables as a request may see them if each is read on its own.
Mixed(i, j, l) == [keys |-> hist[i].keys, dlp |-> hist[j].dlp, tools |-> hist[l].tools]

AllowedBy(tables, r) ==
  /\ tables.keys[KeyOf[r]].live
  /\ Verdict(tables, r) = "pass"
  /\ sent[r] = Body(tables, r)

\* A revoked key, a changed policy and a changed allowlist take effect with the
\* next completed load: a request that reached the upstream was allowed by rows
\* none of which had been replaced before the last load of its process began, or
\* by the config file if none had completed.
StalenessBounded ==
  \A r \in Requests : sent[r] # "no" =>
    \E i, j, l \in req[r].since..Len(hist) : AllowedBy(Mixed(i, j, l), r)

\* Every hold is settled, unless the process dies with the request.
HoldsSettle ==
  \A r \in Requests : charge[r].st = "held" ~> charge[r].st # "held" \/ req[r].at = "dead"

\* "in-flight requests always see a consistent view": a request that reached the
\* upstream was allowed by the tables as they stood at some one moment.
ConsistentView ==
  \A r \in Requests : sent[r] # "no" =>
    \E i \in DOMAIN hist : AllowedBy(Mixed(i, i, i), r)

\* "The gateway's own cost accounting always uses the captured final usage, so
\* billing is exact": a request whose upstream call did not fail is billed for the
\* usage that was captured.
BillingExact ==
  \A r \in Requests : req[r].at = "done" /\ req[r].result \in {"ok", "client_error"} =>
    ev[r].cost = req[r].usage * req[r].snap.prices
=============================================================================
