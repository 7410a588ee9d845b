---------------------------- MODULE GatewayProofs ----------------------------
(***************************************************************************)
(* Proofs, for any number of requests, keys, policies and changes of the   *)
(* control plane, that the inline path judges each request by one snapshot *)
(* no older than its process's last completed load, and that the spend it  *)
(* enforces budgets on is the cost it reports.                             *)
(***************************************************************************)
EXTENDS Gateway, SumsProofs

KeyTables == [Keys -> [live : BOOLEAN, row : KeyRows]]
PolicyTables == [Policies -> PolicyRows]
TableStates == [keys : KeyTables, dlp : PolicyTables, tools : ToolRows]
Snapshots == [keys : KeyTables, dlp : PolicyTables, tools : ToolRows, prices : Prices]
Reloads == [at : {"idle", "policies", "tools", "swap"}, boot : BOOLEAN,
            keys : KeyTables \cup {<<>>}, dlp : PolicyTables \cup {<<>>}, tools : ToolRows \cup {{}}, since : Nat]
Statuses == {"none", "ok", "upstream_error", "client_error", "blocked_policy", "blocked_tool",
             "blocked_dlp", "blocked_budget", "blocked_rate", "pass"}
Stages == {"idle", "policy", "reserve", "proxy", "wait", "settle", "emit", "done", "dead"}
Handlers == [at : Stages, snap : Snapshots \cup {<<>>}, since : Nat, held : BOOLEAN,
             usage : Nat, result : Statuses, cost : Nat]

Typed ==
  /\ hist \in Seq(TableStates) /\ fresh \in 1..Len(hist)
  /\ snap \in Snapshots /\ reload \in Reloads /\ failClosed \in BOOLEAN
  /\ req \in [Requests -> Handlers]
  /\ charge \in [Requests -> Ledger!Charges({"none", "held", "booked", "void"})]
  /\ sent \in [Requests -> {"no", "raw", "redacted"}]
  /\ ev \in [Requests -> [status : Statuses, cost : Nat]]

\* Each part of a snapshot was in the tables at some moment from since on.
SnapFrom(s, since) ==
  \E i, j, l \in since..Len(hist) : s.keys = hist[i].keys /\ s.dlp = hist[j].dlp /\ s.tools = hist[l].tools

\* What the reload has read so far was in the tables after it began.
ReloadOk ==
  /\ reload.at # "idle" =>
       reload.since \in 1..Len(hist) /\ \E i \in reload.since..Len(hist) : reload.keys = hist[i].keys
  /\ reload.at \in {"tools", "swap"} => \E j \in reload.since..Len(hist) : reload.dlp = hist[j].dlp
  /\ reload.at = "swap" => \E l \in reload.since..Len(hist) : reload.tools = hist[l].tools

HeldCharge(r) == [st |-> "held", month |-> 0, amt |-> Estimate(req[r].snap, r)]

\* What is sent or held was allowed by the request's own snapshot.
Allowed(r) ==
  /\ req[r].snap.keys[KeyOf[r]].live
  /\ Verdict(req[r].snap, r) = "pass"
  /\ sent[r] \in {"no", Body(req[r].snap, r)}

\* A request's stage, its snapshot and the charge it owns.  BlockedStaysInside is not inductive by
\* itself: a request that passed must still be known to have passed when it is sent; nor is the sum
\* of the charges: what Settle books is the cost that Emit will report.
RequestOk(r) ==
  /\ req[r].at # "idle" =>
       req[r].snap \in Snapshots /\ req[r].since \in 1..Len(hist) /\ SnapFrom(req[r].snap, req[r].since)
  /\ req[r].at = "policy" => req[r].snap.keys[KeyOf[r]].live
  /\ req[r].at \in {"idle", "policy", "reserve"} => sent[r] = "no" /\ ~ req[r].held
  /\ req[r].at \in {"reserve", "proxy", "wait", "settle", "emit"} \/ sent[r] # "no" \/ charge[r].st # "none"
       => Allowed(r)
  /\ ~ req[r].held => charge[r].st = "none"
  /\ req[r].held /\ req[r].at \in {"proxy", "wait", "settle"} => charge[r] = HeldCharge(r)
  /\ req[r].held /\ req[r].at = "emit" => Ledger!Counted(charge[r], 0) = req[r].cost
  /\ req[r].held /\ req[r].at = "done" => Ledger!Counted(charge[r], 0) = ev[r].cost

GatewayInv ==
  /\ Typed /\ SnapFrom(snap, fresh) /\ ReloadOk
  /\ \A r \in Requests : RequestOk(r)
-----------------------------------------------------------------------------
(***************************************************************************)
(* The tables and the reload.                                              *)
(***************************************************************************)
\* What was in the tables stays in their history.
LEMMA HistoryStays ==
  ASSUME NEW t \in TableStates, hist \in Seq(TableStates), hist' = Append(hist, t), NEW since \in 1..Len(hist)
  PROVE  /\ hist' \in Seq(TableStates) /\ Len(hist') = Len(hist) + 1
         /\ \A i \in since..Len(hist) : i \in since..Len(hist') /\ hist'[i] = hist[i]
OBVIOUS

\* Requests keep what holds of them when the tables change.
LEMMA ChangeKeeps ==
  ASSUME GatewayInv, NEW t \in TableStates, hist' = Append(hist, t),
         UNCHANGED <<snap, reload, fresh, failClosed, req, charge, sent, ev>>
  PROVE  GatewayInv'
<1>1. hist \in Seq(TableStates) /\ fresh \in 1..Len(hist)
  BY DEF GatewayInv, Typed
<1>2. \A since \in 1..Len(hist) :
         /\ hist' \in Seq(TableStates) /\ Len(hist') = Len(hist) + 1
         /\ \A i \in since..Len(hist) : i \in since..Len(hist') /\ hist'[i] = hist[i]
  BY <1>1, HistoryStays
<1>3. hist' \in Seq(TableStates) /\ Len(hist') = Len(hist) + 1 /\ Len(hist) \in Nat
  BY <1>1, <1>2
<1>4. Typed'
  BY <1>1, <1>3 DEF GatewayInv, Typed
<1>5. SnapFrom(snap, fresh)'
  <2>1. SnapFrom(snap, fresh)
    BY DEF GatewayInv
  <2>2. \E i, j, l \in fresh..Len(hist') :
           snap.keys = hist'[i].keys /\ snap.dlp = hist'[j].dlp /\ snap.tools = hist'[l].tools
    <3>1. PICK i, j, l \in fresh..Len(hist) :
             snap.keys = hist[i].keys /\ snap.dlp = hist[j].dlp /\ snap.tools = hist[l].tools
      BY <2>1 DEF SnapFrom
    <3>2. /\ i \in fresh..Len(hist') /\ j \in fresh..Len(hist') /\ l \in fresh..Len(hist')
          /\ hist'[i] = hist[i] /\ hist'[j] = hist[j] /\ hist'[l] = hist[l]
      BY <1>1, <1>2, <3>1
    <3>3. QED BY <3>1, <3>2
  <2>3. snap' = snap /\ fresh' = fresh
    OBVIOUS
  <2>4. PICK i, j, l \in fresh..Len(hist') :
           snap.keys = hist'[i].keys /\ snap.dlp = hist'[j].dlp /\ snap.tools = hist'[l].tools
    BY <2>2
  <2>5. /\ i \in fresh'..Len(hist') /\ j \in fresh'..Len(hist') /\ l \in fresh'..Len(hist')
        /\ snap'.keys = hist'[i].keys /\ snap'.dlp = hist'[j].dlp /\ snap'.tools = hist'[l].tools
    BY <2>3, <2>4
  <2>6. QED BY <2>5 DEF SnapFrom
<1>6. ReloadOk'
  BY <1>2, <1>3 DEF GatewayInv, ReloadOk
<1>7. ASSUME NEW r \in Requests PROVE RequestOk(r)'
  <2>1. RequestOk(r)
    BY DEF GatewayInv
  <2>2. req[r].at # "idle" => req[r].since \in 1..Len(hist') /\ SnapFrom(req[r].snap, req[r].since)'
    <3>1. SUFFICES ASSUME req[r].at # "idle"
                   PROVE  req[r].since \in 1..Len(hist') /\ SnapFrom(req[r].snap, req[r].since)'
      OBVIOUS
    <3>2. req[r].since \in 1..Len(hist) /\ SnapFrom(req[r].snap, req[r].since)
      BY <2>1, <3>1 DEF RequestOk
    <3>3. \E i, j, l \in (req[r].since)..Len(hist') :
             req[r].snap.keys = hist'[i].keys /\ req[r].snap.dlp = hist'[j].dlp /\ req[r].snap.tools = hist'[l].tools
      <4>1. PICK i, j, l \in (req[r].since)..Len(hist) :
               req[r].snap.keys = hist[i].keys /\ req[r].snap.dlp = hist[j].dlp /\ req[r].snap.tools = hist[l].tools
        BY <3>2 DEF SnapFrom
      <4>2. /\ i \in (req[r].since)..Len(hist') /\ j \in (req[r].since)..Len(hist') /\ l \in (req[r].since)..Len(hist')
            /\ hist'[i] = hist[i] /\ hist'[j] = hist[j] /\ hist'[l] = hist[l]
        BY <1>2, <3>2, <4>1
      <4>3. QED BY <4>1, <4>2
    <3>4. req[r].since \in 1..Len(hist') /\ req'[r] = req[r]
      BY <1>3, <3>2
    <3>5. QED BY <3>3, <3>4 DEF SnapFrom
  <2>3. QED BY <2>1, <2>2 DEF RequestOk, Allowed, HeldCharge
<1>8. QED BY <1>4, <1>5, <1>6, <1>7 DEF GatewayInv

\* Steps of the reload leave the requests and the tables alone.
LEMMA ReloadKeeps ==
  ASSUME GatewayInv, UNCHANGED <<hist, failClosed, req, charge, sent, ev>>,
         snap' \in Snapshots, reload' \in Reloads, fresh' \in 1..Len(hist),
         SnapFrom(snap, fresh)', ReloadOk'
  PROVE  GatewayInv'
<1>1. Typed'
  BY DEF GatewayInv, Typed
<1>2. ASSUME NEW r \in Requests PROVE RequestOk(r)'
  <2>1. RequestOk(r)
    BY DEF GatewayInv
  <2>2. QED BY <2>1 DEF RequestOk, SnapFrom, Allowed, HeldCharge
<1>3. QED BY <1>1, <1>2 DEF GatewayInv

\* The tables as they are now are typed and the last of their history.
LEMMA CurrentTables ==
  ASSUME Typed PROVE Tables \in TableStates /\ Len(hist) \in 1..Len(hist) /\ Len(hist) \in Nat
BY DEF Typed, Tables

LEMMA LoadSteps ==
  ASSUME GatewayInv, LoadKeys \/ LoadPolicies \/ LoadTools \/ LoadFails \/ Swap
  PROVE  GatewayInv'
<1>0. /\ Typed /\ ReloadOk /\ SnapFrom(snap, fresh) /\ reload \in Reloads /\ snap \in Snapshots
      /\ fresh \in 1..Len(hist) /\ Tables = hist[Len(hist)] /\ Tables \in TableStates
      /\ Len(hist) \in 1..Len(hist) /\ Len(hist) \in Nat
  BY CurrentTables DEF GatewayInv, Typed, Tables
<1>1. CASE LoadKeys
  <2>1. /\ reload' = [reload EXCEPT !.at = "policies", !.keys = Tables.keys, !.since = Len(hist)]
        /\ UNCHANGED <<hist, snap, fresh, failClosed, req, charge, sent, ev>>
    BY <1>1 DEF LoadKeys
  <2>2. reload' \in Reloads
    BY <1>0, <2>1 DEF Reloads, TableStates
  <2>3. reload'.at = "policies" /\ reload'.keys = hist[Len(hist)].keys /\ reload'.since = Len(hist)
    BY <1>0, <2>1 DEF Reloads
  <2>4. ReloadOk'
    BY <1>0, <2>1, <2>3 DEF ReloadOk
  <2>5. SnapFrom(snap, fresh)'
    BY <1>0, <2>1 DEF SnapFrom
  <2>6. QED BY <1>0, <2>1, <2>2, <2>4, <2>5, ReloadKeeps
<1>2. CASE LoadPolicies
  <2>1. /\ reload' = [reload EXCEPT !.at = "tools", !.dlp = Tables.dlp] /\ reload.at = "policies"
        /\ UNCHANGED <<hist, snap, fresh, failClosed, req, charge, sent, ev>>
    BY <1>2 DEF LoadPolicies
  <2>2. reload' \in Reloads
    BY <1>0, <2>1 DEF Reloads, TableStates
  <2>3. /\ reload'.at = "tools" /\ reload'.keys = reload.keys /\ reload'.since = reload.since
        /\ reload'.dlp = hist[Len(hist)].dlp
    BY <1>0, <2>1 DEF Reloads
  <2>4. ReloadOk'
    BY <1>0, <2>1, <2>3 DEF ReloadOk
  <2>5. SnapFrom(snap, fresh)'
    BY <1>0, <2>1 DEF SnapFrom
  <2>6. QED BY <1>0, <2>1, <2>2, <2>4, <2>5, ReloadKeeps
<1>3. CASE LoadTools
  <2>1. /\ reload' = [reload EXCEPT !.at = "swap", !.tools = Tables.tools] /\ reload.at = "tools"
        /\ UNCHANGED <<hist, snap, fresh, failClosed, req, charge, sent, ev>>
    BY <1>3 DEF LoadTools
  <2>2. reload' \in Reloads
    BY <1>0, <2>1 DEF Reloads, TableStates
  <2>3. /\ reload'.at = "swap" /\ reload'.keys = reload.keys /\ reload'.since = reload.since
        /\ reload'.dlp = reload.dlp /\ reload'.tools = hist[Len(hist)].tools
    BY <1>0, <2>1 DEF Reloads
  <2>4. ReloadOk'
    BY <1>0, <2>1, <2>3 DEF ReloadOk
  <2>5. SnapFrom(snap, fresh)'
    BY <1>0, <2>1 DEF SnapFrom
  <2>6. QED BY <1>0, <2>1, <2>2, <2>4, <2>5, ReloadKeeps
<1>4. CASE LoadFails
  <2>1. /\ reload' = Idle /\ UNCHANGED <<hist, snap, fresh, failClosed, req, charge, sent, ev>>
    BY <1>4 DEF LoadFails
  <2>2. reload' \in Reloads /\ reload'.at = "idle"
    BY <2>1 DEF Reloads, Idle
  <2>3. ReloadOk'
    BY <2>2 DEF ReloadOk
  <2>4. SnapFrom(snap, fresh)'
    BY <1>0, <2>1 DEF SnapFrom
  <2>5. QED BY <1>0, <2>1, <2>2, <2>3, <2>4, ReloadKeeps
<1>5. CASE Swap
  <2>1. PICK p \in Prices : snap' = Loaded(reload, p)
    BY <1>5 DEF Swap
  <2>2. /\ fresh' = reload.since /\ reload' = Idle /\ UNCHANGED <<hist, failClosed, req, charge, sent, ev>>
        /\ reload.at = "swap"
    BY <1>5 DEF Swap
  <2>3. PICK i \in (reload.since)..Len(hist), j \in (reload.since)..Len(hist), l \in (reload.since)..Len(hist) :
           reload.keys = hist[i].keys /\ reload.dlp = hist[j].dlp /\ reload.tools = hist[l].tools
    BY <1>0, <2>2 DEF ReloadOk
  <2>4. reload.since \in 1..Len(hist)
    BY <1>0, <2>2 DEF ReloadOk
  <2>5. hist[i] \in TableStates /\ hist[j] \in TableStates /\ hist[l] \in TableStates
    <3>1. i \in 1..Len(hist) /\ j \in 1..Len(hist) /\ l \in 1..Len(hist)
      BY <1>0, <2>3, <2>4
    <3>2. QED BY <3>1 DEF GatewayInv, Typed
  <2>6. snap' \in Snapshots
    BY <2>1, <2>3, <2>5 DEF Loaded, Snapshots, TableStates
  <2>7. SnapFrom(snap, fresh)'
    <3>1. snap'.keys = hist[i].keys /\ snap'.dlp = hist[j].dlp /\ snap'.tools = hist[l].tools
      BY <2>1, <2>3 DEF Loaded
    <3>2. QED BY <2>2, <2>3, <3>1 DEF SnapFrom
  <2>8. reload' \in Reloads /\ ReloadOk'
    BY <2>2 DEF Reloads, Idle, ReloadOk
  <2>9. QED BY <2>2, <2>4, <2>6, <2>7, <2>8, ReloadKeeps
<1>6. QED BY <1>1, <1>2, <1>3, <1>4, <1>5
-----------------------------------------------------------------------------
(***************************************************************************)
(* A request's handler.                                                    *)
(***************************************************************************)
Charged == Ledger!Charges({"none", "held", "booked", "void"})

\* A step of one handler, of which only that request's entries change.
HandlerStep(r) ==
  /\ UNCHANGED config
  /\ req' = [req EXCEPT ![r] = req'[r]] /\ charge' = [charge EXCEPT ![r] = charge'[r]]
  /\ sent' = [sent EXCEPT ![r] = sent'[r]] /\ ev' = [ev EXCEPT ![r] = ev'[r]]
  /\ req'[r] \in Handlers /\ charge'[r] \in Charged
  /\ sent'[r] \in {"no", "raw", "redacted"} /\ ev'[r] \in [status : Statuses, cost : Nat]

LEMMA StepKeeps ==
  ASSUME GatewayInv, NEW r \in Requests, HandlerStep(r), RequestOk(r)'
  PROVE  GatewayInv'
<1>1. UNCHANGED <<hist, snap, reload, fresh, failClosed>>
  BY DEF HandlerStep, config
<1>2. Typed'
  BY <1>1 DEF GatewayInv, Typed, HandlerStep, Charged
<1>3. SnapFrom(snap, fresh)' /\ ReloadOk'
  BY <1>1 DEF GatewayInv, SnapFrom, ReloadOk
<1>4. ASSUME NEW q \in Requests, q # r PROVE RequestOk(q)'
  <2>1. req'[q] = req[q] /\ charge'[q] = charge[q] /\ sent'[q] = sent[q] /\ ev'[q] = ev[q]
    BY <1>4 DEF GatewayInv, Typed, HandlerStep
  <2>2. RequestOk(q)
    BY DEF GatewayInv
  <2>3. QED BY <1>1, <2>1, <2>2 DEF RequestOk, SnapFrom, Allowed, HeldCharge
<1>5. QED BY <1>2, <1>3, <1>4 DEF GatewayInv

\* A snapshot stays as old as it is.
LEMMA SnapKept ==
  ASSUME NEW r, NEW s, NEW n, SnapFrom(s, n), hist' = hist, req'[r].snap = s, req'[r].since = n
  PROVE  SnapFrom(req[r].snap, req[r].since)'
<1>1. PICK i, j, l \in n..Len(hist) : s.keys = hist[i].keys /\ s.dlp = hist[j].dlp /\ s.tools = hist[l].tools
  BY DEF SnapFrom
<1>2. /\ i \in (req'[r].since)..Len(hist') /\ j \in (req'[r].since)..Len(hist') /\ l \in (req'[r].since)..Len(hist')
      /\ req'[r].snap.keys = hist'[i].keys /\ req'[r].snap.dlp = hist'[j].dlp /\ req'[r].snap.tools = hist'[l].tools
  BY <1>1
<1>3. QED BY <1>2 DEF SnapFrom

\* The facts every handler step starts from.
LEMMA AtRequest ==
  ASSUME GatewayInv, NEW r \in Requests
  PROVE  /\ req \in [Requests -> Handlers] /\ req[r] \in Handlers /\ RequestOk(r)
         /\ charge \in [Requests -> Charged] /\ charge[r] \in Charged
         /\ sent \in [Requests -> {"no", "raw", "redacted"}] /\ sent[r] \in {"no", "raw", "redacted"}
         /\ ev \in [Requests -> [status : Statuses, cost : Nat]] /\ ev[r] \in [status : Statuses, cost : Nat]
         /\ fresh \in 1..Len(hist) /\ snap \in Snapshots /\ SnapFrom(snap, fresh)
         /\ Len(hist) \in Nat
BY DEF GatewayInv, Typed, Charged

LEMMA ArriveStep ==
  ASSUME GatewayInv, NEW r \in Requests, Arrive(r) PROVE GatewayInv'
<1> DEFINE h == [req[r] EXCEPT !.at = IF snap.keys[KeyOf[r]].live THEN "policy" ELSE "done",
                               !.snap = snap, !.since = fresh]
<1>0. /\ req \in [Requests -> Handlers] /\ req[r] \in Handlers /\ RequestOk(r)
      /\ charge \in [Requests -> Charged] /\ charge[r] \in Charged
      /\ sent \in [Requests -> {"no", "raw", "redacted"}] /\ sent[r] \in {"no", "raw", "redacted"}
      /\ ev \in [Requests -> [status : Statuses, cost : Nat]] /\ ev[r] \in [status : Statuses, cost : Nat]
      /\ fresh \in 1..Len(hist) /\ snap \in Snapshots /\ SnapFrom(snap, fresh) /\ Len(hist) \in Nat
  BY AtRequest
<1>1. /\ req[r].at = "idle" /\ UNCHANGED <<config, charge, sent, ev>>
      /\ req' = [req EXCEPT ![r] = h]
  BY DEF Arrive
<1>2. /\ h \in Handlers /\ h.at \in {"policy", "done"} /\ (h.at = "policy" => snap.keys[KeyOf[r]].live)
      /\ h.snap = snap /\ h.since = fresh /\ h.held = req[r].held /\ h.cost = req[r].cost
  <2>1. fresh \in Nat
    BY <1>0
  <2>2. CASE snap.keys[KeyOf[r]].live
    <3>1. h = [req[r] EXCEPT !.at = "policy", !.snap = snap, !.since = fresh]
      BY <2>2
    <3> HIDE DEF h
    <3>2. QED BY <1>0, <2>1, <2>2, <3>1 DEF Handlers, Stages
  <2>3. CASE ~ snap.keys[KeyOf[r]].live
    <3>1. h = [req[r] EXCEPT !.at = "done", !.snap = snap, !.since = fresh]
      BY <2>3
    <3> HIDE DEF h
    <3>2. QED BY <1>0, <2>1, <2>3, <3>1 DEF Handlers, Stages
  <2>4. QED BY <2>2, <2>3
<1> HIDE DEF h
<1>3. req'[r] = h /\ UNCHANGED <<hist, charge, sent, ev>>
  BY <1>0, <1>1 DEF config
<1>4. HandlerStep(r)
  BY <1>0, <1>1, <1>2, <1>3 DEF HandlerStep
<1>5. SnapFrom(req[r].snap, req[r].since)'
  BY <1>0, <1>2, <1>3, SnapKept
<1>6. sent[r] = "no" /\ ~ req[r].held /\ charge[r].st = "none"
  BY <1>0, <1>1 DEF RequestOk
<1>7. RequestOk(r)'
  BY <1>0, <1>2, <1>3, <1>5, <1>6 DEF RequestOk
<1>8. QED BY <1>4, <1>7, StepKeeps

\* Every later step leaves the request with the snapshot it arrived with.
LEMMA LaterStep ==
  ASSUME GatewayInv, NEW r \in Requests, HandlerStep(r), req[r].at # "idle",
         req'[r].snap = req[r].snap, req'[r].since = req[r].since,
         req'[r].at \notin {"idle", "policy"},
         req'[r].at = "reserve" => sent'[r] = "no" /\ ~ req'[r].held,
         req'[r].at \in {"reserve", "proxy", "wait", "settle", "emit"} \/ sent'[r] # "no" \/ charge'[r].st # "none"
           => /\ req[r].snap.keys[KeyOf[r]].live /\ Verdict(req[r].snap, r) = "pass"
              /\ sent'[r] \in {"no", Body(req[r].snap, r)},
         ~ req'[r].held => charge'[r].st = "none",
         req'[r].held /\ req'[r].at \in {"proxy", "wait", "settle"} => charge'[r] = HeldCharge(r),
         req'[r].held /\ req'[r].at = "emit" => Ledger!Counted(charge'[r], 0) = req'[r].cost,
         req'[r].held /\ req'[r].at = "done" => Ledger!Counted(charge'[r], 0) = ev'[r].cost
  PROVE  GatewayInv'
<1>1. /\ req[r].snap \in Snapshots /\ req[r].since \in 1..Len(hist) /\ SnapFrom(req[r].snap, req[r].since)
  BY AtRequest DEF RequestOk
<1>2. hist' = hist
  BY DEF HandlerStep, config
<1>3. SnapFrom(req[r].snap, req[r].since)'
  BY <1>1, <1>2, SnapKept
<1>4. HeldCharge(r)' = HeldCharge(r)
  BY DEF HeldCharge
<1>5. RequestOk(r)'
  BY <1>1, <1>2, <1>3, <1>4 DEF RequestOk, Allowed
<1>6. QED BY <1>5, StepKeeps

LEMMA MalformedStep ==
  ASSUME GatewayInv, NEW r \in Requests, Malformed(r) PROVE GatewayInv'
<1>0. /\ req \in [Requests -> Handlers] /\ req[r] \in Handlers /\ RequestOk(r)
      /\ charge \in [Requests -> Charged] /\ charge[r] \in Charged
      /\ sent \in [Requests -> {"no", "raw", "redacted"}] /\ sent[r] \in {"no", "raw", "redacted"}
      /\ ev \in [Requests -> [status : Statuses, cost : Nat]] /\ ev[r] \in [status : Statuses, cost : Nat]
  BY AtRequest
<1>1. /\ req[r].at = "policy" /\ UNCHANGED <<config, charge, sent, ev>>
      /\ req' = [req EXCEPT ![r].at = "done"]
  BY DEF Malformed
<1>2. /\ req'[r] \in Handlers /\ req'[r].snap = req[r].snap /\ req'[r].since = req[r].since
      /\ req'[r].at = "done" /\ req'[r].held = req[r].held
      /\ req' = [req EXCEPT ![r] = req'[r]]
  BY <1>0, <1>1 DEF Handlers, Stages
<1>3. HandlerStep(r)
  BY <1>0, <1>1, <1>2 DEF HandlerStep
<1>4. sent'[r] = "no" /\ ~ req'[r].held /\ charge'[r].st = "none"
  BY <1>0, <1>1, <1>2 DEF RequestOk
<1>5. QED BY <1>0, <1>1, <1>2, <1>3, <1>4, LaterStep

\* A request that is turned away has neither been sent nor holds anything.
LEMMA BlockStep ==
  ASSUME GatewayInv, NEW r \in Requests, NEW status \in Statuses, Block(r, status),
         req[r].at \in {"policy", "reserve"}
  PROVE  GatewayInv'
<1>0. /\ req \in [Requests -> Handlers] /\ req[r] \in Handlers /\ RequestOk(r)
      /\ charge \in [Requests -> Charged] /\ charge[r] \in Charged
      /\ sent \in [Requests -> {"no", "raw", "redacted"}] /\ sent[r] \in {"no", "raw", "redacted"}
      /\ ev \in [Requests -> [status : Statuses, cost : Nat]] /\ ev[r] \in [status : Statuses, cost : Nat]
  BY AtRequest
<1>1. /\ UNCHANGED <<config, charge, sent>> /\ req' = [req EXCEPT ![r].at = "done"]
      /\ ev' = [ev EXCEPT ![r] = [status |-> status, cost |-> 0]]
  BY DEF Block
<1>2. /\ req'[r] \in Handlers /\ req'[r].snap = req[r].snap /\ req'[r].since = req[r].since
      /\ req'[r].at = "done" /\ req'[r].held = req[r].held
      /\ req' = [req EXCEPT ![r] = req'[r]]
  BY <1>0, <1>1 DEF Handlers, Stages
<1>3. ev'[r] \in [status : Statuses, cost : Nat] /\ ev' = [ev EXCEPT ![r] = ev'[r]]
  BY <1>0, <1>1
<1>4. HandlerStep(r)
  BY <1>0, <1>1, <1>2, <1>3 DEF HandlerStep
<1>5. sent'[r] = "no" /\ ~ req'[r].held /\ charge'[r].st = "none"
  BY <1>0, <1>1, <1>2 DEF RequestOk
<1>6. QED BY <1>0, <1>1, <1>2, <1>4, <1>5, LaterStep

\* Every verdict is a status.
LEMMA VerdictIsStatus ==
  ASSUME NEW s, NEW r PROVE Verdict(s, r) \in Statuses
BY DEF Verdict, Statuses

LEMMA EvaluateStep ==
  ASSUME GatewayInv, NEW r \in Requests, Evaluate(r) PROVE GatewayInv'
<1>0. /\ req \in [Requests -> Handlers] /\ req[r] \in Handlers /\ RequestOk(r)
      /\ charge \in [Requests -> Charged] /\ charge[r] \in Charged
      /\ sent \in [Requests -> {"no", "raw", "redacted"}] /\ sent[r] \in {"no", "raw", "redacted"}
      /\ ev \in [Requests -> [status : Statuses, cost : Nat]] /\ ev[r] \in [status : Statuses, cost : Nat]
  BY AtRequest
<1>1. CASE Verdict(req[r].snap, r) # "pass"
  <2>1. Verdict(req[r].snap, r) \in Statuses
    BY VerdictIsStatus
  <2>2. req[r].at = "policy" /\ Block(r, Verdict(req[r].snap, r))
    BY <1>1 DEF Evaluate
  <2>3. QED BY <2>1, <2>2, BlockStep
<1>2. CASE Verdict(req[r].snap, r) = "pass"
  <2>1. /\ req[r].at = "policy" /\ UNCHANGED <<config, charge, sent, ev>>
        /\ req' = [req EXCEPT ![r].at = "reserve"]
    BY <1>2 DEF Evaluate
  <2>2. /\ req'[r] \in Handlers /\ req'[r].snap = req[r].snap /\ req'[r].since = req[r].since
        /\ req'[r].at = "reserve" /\ req'[r].held = req[r].held
        /\ req' = [req EXCEPT ![r] = req'[r]]
    BY <1>0, <2>1 DEF Handlers, Stages
  <2>3. HandlerStep(r)
    BY <1>0, <2>1, <2>2 DEF HandlerStep
  <2>4. sent'[r] = "no" /\ ~ req'[r].held /\ charge'[r].st = "none" /\ req[r].snap.keys[KeyOf[r]].live
    BY <1>0, <2>1, <2>2 DEF RequestOk
  <2>5. QED BY <1>0, <1>2, <2>1, <2>2, <2>3, <2>4, LaterStep
<1>3. QED BY <1>1, <1>2

\* An estimate is a natural number.
LEMMA EstimateNat ==
  ASSUME NEW s \in Snapshots, NEW r \in Requests PROVE Estimate(s, r) \in Nat
<1>1. s.prices \in Nat /\ Shape[r].maxTokens \in Nat /\ DefaultReserve \in Nat
  BY GatewayAssumption DEF Snapshots
<1>2. \A m, p \in Nat : m * p \in Nat
  OBVIOUS
<1>3. Shape[r].maxTokens * s.prices \in Nat
  BY <1>1, <1>2
<1>4. QED BY <1>1, <1>3 DEF Estimate

LEMMA ReserveHoldsStep ==
  ASSUME GatewayInv, NEW r \in Requests, ReserveHolds(r) PROVE GatewayInv'
<1>0. /\ req \in [Requests -> Handlers] /\ req[r] \in Handlers /\ RequestOk(r)
      /\ charge \in [Requests -> Charged] /\ charge[r] \in Charged
      /\ sent \in [Requests -> {"no", "raw", "redacted"}] /\ sent[r] \in {"no", "raw", "redacted"}
      /\ ev \in [Requests -> [status : Statuses, cost : Nat]] /\ ev[r] \in [status : Statuses, cost : Nat]
  BY AtRequest
<1>1. /\ req[r].at = "reserve" /\ UNCHANGED <<config, sent, ev>>
      /\ req' = [req EXCEPT ![r].at = "proxy", ![r].held = TRUE]
      /\ charge' = [charge EXCEPT ![r] = HeldCharge(r)]
  BY DEF ReserveHolds, HeldCharge
<1>2. /\ req'[r] \in Handlers /\ req'[r].snap = req[r].snap /\ req'[r].since = req[r].since
      /\ req'[r].at = "proxy" /\ req'[r].held
      /\ req' = [req EXCEPT ![r] = req'[r]]
  BY <1>0, <1>1 DEF Handlers, Stages
<1>3. HeldCharge(r) \in Charged
  <2>1. Estimate(req[r].snap, r) \in Nat
    BY <1>0, <1>1, EstimateNat DEF RequestOk
  <2>2. QED BY <2>1 DEF HeldCharge, Charged, Ledger!Charges
<1>4. charge'[r] = HeldCharge(r) /\ charge' = [charge EXCEPT ![r] = charge'[r]]
  BY <1>0, <1>1
<1>5. HandlerStep(r)
  BY <1>0, <1>1, <1>2, <1>3, <1>4 DEF HandlerStep
<1>6. Allowed(r) /\ sent'[r] = sent[r]
  BY <1>0, <1>1 DEF RequestOk
<1>7. QED BY <1>0, <1>1, <1>2, <1>4, <1>5, <1>6, LaterStep DEF Allowed

LEMMA ReserveRejectsStep ==
  ASSUME GatewayInv, NEW r \in Requests, ReserveRejects(r) PROVE GatewayInv'
<1>1. req[r].at \in {"policy", "reserve"}
  BY DEF ReserveRejects
<1>2. Block(r, "blocked_budget") \/ Block(r, "blocked_rate")
  BY Zenon DEF ReserveRejects
<1>3. "blocked_budget" \in Statuses /\ "blocked_rate" \in Statuses
  BY DEF Statuses
<1>4. CASE Block(r, "blocked_budget")
  BY <1>1, <1>3, <1>4, BlockStep
<1>5. CASE Block(r, "blocked_rate")
  BY <1>1, <1>3, <1>5, BlockStep
<1>6. QED BY <1>2, <1>4, <1>5

LEMMA ReserveFailsOpenStep ==
  ASSUME GatewayInv, NEW r \in Requests, ReserveFailsOpen(r) PROVE GatewayInv'
<1>0. /\ req \in [Requests -> Handlers] /\ req[r] \in Handlers /\ RequestOk(r)
      /\ charge \in [Requests -> Charged] /\ charge[r] \in Charged
      /\ sent \in [Requests -> {"no", "raw", "redacted"}] /\ sent[r] \in {"no", "raw", "redacted"}
      /\ ev \in [Requests -> [status : Statuses, cost : Nat]] /\ ev[r] \in [status : Statuses, cost : Nat]
  BY AtRequest
<1>1. /\ req[r].at = "reserve" /\ UNCHANGED <<config, charge, sent, ev>>
      /\ req' = [req EXCEPT ![r].at = "proxy"]
  BY DEF ReserveFailsOpen
<1>2. /\ req'[r] \in Handlers /\ req'[r].snap = req[r].snap /\ req'[r].since = req[r].since
      /\ req'[r].at = "proxy" /\ req'[r].held = req[r].held
      /\ req' = [req EXCEPT ![r] = req'[r]]
  BY <1>0, <1>1 DEF Handlers, Stages
<1>3. HandlerStep(r)
  BY <1>0, <1>1, <1>2 DEF HandlerStep
<1>4. Allowed(r) /\ sent'[r] = sent[r] /\ charge'[r] = charge[r] /\ ~ req[r].held /\ charge[r].st = "none"
  BY <1>0, <1>1 DEF RequestOk
<1>5. QED BY <1>0, <1>1, <1>2, <1>3, <1>4, LaterStep DEF Allowed

\* Steps of a handler between its reservation and its settlement: the body they
\* send is the one the request's own snapshot asks for, and the charge stays.
LEMMA UpstreamStep ==
  ASSUME GatewayInv, NEW r \in Requests, NEW h \in Handlers, NEW b \in {sent[r], Body(req[r].snap, r)},
         req[r].at \in {"proxy", "wait"}, h.at \in {"wait", "settle"},
         h.snap = req[r].snap, h.since = req[r].since, h.held = req[r].held,
         req' = [req EXCEPT ![r] = h], sent' = [sent EXCEPT ![r] = b], UNCHANGED <<config, charge, ev>>
  PROVE  GatewayInv'
<1>0. /\ req \in [Requests -> Handlers] /\ req[r] \in Handlers /\ RequestOk(r)
      /\ charge \in [Requests -> Charged] /\ charge[r] \in Charged
      /\ sent \in [Requests -> {"no", "raw", "redacted"}] /\ sent[r] \in {"no", "raw", "redacted"}
      /\ ev \in [Requests -> [status : Statuses, cost : Nat]] /\ ev[r] \in [status : Statuses, cost : Nat]
  BY AtRequest
<1>1. Allowed(r) /\ (~ req[r].held => charge[r].st = "none") /\ (req[r].held => charge[r] = HeldCharge(r))
  BY <1>0 DEF RequestOk
<1>2. b \in {"no", "raw", "redacted"} /\ b \in {"no", Body(req[r].snap, r)}
  BY <1>0, <1>1 DEF Allowed, Body
<1>3. req'[r] = h /\ sent'[r] = b /\ charge'[r] = charge[r] /\ ev'[r] = ev[r]
  BY <1>0
<1>4. HandlerStep(r)
  BY <1>0, <1>2, <1>3 DEF HandlerStep
<1>5. QED BY <1>1, <1>2, <1>3, <1>4, LaterStep DEF Allowed

LEMMA DispatchStep ==
  ASSUME GatewayInv, NEW r \in Requests, Dispatch(r) PROVE GatewayInv'
<1>0. /\ req \in [Requests -> Handlers] /\ req[r] \in Handlers /\ RequestOk(r)
      /\ charge \in [Requests -> Charged] /\ charge[r] \in Charged
      /\ sent \in [Requests -> {"no", "raw", "redacted"}] /\ sent[r] \in {"no", "raw", "redacted"}
      /\ ev \in [Requests -> [status : Statuses, cost : Nat]] /\ ev[r] \in [status : Statuses, cost : Nat]
  BY AtRequest
<1> DEFINE h == [req[r] EXCEPT !.at = "wait"]
<1>1. /\ req[r].at = "proxy" /\ UNCHANGED <<config, charge, ev>>
      /\ req' = [req EXCEPT ![r] = h] /\ sent' = [sent EXCEPT ![r] = Body(req[r].snap, r)]
  BY DEF Dispatch
<1>2. /\ h \in Handlers /\ h.at = "wait" /\ h.snap = req[r].snap /\ h.since = req[r].since
      /\ h.held = req[r].held
  BY <1>0 DEF Handlers, Stages
<1> HIDE DEF h
<1>3. QED BY <1>1, <1>2, UpstreamStep

\* The upstream call has ended.
LEMMA ResultStep ==
  ASSUME GatewayInv, NEW r \in Requests, NEW result \in Statuses, NEW u \in Nat,
         req[r].at \in {"proxy", "wait"}, Result(r, result, u),
         sent' = sent \/ sent' = [sent EXCEPT ![r] = Body(req[r].snap, r)], UNCHANGED <<config, charge, ev>>
  PROVE  GatewayInv'
<1>0. /\ req \in [Requests -> Handlers] /\ req[r] \in Handlers /\ RequestOk(r)
      /\ charge \in [Requests -> Charged] /\ charge[r] \in Charged
      /\ sent \in [Requests -> {"no", "raw", "redacted"}] /\ sent[r] \in {"no", "raw", "redacted"}
      /\ ev \in [Requests -> [status : Statuses, cost : Nat]] /\ ev[r] \in [status : Statuses, cost : Nat]
  BY AtRequest
<1> DEFINE h == [req[r] EXCEPT !.at = "settle", !.result = result, !.usage = u]
<1>1. req' = [req EXCEPT ![r] = h]
  BY DEF Result
<1>2. h \in Handlers /\ h.at = "settle" /\ h.snap = req[r].snap /\ h.since = req[r].since /\ h.held = req[r].held
  BY <1>0 DEF Handlers, Stages
<1> HIDE DEF h
<1>3. CASE sent' = sent
  <2>1. sent' = [sent EXCEPT ![r] = sent[r]]
    BY <1>0, <1>3
  <2>2. QED BY <1>1, <1>2, <2>1, UpstreamStep
<1>4. CASE sent' = [sent EXCEPT ![r] = Body(req[r].snap, r)]
  BY <1>1, <1>2, <1>4, UpstreamStep
<1>5. QED BY <1>3, <1>4

LEMMA DispatchFailsStep ==
  ASSUME GatewayInv, NEW r \in Requests, DispatchFails(r) PROVE GatewayInv'
<1>1. /\ req[r].at \in {"proxy", "wait"} /\ Result(r, "upstream_error", 0) /\ UNCHANGED <<config, charge, ev>>
      /\ sent' = sent \/ sent' = [sent EXCEPT ![r] = Body(req[r].snap, r)]
  BY DEF DispatchFails
<1>2. "upstream_error" \in Statuses /\ 0 \in Nat
  BY DEF Statuses
<1>3. QED BY <1>1, <1>2, ResultStep

LEMMA BufferedStep ==
  ASSUME GatewayInv, NEW r \in Requests, Buffered(r) PROVE GatewayInv'
<1>1. PICK result \in {"ok", "upstream_error"}, u \in Tokens \cup {0} : Result(r, result, u)
  BY DEF Buffered
<1>2. result \in Statuses /\ u \in Nat
  BY GatewayAssumption DEF Statuses
<1>3. req[r].at \in {"proxy", "wait"} /\ UNCHANGED <<config, charge, sent, ev>>
  BY DEF Buffered
<1>4. QED BY <1>1, <1>2, <1>3, ResultStep

LEMMA StreamEndsStep ==
  ASSUME GatewayInv, NEW r \in Requests, StreamEnds(r) PROVE GatewayInv'
<1>1. PICK result \in {"ok", "upstream_error", "client_error"} : Result(r, result, req[r].usage)
  BY DEF StreamEnds
<1>2. result \in Statuses /\ req[r].usage \in Nat
  BY AtRequest DEF Handlers, Statuses
<1>3. req[r].at \in {"proxy", "wait"} /\ UNCHANGED <<config, charge, sent, ev>>
  BY DEF StreamEnds
<1>4. QED BY <1>1, <1>2, <1>3, ResultStep

LEMMA ChunkStep ==
  ASSUME GatewayInv, NEW r \in Requests, Chunk(r) PROVE GatewayInv'
<1>0. /\ req \in [Requests -> Handlers] /\ req[r] \in Handlers /\ RequestOk(r)
      /\ charge \in [Requests -> Charged] /\ charge[r] \in Charged
      /\ sent \in [Requests -> {"no", "raw", "redacted"}] /\ sent[r] \in {"no", "raw", "redacted"}
      /\ ev \in [Requests -> [status : Statuses, cost : Nat]] /\ ev[r] \in [status : Statuses, cost : Nat]
  BY AtRequest
<1>1. PICK u \in Tokens : req' = [req EXCEPT ![r].usage = u]
  BY DEF Chunk
<1>2. u \in Nat /\ req[r].at = "wait" /\ UNCHANGED <<config, charge, sent, ev>>
  BY GatewayAssumption DEF Chunk
<1> DEFINE h == [req[r] EXCEPT !.usage = u]
<1>3. /\ h \in Handlers /\ h.at = "wait" /\ h.snap = req[r].snap /\ h.since = req[r].since
      /\ h.held = req[r].held
  BY <1>0, <1>2 DEF Handlers
<1>4. req' = [req EXCEPT ![r] = h] /\ sent' = [sent EXCEPT ![r] = sent[r]]
  BY <1>0, <1>1, <1>2
<1> HIDE DEF h
<1>5. QED BY <1>2, <1>3, <1>4, UpstreamStep

\* What a request costs is a natural number.
LEMMA CostNat ==
  ASSUME NEW r, req[r].snap \in Snapshots, req[r].usage \in Nat PROVE Cost(r) \in Nat
<1>1. req[r].snap.prices \in Nat
  BY GatewayAssumption DEF Snapshots
<1>2. \A m, p \in Nat : m * p \in Nat
  OBVIOUS
<1>3. req[r].usage * req[r].snap.prices \in Nat
  BY <1>1, <1>2
<1>4. QED BY <1>3 DEF Cost

\* Commit books the cost that Emit will report, Release leaves none.
LEMMA SettleStep ==
  ASSUME GatewayInv, NEW r \in Requests, Settle(r) PROVE GatewayInv'
<1>0. /\ req \in [Requests -> Handlers] /\ req[r] \in Handlers /\ RequestOk(r)
      /\ charge \in [Requests -> Charged] /\ charge[r] \in Charged
      /\ sent \in [Requests -> {"no", "raw", "redacted"}] /\ sent[r] \in {"no", "raw", "redacted"}
      /\ ev \in [Requests -> [status : Statuses, cost : Nat]] /\ ev[r] \in [status : Statuses, cost : Nat]
  BY AtRequest
<1> DEFINE h == [req[r] EXCEPT !.at = "emit", !.cost = Cost(r)]
           c == IF ~ req[r].held THEN charge[r]
                ELSE IF req[r].result = "ok" THEN [st |-> "booked", month |-> 0, amt |-> Cost(r)]
                ELSE Ledger!VoidCharge
<1>1. /\ req[r].at = "settle" /\ UNCHANGED <<config, sent, ev>> /\ req' = [req EXCEPT ![r] = h]
  BY DEF Settle
<1>2. Allowed(r) /\ (~ req[r].held => charge[r].st = "none")
  BY <1>0, <1>1 DEF RequestOk
<1>3. Cost(r) \in Nat
  BY <1>0, <1>1, CostNat DEF RequestOk, Handlers
<1>4. /\ h \in Handlers /\ h.at = "emit" /\ h.snap = req[r].snap /\ h.since = req[r].since
      /\ h.held = req[r].held /\ h.cost = Cost(r)
  BY <1>0, <1>3 DEF Handlers, Stages
<1>5. charge' = [charge EXCEPT ![r] = c]
  <2>1. CASE ~ req[r].held
    BY <1>0, <2>1 DEF Settle
  <2>2. CASE req[r].held /\ req[r].result = "ok"
    BY <1>0, <2>2 DEF Settle
  <2>3. CASE req[r].held /\ req[r].result # "ok"
    BY <1>0, <2>3 DEF Settle
  <2>4. QED BY <2>1, <2>2, <2>3
<1>6. /\ c \in Charged /\ (~ req[r].held => c.st = "none")
      /\ (req[r].held => Ledger!Counted(c, 0) = Cost(r))
  <2>1. CASE ~ req[r].held
    BY <1>0, <1>2, <2>1
  <2>2. CASE req[r].held /\ req[r].result = "ok"
    <3>1. c = [st |-> "booked", month |-> 0, amt |-> Cost(r)]
      BY <2>2
    <3>2. QED BY <1>3, <2>2, <3>1 DEF Charged, Ledger!Charges, Ledger!Counted
  <2>3. CASE req[r].held /\ req[r].result # "ok"
    <3>1. c = Ledger!VoidCharge /\ Cost(r) = 0
      BY <2>3 DEF Cost
    <3>2. QED BY <2>3, <3>1 DEF Charged, Ledger!Charges, Ledger!Counted, Ledger!VoidCharge
  <2>4. QED BY <2>1, <2>2, <2>3
<1> HIDE DEF h, c
<1>7. req'[r] = h /\ charge'[r] = c /\ sent'[r] = sent[r] /\ ev'[r] = ev[r]
  BY <1>0, <1>1, <1>5
<1>8. HandlerStep(r)
  BY <1>0, <1>1, <1>4, <1>5, <1>6, <1>7 DEF HandlerStep
<1>9. QED BY <1>1, <1>2, <1>4, <1>6, <1>7, <1>8, LaterStep DEF Allowed

LEMMA EmitStep ==
  ASSUME GatewayInv, NEW r \in Requests, Emit(r) PROVE GatewayInv'
<1>0. /\ req \in [Requests -> Handlers] /\ req[r] \in Handlers /\ RequestOk(r)
      /\ charge \in [Requests -> Charged] /\ charge[r] \in Charged
      /\ sent \in [Requests -> {"no", "raw", "redacted"}] /\ sent[r] \in {"no", "raw", "redacted"}
      /\ ev \in [Requests -> [status : Statuses, cost : Nat]] /\ ev[r] \in [status : Statuses, cost : Nat]
  BY AtRequest
<1>1. /\ req[r].at = "emit" /\ UNCHANGED <<config, charge, sent>> /\ req' = [req EXCEPT ![r].at = "done"]
      /\ ev' = [ev EXCEPT ![r] = [status |-> req[r].result, cost |-> req[r].cost]]
  BY DEF Emit
<1>2. /\ req'[r] \in Handlers /\ req'[r].snap = req[r].snap /\ req'[r].since = req[r].since
      /\ req'[r].at = "done" /\ req'[r].held = req[r].held
      /\ req' = [req EXCEPT ![r] = req'[r]]
  BY <1>0, <1>1 DEF Handlers, Stages
<1>3. /\ ev'[r] \in [status : Statuses, cost : Nat] /\ ev'[r].cost = req[r].cost
      /\ ev' = [ev EXCEPT ![r] = ev'[r]]
  BY <1>0, <1>1 DEF Handlers
<1>4. HandlerStep(r)
  BY <1>0, <1>1, <1>2, <1>3 DEF HandlerStep
<1>5. /\ Allowed(r) /\ (~ req[r].held => charge[r].st = "none")
      /\ (req[r].held => Ledger!Counted(charge[r], 0) = req[r].cost)
  BY <1>0, <1>1 DEF RequestOk
<1>6. sent'[r] = sent[r] /\ charge'[r] = charge[r]
  BY <1>1
<1>7. QED BY <1>1, <1>2, <1>3, <1>4, <1>5, <1>6, LaterStep DEF Allowed
-----------------------------------------------------------------------------
(***************************************************************************)
(* The other steps, and the invariant.                                     *)
(***************************************************************************)
\* A restart leaves the requests in flight dead, with whatever charge they have.
LEMMA CrashStep ==
  ASSUME GatewayInv, Crash PROVE GatewayInv'
<1>0. /\ Typed /\ hist \in Seq(TableStates) /\ fresh \in 1..Len(hist) /\ Len(hist) \in Nat
      /\ req \in [Requests -> Handlers]
  BY DEF GatewayInv, Typed
<1>1. PICK p \in Prices : snap' = Loaded(hist[1], p)
  BY DEF Crash
<1>2. /\ reload' = Boot /\ fresh' = 1 /\ UNCHANGED <<hist, failClosed, charge, sent, ev>>
      /\ req' = [r \in Requests |-> IF InFlight(r) THEN [req[r] EXCEPT !.at = "dead"] ELSE req[r]]
  BY DEF Crash
<1>3. 1 \in 1..Len(hist) /\ hist[1] \in TableStates
  BY <1>0
<1>4. snap' \in Snapshots /\ snap'.keys = hist[1].keys /\ snap'.dlp = hist[1].dlp /\ snap'.tools = hist[1].tools
  BY <1>1, <1>3 DEF Loaded, Snapshots, TableStates
<1>5. SnapFrom(snap, fresh)'
  <2>1. 1 \in fresh'..Len(hist') /\ hist'[1] = hist[1]
    BY <1>2, <1>3
  <2>2. snap'.keys = hist'[1].keys /\ snap'.dlp = hist'[1].dlp /\ snap'.tools = hist'[1].tools
    BY <1>4, <2>1
  <2>3. QED BY <2>1, <2>2 DEF SnapFrom
<1>6. reload' \in Reloads /\ ReloadOk'
  BY <1>2 DEF Reloads, Boot, Idle, ReloadOk
<1>7. ASSUME NEW r \in Requests
      PROVE  /\ req'[r] \in Handlers /\ req'[r].snap = req[r].snap /\ req'[r].since = req[r].since
             /\ req'[r].held = req[r].held /\ req'[r].cost = req[r].cost
             /\ (req'[r].at = "dead" /\ req[r].at # "idle") \/ req'[r] = req[r]
  <2>1. req[r] \in Handlers
    BY <1>0
  <2>2. CASE InFlight(r)
    <3>1. req'[r] = [req[r] EXCEPT !.at = "dead"] /\ req[r].at # "idle"
      BY <1>2, <2>2 DEF InFlight
    <3>2. QED BY <2>1, <3>1 DEF Handlers, Stages
  <2>3. CASE ~ InFlight(r)
    BY <1>2, <2>1, <2>3
  <2>4. QED BY <2>2, <2>3
<1>8. ASSUME NEW r \in Requests PROVE RequestOk(r)'
  <2>0. RequestOk(r)
    BY DEF GatewayInv
  <2>1. CASE req'[r] = req[r]
    <3>1. hist' = hist /\ charge'[r] = charge[r] /\ sent'[r] = sent[r] /\ ev'[r] = ev[r]
      BY <1>2
    <3>2. QED BY <2>0, <2>1, <3>1 DEF RequestOk, SnapFrom, Allowed, HeldCharge
  <2>2. CASE req'[r].at = "dead" /\ req[r].at # "idle"
    <3>1. req[r].snap \in Snapshots /\ req[r].since \in 1..Len(hist) /\ SnapFrom(req[r].snap, req[r].since)
      BY <2>0, <2>2 DEF RequestOk
    <3>2. SnapFrom(req[r].snap, req[r].since)'
      BY <1>2, <1>7, <3>1, SnapKept
    <3>3. sent[r] # "no" \/ charge[r].st # "none" => Allowed(r)
      BY <2>0 DEF RequestOk
    <3>4. sent[r] # "no" \/ charge[r].st # "none" => Allowed(r)'
      BY <1>2, <1>7, <3>3 DEF Allowed
    <3>5. ~ req[r].held => charge[r].st = "none"
      BY <2>0 DEF RequestOk
    <3>6. QED BY <1>2, <1>7, <2>2, <3>1, <3>2, <3>4, <3>5 DEF RequestOk
  <2>3. QED BY <1>7, <2>1, <2>2
<1>9. Typed'
  <2>1. req' \in [Requests -> Handlers]
    BY <1>2, <1>7
  <2>2. QED BY <1>0, <1>2, <1>3, <1>4, <1>6, <2>1 DEF Typed
<1>10. QED BY <1>5, <1>6, <1>8, <1>9 DEF GatewayInv

\* What an administrator writes is a state of the tables again.
LEMMA AdminSteps ==
  ASSUME GatewayInv,
         \/ \E k \in Keys : UpdateKey(k) \/ RevokeKey(k)
         \/ \E p \in Policies : UpdatePolicy(p)
         \/ UpdateTools
  PROVE  GatewayInv'
<1>0. Tables \in TableStates
  BY CurrentTables DEF GatewayInv
<1>1. ASSUME NEW t \in TableStates, Change(t) PROVE GatewayInv'
  <2>1. hist' = Append(hist, t) /\ UNCHANGED <<snap, reload, fresh, failClosed, req, charge, sent, ev>>
    BY <1>1 DEF Change
  <2>2. QED BY <2>1, ChangeKeeps
<1>2. ASSUME NEW k \in Keys, UpdateKey(k) PROVE GatewayInv'
  <2>1. PICK row \in KeyRows : Change([Tables EXCEPT !.keys[k].row = row])
    BY <1>2 DEF UpdateKey
  <2>2. [Tables EXCEPT !.keys[k].row = row] \in TableStates
    BY <1>0 DEF TableStates, KeyTables
  <2>3. QED BY <1>1, <2>1, <2>2
<1>3. ASSUME NEW k \in Keys, RevokeKey(k) PROVE GatewayInv'
  <2>1. [Tables EXCEPT !.keys[k].live = FALSE] \in TableStates
    BY <1>0 DEF TableStates, KeyTables
  <2>2. QED BY <1>1, <1>3, <2>1 DEF RevokeKey
<1>4. ASSUME NEW p \in Policies, UpdatePolicy(p) PROVE GatewayInv'
  <2>1. PICK a \in PolicyRows : Change([Tables EXCEPT !.dlp[p] = a])
    BY <1>4 DEF UpdatePolicy
  <2>2. [Tables EXCEPT !.dlp[p] = a] \in TableStates
    BY <1>0 DEF TableStates, PolicyTables
  <2>3. QED BY <1>1, <2>1, <2>2
<1>5. CASE UpdateTools
  <2>1. PICK t \in ToolRows : Change([Tables EXCEPT !.tools = t])
    BY <1>5 DEF UpdateTools
  <2>2. [Tables EXCEPT !.tools = t] \in TableStates
    BY <1>0 DEF TableStates
  <2>3. QED BY <1>1, <2>1, <2>2
<1>6. QED BY <1>2, <1>3, <1>4, <1>5

LEMMA GatewayInvInit == Init => GatewayInv
<1> SUFFICES ASSUME Init PROVE GatewayInv
  OBVIOUS
<1>1. PICK t \in StartTables, p \in Prices : hist = <<t>> /\ snap = Loaded(t, p)
  BY DEF Init
<1>2. /\ reload = Boot /\ fresh = 1 /\ failClosed \in BOOLEAN
      /\ req = [r \in Requests |->
                  [at |-> "idle", snap |-> <<>>, since |-> 0, held |-> FALSE,
                   usage |-> 0, result |-> "none", cost |-> 0]]
      /\ charge = [r \in Requests |-> Ledger!NoCharge] /\ sent = [r \in Requests |-> "no"]
      /\ ev = [r \in Requests |-> NoEvent]
  BY DEF Init
<1>3. t \in TableStates
  BY GatewayAssumption DEF TableStates, KeyTables, PolicyTables
<1>4. hist \in Seq(TableStates) /\ Len(hist) = 1 /\ hist[1] = t
  BY <1>1, <1>3
<1>5. snap \in Snapshots /\ SnapFrom(snap, fresh)
  <2>1. snap \in Snapshots /\ snap.keys = hist[1].keys /\ snap.dlp = hist[1].dlp /\ snap.tools = hist[1].tools
    BY <1>1, <1>3, <1>4 DEF Loaded, Snapshots, TableStates
  <2>2. 1 \in fresh..Len(hist)
    BY <1>2, <1>4
  <2>3. QED BY <2>1, <2>2 DEF SnapFrom
<1>6. reload \in Reloads /\ ReloadOk
  BY <1>2 DEF Reloads, Boot, Idle, ReloadOk
<1>7. req \in [Requests -> Handlers]
  BY <1>2 DEF Handlers, Stages, Statuses
<1>8. charge \in [Requests -> Charged]
  BY <1>2 DEF Charged, Ledger!Charges, Ledger!NoCharge
<1>9. ev \in [Requests -> [status : Statuses, cost : Nat]]
  BY <1>2 DEF NoEvent, Statuses
<1>10. Typed
  BY <1>2, <1>4, <1>5, <1>6, <1>7, <1>8, <1>9 DEF Typed, Charged
<1>11. ASSUME NEW r \in Requests PROVE RequestOk(r)
  BY <1>2 DEF RequestOk, Ledger!NoCharge
<1>12. QED BY <1>5, <1>6, <1>10, <1>11 DEF GatewayInv

LEMMA HandlerSteps ==
  ASSUME GatewayInv, NEW r \in Requests, Arrive(r) \/ Handler(r) \/ Response(r) \/ Chunk(r)
  PROVE  GatewayInv'
BY ArriveStep, MalformedStep, EvaluateStep, ReserveHoldsStep, ReserveRejectsStep, ReserveFailsOpenStep,
   DispatchStep, DispatchFailsStep, BufferedStep, StreamEndsStep, ChunkStep, SettleStep, EmitStep
   DEF Handler, Response

LEMMA Stutter ==
  ASSUME GatewayInv, UNCHANGED vars PROVE GatewayInv'
<1>1. UNCHANGED <<hist, snap, reload, fresh, failClosed, req, charge, sent, ev>>
  BY DEF vars, config
<1>2. /\ snap \in Snapshots /\ reload \in Reloads /\ fresh \in 1..Len(hist)
      /\ SnapFrom(snap, fresh) /\ ReloadOk
  BY DEF GatewayInv, Typed
<1>3. SnapFrom(snap, fresh)' /\ ReloadOk'
  BY <1>1, <1>2 DEF SnapFrom, ReloadOk
<1>4. QED BY <1>1, <1>2, <1>3, ReloadKeeps

LEMMA GatewayInvNext == GatewayInv /\ [Next]_vars => GatewayInv'
<1> SUFFICES ASSUME GatewayInv, [Next]_vars PROVE GatewayInv'
  OBVIOUS
<1>1. CASE UNCHANGED vars
  BY <1>1, Stutter
<1>2. CASE \/ \E k \in Keys : UpdateKey(k) \/ RevokeKey(k)
           \/ \E p \in Policies : UpdatePolicy(p)
           \/ UpdateTools
  BY <1>2, AdminSteps
<1>3. CASE LoadKeys \/ LoadPolicies \/ LoadTools \/ LoadFails \/ Swap
  BY <1>3, LoadSteps
<1>4. ASSUME NEW r \in Requests, Arrive(r) \/ Handler(r) \/ Response(r) \/ Chunk(r) PROVE GatewayInv'
  BY <1>4, HandlerSteps
<1>5. CASE Crash
  BY <1>5, CrashStep
<1>6. QED BY <1>1, <1>2, <1>3, <1>4, <1>5, Zenon DEF Next

\* The invariant holds throughout, for every value of the constants.
THEOREM GatewayInvAlways == Spec => []GatewayInv
BY GatewayInvInit, GatewayInvNext, PTL DEF Spec
-----------------------------------------------------------------------------
\* The types of the gateway's state: serveCanonical, ReloadConfig and the event
\* of each request never leave them.
THEOREM GatewayTypeCorrect == Spec => []TypeOK
<1>1. GatewayInv => TypeOK
  <2> SUFFICES ASSUME GatewayInv PROVE TypeOK
    OBVIOUS
  <2>1. Typed
    BY DEF GatewayInv
  <2>2. \A i \in DOMAIN hist : hist[i].keys \in [Keys -> [live : BOOLEAN, row : KeyRows]]
    <3>1. DOMAIN hist = 1..Len(hist) /\ \A i \in 1..Len(hist) : hist[i] \in TableStates
      BY <2>1 DEF Typed
    <3>2. QED BY <3>1 DEF TableStates, KeyTables
  <2>3. /\ snap.keys \in [Keys -> [live : BOOLEAN, row : KeyRows]]
        /\ snap.dlp \in [Policies -> PolicyRows] /\ snap.tools \in ToolRows /\ snap.prices \in Prices
    BY <2>1 DEF Typed, Snapshots, KeyTables, PolicyTables
  <2>4. reload.at \in {"idle", "policies", "tools", "swap"} /\ reload.boot \in BOOLEAN /\ fresh \in DOMAIN hist
    BY <2>1 DEF Typed, Reloads
  <2>5. ASSUME NEW r \in Requests
        PROVE  /\ req[r].at \in {"idle", "policy", "reserve", "proxy", "wait", "settle", "emit", "done", "dead"}
               /\ req[r].held \in BOOLEAN /\ req[r].usage \in Nat /\ req[r].cost \in Nat
    BY <2>1 DEF Typed, Handlers, Stages
  <2>6. QED BY <2>1, <2>2, <2>3, <2>4, <2>5 DEF Typed, TypeOK
<1>2. QED BY <1>1, GatewayInvAlways, PTL

\* Whatever is swapped in while a request runs, what its own snapshot blocks never
\* reaches an upstream or holds budget, and what it redacts never leaves raw
\* (serveCanonical's use of the snapshot that the handler loaded once).
THEOREM OneSnapshotJudges == Spec => []BlockedStaysInside
<1>1. GatewayInv => BlockedStaysInside
  BY DEF GatewayInv, RequestOk, Allowed, BlockedStaysInside
<1>2. QED BY <1>1, GatewayInvAlways, PTL

\* A snapshot decides by its tables alone, whatever its prices.
LEMMA TablesDecide ==
  ASSUME NEW s, NEW t, NEW r, s.keys = t.keys, s.dlp = t.dlp, s.tools = t.tools
  PROVE  Verdict(s, r) = Verdict(t, r) /\ Body(s, r) = Body(t, r)
<1>1. /\ ModelAllowed(s, r) <=> ModelAllowed(t, r)
      /\ ToolsAllowed(s, r) <=> ToolsAllowed(t, r)
      /\ DLPAction(s, r) = DLPAction(t, r)
  BY DEF ModelAllowed, ToolsAllowed, DLPAction, KeyRow
<1>2. QED BY <1>1 DEF Verdict, Body

\* Revoked keys and changed policies bind from the next completed load on: each of
\* the three parts a request was judged by was in force after the last load its
\* process had completed began (ConfigStore.Load, the reload ticker).
THEOREM ReloadsBind == Spec => []StalenessBounded
<1>1. GatewayInv => StalenessBounded
  <2> SUFFICES ASSUME GatewayInv, NEW r \in Requests, sent[r] # "no"
               PROVE  \E i, j, l \in req[r].since..Len(hist) : AllowedBy(Mixed(i, j, l), r)
    BY DEF StalenessBounded
  <2>1. RequestOk(r)
    BY DEF GatewayInv
  <2>2. Allowed(r) /\ req[r].at # "idle"
    BY <2>1 DEF RequestOk
  <2>3. SnapFrom(req[r].snap, req[r].since)
    BY <2>1, <2>2 DEF RequestOk
  <2>4. PICK i \in req[r].since..Len(hist), j \in req[r].since..Len(hist), l \in req[r].since..Len(hist) :
           req[r].snap.keys = hist[i].keys /\ req[r].snap.dlp = hist[j].dlp /\ req[r].snap.tools = hist[l].tools
    BY <2>3 DEF SnapFrom
  <2>5. /\ req[r].snap.keys = Mixed(i, j, l).keys /\ req[r].snap.dlp = Mixed(i, j, l).dlp
        /\ req[r].snap.tools = Mixed(i, j, l).tools
    BY <2>4 DEF Mixed
  <2>6. /\ Verdict(req[r].snap, r) = Verdict(Mixed(i, j, l), r)
        /\ Body(req[r].snap, r) = Body(Mixed(i, j, l), r)
    BY <2>5, TablesDecide
  <2>7. sent[r] = Body(req[r].snap, r)
    BY <2>2 DEF Allowed
  <2>8. AllowedBy(Mixed(i, j, l), r)
    BY <2>2, <2>5, <2>6, <2>7 DEF Allowed, AllowedBy
  <2>9. QED BY <2>8
<1>2. QED BY <1>1, GatewayInvAlways, PTL

(***************************************************************************)
(* The budget and the events.                                              *)
(***************************************************************************)
BookedCharge(r) == [st |-> "booked", month |-> 0, amt |-> req[r].cost]

\* SpendMatchesEvents is not inductive by itself: a charge must be known to be the estimate or the
\* cost of its request wherever the request dies, and an event to come with the last step only.
MoneyOk(r) ==
  /\ req[r].at # "done" => ev[r] = NoEvent
  /\ ev[r].status = "none" => ev[r].cost = 0
  /\ req[r].at \in {"settle", "emit"} => req[r].result # "none"
  /\ req[r].held /\ charge[r].st = "held" => charge[r] = HeldCharge(r)
  /\ req[r].held /\ charge[r].st = "booked" => charge[r] = BookedCharge(r)
  /\ req[r].held /\ req[r].at = "done" => ev[r].status # "none"
  /\ failClosed /\ (req[r].at \in {"proxy", "wait", "settle", "emit"} \/ sent[r] # "no") => req[r].held

Money == \A r \in Requests : MoneyOk(r)

LEMMA MoneyFrame ==
  ASSUME GatewayInv, Money, NEW r \in Requests, failClosed' = failClosed,
         \A q \in Requests : q # r => /\ req'[q] = req[q] /\ charge'[q] = charge[q]
                                      /\ sent'[q] = sent[q] /\ ev'[q] = ev[q],
         MoneyOk(r)'
  PROVE  Money'
<1>1. ASSUME NEW q \in Requests, q # r PROVE MoneyOk(q)'
  <2>1. /\ req'[q] = req[q] /\ charge'[q] = charge[q] /\ sent'[q] = sent[q] /\ ev'[q] = ev[q] /\ MoneyOk(q)
    BY <1>1 DEF Money
  <2>2. QED BY <2>1 DEF MoneyOk, HeldCharge, BookedCharge
<1>2. QED BY <1>1 DEF Money

\* Steps before a request reserves: it owns nothing and has reported nothing.
LEMMA MoneyBefore ==
  ASSUME GatewayInv, Money, NEW r \in Requests,
         Arrive(r) \/ Malformed(r) \/ Evaluate(r) \/ ReserveRejects(r)
  PROVE  Money'
<1>0. /\ req \in [Requests -> Handlers] /\ req[r] \in Handlers /\ RequestOk(r) /\ MoneyOk(r)
      /\ ev \in [Requests -> [status : Statuses, cost : Nat]]
  BY AtRequest DEF Money
<1>1. /\ req[r].at \in {"idle", "policy", "reserve"} /\ UNCHANGED <<failClosed, charge, sent>>
      /\ \A q \in Requests : q # r => req'[q] = req[q] /\ ev'[q] = ev[q]
      /\ req'[r].at \in {"policy", "reserve", "done"} /\ req'[r].held = req[r].held
      /\ ev'[r] = ev[r] \/ (req'[r].at = "done" /\ ev'[r].cost = 0)
  <2>1. CASE Arrive(r)
    BY <1>0, <2>1 DEF Arrive, Handlers, config
  <2>2. CASE Malformed(r)
    BY <1>0, <2>2 DEF Malformed, Handlers, config
  <2>3. ASSUME NEW status, Block(r, status), req[r].at \in {"policy", "reserve"}
        PROVE  /\ UNCHANGED <<failClosed, charge, sent>>
               /\ \A q \in Requests : q # r => req'[q] = req[q] /\ ev'[q] = ev[q]
               /\ req'[r].at = "done" /\ req'[r].held = req[r].held /\ ev'[r].cost = 0
    BY <1>0, <2>3 DEF Block, Handlers, config
  <2>4. CASE ReserveRejects(r)
    BY <2>3, <2>4 DEF ReserveRejects
  <2>5. CASE Evaluate(r) /\ Verdict(req[r].snap, r) # "pass"
    BY <2>3, <2>5 DEF Evaluate
  <2>6. CASE Evaluate(r) /\ Verdict(req[r].snap, r) = "pass"
    BY <1>0, <2>6 DEF Evaluate, Handlers, config
  <2>7. QED BY <2>1, <2>2, <2>4, <2>5, <2>6
<1>2. sent[r] = "no" /\ ~ req[r].held /\ ev[r] = NoEvent
  BY <1>0, <1>1 DEF RequestOk, MoneyOk
<1>3. MoneyOk(r)'
  BY <1>1, <1>2 DEF MoneyOk, NoEvent
<1>4. QED BY <1>1, <1>3, MoneyFrame

\* Reserve holds the estimate, or fails open, which it does only when told to.
LEMMA MoneyReserve ==
  ASSUME GatewayInv, Money, NEW r \in Requests, ReserveHolds(r) \/ ReserveFailsOpen(r)
  PROVE  Money'
<1>0. /\ req \in [Requests -> Handlers] /\ req[r] \in Handlers /\ RequestOk(r) /\ MoneyOk(r)
      /\ charge \in [Requests -> Charged]
  BY AtRequest DEF Money
<1>1. /\ req[r].at = "reserve" /\ UNCHANGED <<failClosed, sent, ev>>
      /\ \A q \in Requests : q # r => req'[q] = req[q] /\ charge'[q] = charge[q]
      /\ req'[r].at = "proxy" /\ req'[r].snap = req[r].snap
  BY <1>0 DEF ReserveHolds, ReserveFailsOpen, Handlers, config
<1>2. ev[r] = NoEvent
  BY <1>0, <1>1 DEF MoneyOk
<1>3. CASE ReserveHolds(r)
  <2>1. req'[r].held /\ charge'[r] = HeldCharge(r)
    BY <1>0, <1>3 DEF ReserveHolds, HeldCharge, Handlers
  <2>2. MoneyOk(r)'
    BY <1>1, <1>2, <2>1 DEF MoneyOk, NoEvent, HeldCharge, BookedCharge
  <2>3. QED BY <1>1, <2>2, MoneyFrame
<1>4. CASE ReserveFailsOpen(r)
  <2>1. ~ req'[r].held /\ ~ failClosed
    BY <1>0, <1>1, <1>4 DEF ReserveFailsOpen, RequestOk, Handlers
  <2>2. MoneyOk(r)'
    BY <1>1, <1>2, <2>1 DEF MoneyOk, NoEvent
  <2>3. QED BY <1>1, <2>2, MoneyFrame
<1>5. QED BY <1>3, <1>4

\* The upstream's answer leaves the charge alone.
LEMMA MoneyUpstream ==
  ASSUME GatewayInv, Money, NEW r \in Requests,
         Dispatch(r) \/ DispatchFails(r) \/ Buffered(r) \/ StreamEnds(r) \/ Chunk(r)
  PROVE  Money'
<1>0. /\ req \in [Requests -> Handlers] /\ req[r] \in Handlers /\ RequestOk(r) /\ MoneyOk(r)
      /\ sent \in [Requests -> {"no", "raw", "redacted"}]
  BY AtRequest DEF Money
<1>1. /\ req[r].at \in {"proxy", "wait"} /\ UNCHANGED <<failClosed, charge, ev>>
      /\ \A q \in Requests : q # r => req'[q] = req[q] /\ sent'[q] = sent[q]
      /\ req'[r].at \in {"wait", "settle"} /\ (req'[r].at = "settle" => req'[r].result # "none")
      /\ req'[r].snap = req[r].snap /\ req'[r].held = req[r].held /\ req'[r].cost = req[r].cost
  <2>1. CASE Dispatch(r)
    BY <1>0, <2>1 DEF Dispatch, Handlers, config
  <2>2. CASE DispatchFails(r)
    BY <1>0, <2>2 DEF DispatchFails, Result, Handlers, config
  <2>3. CASE Buffered(r)
    <3>1. PICK result \in {"ok", "upstream_error"}, u \in Tokens \cup {0} : Result(r, result, u)
      BY <2>3 DEF Buffered
    <3>2. QED BY <1>0, <2>3, <3>1 DEF Buffered, Result, Handlers, config
  <2>4. CASE StreamEnds(r)
    BY <1>0, <2>4 DEF StreamEnds, Result, Handlers, config
  <2>5. CASE Chunk(r)
    BY <1>0, <2>5 DEF Chunk, Handlers, config
  <2>6. QED BY <2>1, <2>2, <2>3, <2>4, <2>5
<1>2. MoneyOk(r)'
  BY <1>0, <1>1 DEF MoneyOk, NoEvent, HeldCharge, BookedCharge
<1>3. QED BY <1>1, <1>2, MoneyFrame

\* Commit replaces the estimate by the cost, Release drops it; then the event goes out.
LEMMA MoneySettle ==
  ASSUME GatewayInv, Money, NEW r \in Requests, Settle(r) \/ Emit(r)
  PROVE  Money'
<1>0. /\ req \in [Requests -> Handlers] /\ req[r] \in Handlers /\ RequestOk(r) /\ MoneyOk(r)
      /\ charge \in [Requests -> Charged] /\ ev \in [Requests -> [status : Statuses, cost : Nat]]
  BY AtRequest DEF Money
<1>1. CASE Settle(r)
  <2>1. /\ req[r].at = "settle" /\ UNCHANGED <<failClosed, sent, ev>>
        /\ \A q \in Requests : q # r => req'[q] = req[q] /\ charge'[q] = charge[q]
        /\ req'[r].at = "emit" /\ req'[r].result = req[r].result
        /\ req'[r].held = req[r].held /\ req'[r].cost = Cost(r)
    BY <1>0, <1>1 DEF Settle, Handlers, config
  <2>2. req[r].held =>
          charge'[r] = [st |-> "booked", month |-> 0, amt |-> Cost(r)] \/ charge'[r] = Ledger!VoidCharge
    BY <1>0, <1>1 DEF Settle
  <2>3. MoneyOk(r)'
    BY <1>0, <2>1, <2>2 DEF MoneyOk, NoEvent, BookedCharge, Ledger!VoidCharge
  <2>4. QED BY <2>1, <2>3, MoneyFrame
<1>2. CASE Emit(r)
  <2>1. /\ req[r].at = "emit" /\ UNCHANGED <<failClosed, sent, charge>>
        /\ \A q \in Requests : q # r => req'[q] = req[q] /\ ev'[q] = ev[q]
        /\ req'[r].at = "done" /\ req'[r].snap = req[r].snap
        /\ req'[r].held = req[r].held /\ req'[r].cost = req[r].cost
        /\ ev'[r].status = req[r].result
    BY <1>0, <1>2 DEF Emit, Handlers, config
  <2>2. req[r].result # "none"
    BY <1>0, <2>1 DEF MoneyOk
  <2>3. MoneyOk(r)'
    BY <1>0, <2>1, <2>2 DEF MoneyOk, HeldCharge, BookedCharge
  <2>4. QED BY <2>1, <2>3, MoneyFrame
<1>3. QED BY <1>1, <1>2

LEMMA MoneyCrash ==
  ASSUME GatewayInv, Money, Crash PROVE Money'
<1>1. UNCHANGED <<failClosed, charge, sent, ev>>
  BY DEF Crash
<1>2. ASSUME NEW r \in Requests PROVE MoneyOk(r)'
  <2>0. req[r] \in Handlers /\ MoneyOk(r)
    BY AtRequest DEF Money
  <2>1. req'[r] = IF InFlight(r) THEN [req[r] EXCEPT !.at = "dead"] ELSE req[r]
    BY DEF Crash
  <2>2. CASE InFlight(r)
    <3>1. /\ req'[r].at = "dead" /\ req[r].at # "done" /\ req'[r].snap = req[r].snap
          /\ req'[r].held = req[r].held /\ req'[r].cost = req[r].cost
      BY <2>0, <2>1, <2>2 DEF InFlight, Handlers
    <3>2. QED BY <1>1, <2>0, <3>1 DEF MoneyOk, HeldCharge, BookedCharge
  <2>3. CASE ~ InFlight(r)
    BY <1>1, <2>0, <2>1, <2>3 DEF MoneyOk, HeldCharge, BookedCharge
  <2>4. QED BY <2>2, <2>3
<1>3. QED BY <1>2 DEF Money

\* No other step touches a request.
LEMMA MoneyRest ==
  ASSUME Money, UNCHANGED <<failClosed, req, charge, sent, ev>> PROVE Money'
BY DEF Money, MoneyOk, HeldCharge, BookedCharge

LEMMA MoneyInit == Init => Money
<1> SUFFICES ASSUME Init, NEW r \in Requests PROVE MoneyOk(r)
  BY DEF Money
<1>1. /\ req[r].at = "idle" /\ ~ req[r].held /\ sent[r] = "no" /\ ev[r] = NoEvent
  BY DEF Init
<1>2. QED BY <1>1 DEF MoneyOk, NoEvent

LEMMA MoneyNext == GatewayInv /\ Money /\ [Next]_vars => Money'
<1> SUFFICES ASSUME GatewayInv, Money, [Next]_vars PROVE Money'
  OBVIOUS
<1>1. CASE UNCHANGED vars
  BY <1>1, MoneyRest DEF vars, config
<1>2. CASE \/ \E k \in Keys : UpdateKey(k) \/ RevokeKey(k)
           \/ \E p \in Policies : UpdatePolicy(p)
           \/ UpdateTools
  BY <1>2, MoneyRest DEF UpdateKey, RevokeKey, UpdatePolicy, UpdateTools, Change
<1>3. CASE LoadKeys \/ LoadPolicies \/ LoadTools \/ LoadFails \/ Swap
  BY <1>3, MoneyRest DEF LoadKeys, LoadPolicies, LoadTools, LoadFails, Swap
<1>4. ASSUME NEW r \in Requests, Arrive(r) \/ Handler(r) \/ Response(r) \/ Chunk(r) PROVE Money'
  BY <1>4, MoneyBefore, MoneyReserve, MoneyUpstream, MoneySettle DEF Handler, Response
<1>5. CASE Crash
  BY <1>5, MoneyCrash
<1>6. QED BY <1>1, <1>2, <1>3, <1>4, <1>5, Zenon DEF Next

\* What budgets are enforced on and what events report differ, for every key, by two
\* things only: requests without an event yet (or ever, if they died) count already,
\* and requests whose Reserve failed open never count; failing closed, there are none
\* of the latter (Reserve, Commit and Release against finishFmt).
THEOREM SpendIsBilled == Spec => []SpendMatchesEvents
<1>1. ASSUME GatewayInv, Money, NEW r \in Requests
      PROVE  Ledger!Counted(charge[r], 0) = ev[r].cost + Unreported(r) - Unenforced(r)
  <2>0. /\ RequestOk(r) /\ MoneyOk(r) /\ req[r] \in Handlers /\ charge[r] \in Charged
        /\ ev[r].cost \in Nat /\ req[r].cost \in Nat /\ req[r].held \in BOOLEAN
    BY <1>1, AtRequest DEF Money, Handlers
  <2>1. CASE ~ req[r].held
    <3>1. Ledger!Counted(charge[r], 0) = 0 /\ Unreported(r) = 0 /\ Unenforced(r) = ev[r].cost
      BY <2>0, <2>1 DEF RequestOk, Ledger!Counted, Unreported, Unenforced
    <3>2. QED BY <2>0, <3>1
  <2>2. CASE req[r].held /\ ev[r].status # "none"
    <3>1. req[r].at = "done" /\ Ledger!Counted(charge[r], 0) = ev[r].cost
      BY <2>0, <2>2 DEF MoneyOk, RequestOk, NoEvent
    <3>2. Unreported(r) = 0 /\ Unenforced(r) = 0
      BY <2>2 DEF Unreported, Unenforced
    <3>3. QED BY <2>0, <3>1, <3>2
  <2>3. CASE req[r].held /\ ev[r].status = "none"
    <3>1. ev[r].cost = 0 /\ Unenforced(r) = 0
      BY <2>0, <2>3 DEF MoneyOk, Unenforced
    <3>2. req[r].snap \in Snapshots
      BY <2>0, <2>3 DEF RequestOk
    <3>3. Estimate(req[r].snap, r) \in Nat
      BY <3>2, EstimateNat
    <3>4. CASE charge[r].st = "held"
      <4>1. charge[r] = HeldCharge(r)
        BY <2>0, <2>3, <3>4 DEF MoneyOk
      <4>2. Ledger!Counted(charge[r], 0) = Estimate(req[r].snap, r)
        BY <4>1 DEF HeldCharge, Ledger!Counted
      <4>3. Unreported(r) = Estimate(req[r].snap, r)
        BY <2>3, <3>4 DEF Unreported
      <4>4. QED BY <3>1, <3>3, <4>2, <4>3
    <3>5. CASE charge[r].st = "booked"
      <4>1. charge[r] = BookedCharge(r)
        BY <2>0, <2>3, <3>5 DEF MoneyOk
      <4>2. Ledger!Counted(charge[r], 0) = req[r].cost
        BY <4>1 DEF BookedCharge, Ledger!Counted
      <4>3. Unreported(r) = req[r].cost
        BY <2>3, <3>5 DEF Unreported
      <4>4. QED BY <2>0, <3>1, <4>2, <4>3
    <3>6. CASE charge[r].st \notin {"held", "booked"}
      <4>1. Ledger!Counted(charge[r], 0) = 0 /\ Unreported(r) = 0
        BY <2>3, <3>6 DEF Unreported, Ledger!Counted
      <4>2. QED BY <3>1, <4>1
    <3>7. QED BY <3>4, <3>5, <3>6
  <2>4. QED BY <2>0, <2>1, <2>2, <2>3
<1>2. GatewayInv /\ Money => SpendMatchesEvents
  <2> SUFFICES ASSUME GatewayInv, Money PROVE SpendMatchesEvents
    OBVIOUS
  <2>1. ASSUME NEW k \in Keys
        PROVE  Ledger!Spent(k, 0) =
                 Total([r \in Requests |->
                          IF KeyOf[r] = k THEN ev[r].cost + Unreported(r) - Unenforced(r) ELSE 0], N)
    <3>0. Ledger!Spent(k, 0) = Total(Ledger!ChargesOf(k, 0), N)
      BY DEF Ledger!Spent, Ledger!Total, Total, Ledger!RunningTotal, RunningTotal
    <3>1. Ledger!ChargesOf(k, 0) =
            [r \in Requests |-> IF KeyOf[r] = k THEN ev[r].cost + Unreported(r) - Unenforced(r) ELSE 0]
      BY <1>1 DEF Ledger!ChargesOf, Ledger!Requests, Requests
    <3>2. QED BY <3>0, <3>1
  <2>2. failClosed => \A r \in Requests : sent[r] # "no" => req[r].held
    BY DEF Money, MoneyOk
  <2>3. QED BY <2>1, <2>2 DEF SpendMatchesEvents
<1>3. Spec => []Money
  BY MoneyInit, MoneyNext, GatewayInvAlways, PTL DEF Spec
<1>4. QED BY <1>2, <1>3, GatewayInvAlways, PTL
=============================================================================
