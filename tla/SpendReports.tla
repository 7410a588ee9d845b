---------------------------- MODULE SpendReports ----------------------------
(***************************************************************************)
(* The spend reports of the API (api/src/analytics/analytics.service.ts    *)
(* with the Cursor and Copilot analytics services) as functions of the     *)
(* stored tables and of a range of days.                                   *)
(***************************************************************************)
EXTENDS Seats

VARIABLES
  calls,      \* llm_calls
  coding,     \* coding_agent_daily
  commits,    \* coding_commit_attribution
  outcomes,   \* outcomes
  fixed,      \* fixed_costs
  copilot     \* the Copilot tables: [connected, price, seats, spend, usage, roi]; spend has a total per member and day

InRange(T, from, to) == {r \in T : from <= r.day /\ r.day <= to}

Rows(from, to) == Scope(InRange(calls, from, to))

ValueOf(f, k) == IF k \in DOMAIN f THEN f[k] ELSE 0

\* Pointwise sum of two tables of totals.
Plus(f, g) == [k \in DOMAIN f \union DOMAIN g |-> ValueOf(f, k) + ValueOf(g, k)]

SumOf(f) == Total(DOMAIN f, LAMBDA k : f[k])

UsdBy(S, by(_)) == [k \in {by(r) : r \in S} |-> Usd({r \in S : by(r) = k})]
-----------------------------------------------------------------------------
(***************************************************************************)
(* Copilot: seats are prorated to days, unless spend by member is stored.  *)
(***************************************************************************)
CopilotProvider == "github_copilot"

CopilotModel(u) == Either(u.model, "copilot-business")

CopilotWeight(u) == u.lines + u.turns

\* The Copilot cost of each day, from the member rows or from seats and the organisation's overage.
CopilotDaily(from, to) ==
  LET spend == InRange(copilot.spend, from, to)
      roi == InRange(copilot.roi, from, to)
      base == IF roi # {} THEN CHOOSE b \in {r.base : r \in roi} : \A r \in roi : r.base <= b
              ELSE Cardinality(copilot.seats) * copilot.price
      overage(d) == Total({r \in roi : r.day = d}, LAMBDA r : r.overage)
  IN IF spend # {}
     THEN [d \in {r.day : r \in spend} |-> Total({r \in spend : r.day = d}, LAMBDA r : r.total)]
     ELSE [d \in from..to |-> RoundDiv(base, DaysPerMonth) + overage(d)]

\* CopilotAnalyticsService.getSpendSummary, buildSummaryFromMemberSpend
CopilotSpend(from, to) ==
  LET usage == InRange(copilot.usage, from, to)
      total == SumOf(CopilotDaily(from, to))
      weight(m) == Total({u \in usage : CopilotModel(u) = m}, CopilotWeight)
      all == Total(usage, CopilotWeight)
  IN [total |-> total, daily |-> CopilotDaily(from, to),
      mix |-> IF all = 0 THEN [m \in {"copilot-business"} |-> total]
              ELSE [m \in {CopilotModel(u) : u \in usage} |-> RoundDiv(total * weight(m), all)]]

HasCopilotSpend(from, to) == copilot.connected /\ CopilotSpend(from, to).total > 0

\* getUserSpendAllocation: by member rows, else by each login's share of the activity.
CopilotUserSpend(from, to) ==
  LET spend == InRange(copilot.spend, from, to)
      usage == InRange(copilot.usage, from, to)
      total == CopilotSpend(from, to).total
      all == Total(usage, CopilotWeight)
      weight(l) == Total({u \in usage : u.login = l}, CopilotWeight)
  IN IF ~ HasCopilotSpend(from, to) THEN [l \in {} |-> 0]
     ELSE IF spend # {} THEN [l \in {r.login : r \in spend} |-> Total({r \in spend : r.login = l}, LAMBDA r : r.total)]
     ELSE IF usage = {} THEN [l \in {"__copilot_org__"} |-> total]
     ELSE [l \in {u.login : u \in usage} |-> IF all = 0 THEN 0 ELSE RoundDiv(total * weight(l), all)]
-----------------------------------------------------------------------------
(***************************************************************************)
(* Headline spend: what every row costs, not reconciled, plus Copilot.     *)
(***************************************************************************)

\* spend, mergeCopilotDailySpend
Spend(from, to) ==
  LET rows == UsdBy(Rows(from, to), LAMBDA r : r.day)
  IN IF HasCopilotSpend(from, to) THEN Plus(rows, CopilotSpend(from, to).daily) ELSE rows

\* platformSpend, mergeCopilotPlatformSpend
PlatformSpend(from, to) ==
  LET rows == UsdBy(Rows(from, to), LAMBDA r : r.provider)
  IN IF HasCopilotSpend(from, to) THEN Plus(rows, [p \in {CopilotProvider} |-> CopilotSpend(from, to).total]) ELSE rows

\* modelMix, mergeCopilotModelMix
ModelMix(from, to) ==
  LET rows == UsdBy(Rows(from, to), LAMBDA r : <<r.provider, r.model>>)
      mix == CopilotSpend(from, to).mix
  IN IF HasCopilotSpend(from, to)
     THEN Plus(rows, [k \in {CopilotProvider} \X DOMAIN mix |-> mix[k[2]]]) ELSE rows

\* allocation by team (by application it is the same query over another column)
TeamAllocation(from, to) == UsdBy(Rows(from, to), LAMBDA r : r.team)

\* dataBounds: the first day with anything in it.
DataBounds(today) ==
  IF calls = {} THEN [earliest |-> today, latest |-> today]
  ELSE [earliest |-> CHOOSE d \in {r.day : r \in calls} : \A r \in calls : d <= r.day, latest |-> today]

\* pilotReport, buildPilotReport: providers without spend are left out.
PilotReport(from, to) ==
  LET rows == Rows(from, to)
      confident == {o \in InRange(outcomes, from, to) : o.confidence >= 50}
  IN [cost |-> Usd(rows), calls |-> Cardinality(Billed(rows)),
      byProvider |-> UsdBy(Billed(rows), LAMBDA r : r.provider),
      outcomes |-> Cardinality(confident), value |-> Total(confident, LAMBDA o : o.value)]

\* sourceReconciliation, buildSourceReconciliation: the days each source covers, by recorded cost.
SourceReconciliation(from, to) ==
  LET rows == InRange(calls, from, to)
      covered(S) == {d \in {r.day : r \in S} : Total({r \in S : r.day = d}, CostOf) > 0}
      portal == covered(FromPortal(rows))
      api == covered(FromApi(rows))
  IN [portalTotal |-> Total(FromPortal(rows), CostOf), apiTotal |-> Total(FromApi(rows), CostOf),
      overlap |-> portal \intersect api, portalOnly |-> portal \ api, apiOnly |-> api \ portal]
-----------------------------------------------------------------------------
(***************************************************************************)
(* Cursor: on-demand usage is billed, included usage has a value only.     *)
(***************************************************************************)
CursorRows(from, to) == {r \in InRange(calls, from, to) : r.provider = "cursor"}

Included(S) == {r \in S : r.op = "cursor:included"}

UsageValue(r) == IF r.usageValue > 0 THEN r.usageValue ELSE r.cost

\* cursorActiveMembers
CursorActiveMembers(from, to) == Cardinality({r.user : r \in CursorRows(from, to)} \ {""})

\* getUserActivity, getUserBilledSpend
CursorUserActivity(from, to) ==
  LET mine(u) == {r \in CursorRows(from, to) : r.user = u}
  IN [u \in {r.user : r \in CursorRows(from, to)} \ {""} |->
        [onDemand |-> Usd(mine(u)), value |-> Total(Included(mine(u)), UsageValue), calls |-> Cardinality(mine(u)),
         included |-> Cardinality(Included(mine(u))),
         billedCalls |-> Cardinality({r \in mine(u) : r.op = "cursor:on_demand" \/ EffectiveMetered(r) > 0}),
         tokens |-> Total(mine(u), LAMBDA r : r.input + r.output)]]

\* getUserActivityBreakdown, getUserBilledBreakdown
CursorUserBreakdown(from, to) ==
  LET mine(k) == {r \in CursorRows(from, to) : <<r.user, r.model>> = k}
  IN [k \in {<<r.user, r.model>> : r \in {q \in CursorRows(from, to) : q.user # ""}} |->
        [onDemand |-> Usd(mine(k)), value |-> Total(Included(mine(k)), UsageValue)]]

\* getUserDailyActivity, getUserDailyBilledSpend
CursorUserDaily(from, to) ==
  LET mine(k) == {r \in CursorRows(from, to) : UserDay(r) = k}
  IN [k \in {UserDay(r) : r \in {q \in CursorRows(from, to) : q.user # ""}} |->
        [onDemand |-> Usd(mine(k)), value |-> Total(Included(mine(k)), UsageValue)]]

\* CursorAnalyticsService.getSpendSummary with getDailyBilledSpend: legacy rows carry no billing kind.
CursorSummary(from, to) ==
  LET rows == CursorRows(from, to)
      tagged == {r \in rows : r.op \in {"cursor:included", "cursor:on_demand", "cursor:errored"}}
  IN [billed |-> Usd(rows), value |-> Total(Included(rows), UsageValue), calls |-> Cardinality(rows),
      included |-> Cardinality(Included(rows)), legacy |-> rows # tagged,
      daily |-> UsdBy(rows, LAMBDA r : r.day), mix |-> UsdBy(rows, LAMBDA r : r.model)]

CursorSeatRows == {f \in fixed : f.type \in {"seat_license", "subscription"} /\ f.vendor = "cursor"}

DefaultCursorSeat == 4000

\* cursorSeatLicenseForPeriod: the newest month's price for every member seen, in the range or looking back.
CursorSeatLicense(from, to, today) ==
  LET members == Biggest(CursorActiveMembers(from, to), CursorActiveMembers(1, Biggest(to, today)))
      newest == {f \in CursorSeatRows : f.month = NewestMonth(CursorSeatRows)}
      cost == Total(newest, CostOf)
      seats == Total(newest, SeatsOf)
      prices == {f.unit : f \in newest}
      price == CHOOSE p \in prices : \A q \in prices : q <= p
      unit == IF price > 0 THEN price ELSE IF seats > 0 THEN RoundDiv(cost, seats) ELSE 0
      count == Biggest(members, seats)
  IN IF CursorSeatRows = {} THEN [usd |-> members * DefaultCursorSeat, seats |-> members]
     ELSE [usd |-> IF unit > 0 /\ count > 0 THEN unit * count ELSE cost, seats |-> count]

\* cursorLocFields with getProductivitySummary: accepted lines and the share of committed lines.
CursorProductivity(from, to) ==
  LET daily == {c \in InRange(coding, from, to) : c.provider = "cursor"}
      made == InRange(commits, from, to)
  IN [accepted |-> Total(daily, LAMBDA c : c.linesAccepted), committed |-> Total(made, LAMBDA c : c.linesAi),
      share |-> AiSharePct([linesAi |-> Total(made, LAMBDA c : c.linesAi), linesTotal |-> Total(made, LAMBDA c : c.linesTotal)])]

\* cursorSpend
CursorSpend(from, to, today) ==
  LET seat == CursorSeatLicense(from, to, today)
  IN [billed |-> CursorSummary(from, to).billed, value |-> CursorSummary(from, to).value,
      seat |-> seat.usd, seats |-> seat.seats, active |-> CursorActiveMembers(from, to),
      accepted |-> CursorProductivity(from, to).accepted]
-----------------------------------------------------------------------------
(***************************************************************************)
(* userAllocationWithTrend: reconciled rows, the coding tools' own costs,  *)
(* Copilot as seats, Cursor's included usage for display only.             *)
(***************************************************************************)
CodingUsd(from, to) ==
  LET rows == InRange(coding, from, to)
      all == [k \in {Key(c) : c \in rows} |-> Total({c \in rows : Key(c) = k}, CostOf)]
  IN [k \in {j \in DOMAIN all : all[j] > 0} |-> all[k]]

\* The calls a user's coding tools add, for users whom they cost something.
CodingCalls(from, to, u) ==
  IF u \in DOMAIN CodingUsd(from, to)
  THEN Total({c \in InRange(coding, from, to) : Key(c) = u}, LAMBDA c : c.requests) ELSE 0

UserAllocation(from, to) ==
  LET spent == ReconciledUserSpend(InRange(calls, from, to))
      tools == CodingUsd(from, to)
      seats == CopilotUserSpend(from, to)
      cursor == CursorUserActivity(from, to)
      reconciled(u) == IF u \in DOMAIN spent THEN spent[u].cost ELSE 0
      billedCalls(u) == (IF u \in DOMAIN spent THEN spent[u].calls ELSE 0) + CodingCalls(from, to, u)
      all == [u \in DOMAIN spent \union DOMAIN tools \union DOMAIN seats \union DOMAIN cursor |->
                [metered |-> reconciled(u) + ValueOf(tools, u), seat |-> ValueOf(seats, u),
                 cost |-> reconciled(u) + ValueOf(tools, u) + ValueOf(seats, u),
                 calls |-> IF u \notin DOMAIN cursor THEN billedCalls(u)
                           ELSE IF billedCalls(u) > 0 THEN billedCalls(u) + cursor[u].included ELSE cursor[u].calls,
                 onDemand |-> IF u \in DOMAIN cursor THEN cursor[u].onDemand ELSE 0,
                 included |-> IF u \in DOMAIN cursor THEN cursor[u].value ELSE 0]]
  IN [u \in {v \in DOMAIN all : all[v].cost > 0 \/ all[v].calls > 0 \/ all[v].included > 0 \/ all[v].onDemand > 0} |-> all[u]]

\* The daily series of a user's trend: the included usage is added so that it shows too.
UserDailySeries(from, to, users) ==
  LET daily == ReconciledUserDaily(InRange(calls, from, to))
      cursor == CursorUserDaily(from, to)
      tools == InRange(coding, from, to)
      used == DOMAIN daily \union DOMAIN cursor \union {UserDay(c) : c \in tools}
      cost == [k \in used |-> (IF k \in DOMAIN daily THEN daily[k].cost ELSE 0)
                             + (IF k \in DOMAIN cursor THEN cursor[k].value ELSE 0)
                             + Total({c \in tools : UserDay(c) = k}, CostOf)]
  IN [u \in users |-> [d \in {k[2] : k \in {j \in used : j[1] = u /\ cost[j] > 0}} |-> cost[<<u, d>>]]]

\* computeSpendTrend: the average of the later half of the days against the earlier half.
ComputeSpendTrend(series) ==
  LET n == Cardinality(DOMAIN series)
      half == n \div 2
      first == {d \in DOMAIN series : Cardinality({e \in DOMAIN series : e < d}) < half}
      sum(D) == Total(D, LAMBDA d : series[d])
      a == sum(first) * (n - half)            \* averages over a common denominator
      b == sum(DOMAIN series \ first) * half
  IN IF n < 2 THEN "insufficient"
     ELSE IF a = 0 /\ b = 0 THEN "flat"
     ELSE IF a = 0 THEN "up"
     ELSE IF 100 * (b - a) > 5 * a THEN "up"
     ELSE IF 100 * (b - a) < (-5) * a THEN "down" ELSE "flat"

-----------------------------------------------------------------------------
(***************************************************************************)
(* Fixed costs beside the metered spend.                                   *)
(***************************************************************************)
FixedInRange(from, to) == {f \in fixed : f.month \in BillingMonthsInRange(from, to)}

\* monthlySummary
MonthlySummary(from, to) ==
  LET rows == FixedInRange(from, to)
      of(k) == {f \in rows : <<f.month, f.vendor, f.type>> = k}
  IN [k \in {<<f.month, f.vendor, f.type>> : f \in rows} |->
        [monthly |-> Total(of(k), CostOf), cost |-> ProrateMonthlyCost(Total(of(k), CostOf), k[1], from, to)]]

\* totalCostOfAi: the months with gateway spend or fixed costs, the fixed costs prorated.
TotalCostOfAi(from, to) ==
  LET gateway == {r \in calls : r.source = "gateway" /\ Month(r.day) \in BillingMonthsInRange(from, to)}
      months == {Month(r.day) : r \in gateway} \union {f.month : f \in FixedInRange(from, to)}
      attributable(m) == Total({r \in gateway : Month(r.day) = m}, CostOf)
      overhead(m) == SumProratedMonthlyCosts({f \in FixedInRange(from, to) : f.month = m}, from, to)
  IN [m \in months |-> [attributable |-> attributable(m), fixed |-> overhead(m), total |-> attributable(m) + overhead(m)]]
-----------------------------------------------------------------------------
(***************************************************************************)
(* vendorBilling: seats and overage of the organisation, vendor by vendor. *)
(***************************************************************************)
CopilotMembers(from, to) ==
  IF ~ copilot.connected THEN [l \in {} |-> 0]
  ELSE LET rows == InRange(copilot.spend, from, to)
           of(l) == {r \in rows : r.login = l}
       IN [l \in {r.login : r \in rows} |->
             [seat |-> Total(of(l), LAMBDA r : r.seat), overage |-> Total(of(l), LAMBDA r : r.overage),
              total |-> Total(of(l), LAMBDA r : r.total), calls |-> Total(of(l), LAMBDA r : r.lines + r.turns)]]

\* Metered overage: Copilot's comes from its members, and OpenAI's and Anthropic's is the last known one.
VendorOverage(from, to, today) ==
  LET by(platforms) == [v \in {PlatformToVendor(p) : p \in DOMAIN platforms} \ {"github"} |->
                          Total({p \in DOMAIN platforms : PlatformToVendor(p) = v}, LAMBDA p : platforms[p])]
      now == by(PlatformSpend(from, to))
      ever == by(PlatformSpend(1, Biggest(to, today)))
      last(v) == IF ValueOf(now, v) <= 0 /\ v \in {"openai", "anthropic"} THEN ValueOf(ever, v) ELSE ValueOf(now, v)
      members == CopilotMembers(from, to)
  IN [v \in DOMAIN now \union {"openai", "anthropic", "cursor", "github"} |->
        CASE v = "cursor" -> Biggest(ValueOf(now, v), CursorSummary(from, to).billed)
          [] v = "github" -> Total(DOMAIN members, LAMBDA l : members[l].overage)
          [] OTHER -> last(v)]

\* Seats: the administrators' charges first, else what the connectors know.
VendorSeats(from, to, today) ==
  LET latest == LatestSeatByVendor(fixed)
      members == CopilotMembers(from, to)
      given(v) == IF v \in DOMAIN latest THEN latest[v].usd ELSE 0
  IN [v \in DOMAIN latest \union {"cursor", "github"} |->
        CASE v = "cursor" /\ given(v) <= 0 -> CursorSeatLicense(from, to, today).usd
          [] v = "github" /\ given(v) <= 0 -> Total(DOMAIN members, LAMBDA l : members[l].seat)
          [] OTHER -> given(v)]

VendorBilling(from, to, today) ==
  LET vendors == BuildOrgVendorBilling(VendorSeats(from, to, today), VendorOverage(from, to, today))
      changes == VendorSeatChanges(fixed)
      connectorOnly == DOMAIN vendors \ DOMAIN LatestSeatByVendor(fixed)
      months == Cardinality(BillingMonthsInRange(from, to))
  IN [vendors |-> vendors,
      total |-> PeriodSeatTotalForRange(fixed, from, to) + Total(connectorOnly, LAMBDA v : months * vendors[v].seat)
                  + Total(DOMAIN vendors, LAMBDA v : vendors[v].overage),
      seatChange |-> Total(DOMAIN vendors \intersect DOMAIN changes, LAMBDA v : changes[v].fromSeats)]
=============================================================================
