------------------------------ MODULE CfoView -------------------------------
(***************************************************************************)
(* The CFO view (api/src/lari/lari-cfo-view.service.ts and .util.ts): what *)
(* AI cost and returned in a range of days, and the same by month, outcome *)
(* type, provider, model and team.  books holds the tables other services  *)
(* fill: roi is the view v_roi of attributed outcomes, plans the           *)
(* subscription plans, invoices the imported provider invoices.            *)
(* Amounts are cents and ratios hundredths, rounded where the code rounds. *)
(***************************************************************************)
EXTENDS UserDirectory

VARIABLE
  books   \* [roi, plans, invoices, risks, edges, agentCalls]

Bases == {"computed", "metered", "reconciled"}

NoMoney == [computed |-> 0, metered |-> 0, effective |-> 0]

At(f, k) == IF k \in DOMAIN f THEN f[k] ELSE NoMoney

Scaled(amount, days, period) == RoundDiv(amount * days, period)

\* pct
Percent(a, b) == IF b > 0 THEN RoundDiv(100 * a, b) ELSE 0
-----------------------------------------------------------------------------
(***************************************************************************)
(* What the usage cost, by cost basis.                                     *)
(***************************************************************************)

\* normalizeCostBasis
NormalizeCostBasis(basis) == IF basis \in Bases THEN basis ELSE "reconciled"

\* The view v_cost_basis_daily: recorded cost, invoices, and the invoice where there is one.
CostBasisDaily(from, to) ==
  LET key(r) == <<r.day, r.provider, r.model>>
      rows == InRange(calls, from, to)
      billed == InRange(books.invoices, from, to)
      computed(k) == Total({r \in rows : key(r) = k}, CostOf)
      metered(k) == Total({i \in billed : key(i) = k}, CostOf)
  IN [k \in {key(r) : r \in rows} \union {key(i) : i \in billed} |->
        [computed |-> computed(k), metered |-> metered(k),
         effective |-> IF metered(k) > 0 THEN metered(k) ELSE computed(k)]]

SumBasis(f, keys) ==
  [computed |-> Total(keys, LAMBDA k : f[k].computed), metered |-> Total(keys, LAMBDA k : f[k].metered),
   effective |-> Total(keys, LAMBDA k : f[k].effective)]

Same(cost) == [computed |-> cost, metered |-> cost, effective |-> cost]

\* queryCostBasisTotals
CostTotals(basis, from, to) ==
  LET daily == CostBasisDaily(from, to)
      rec == CostBasisTotals(InRange(calls, from, to))
      groups == Grouped(Rows(from, to), UserDayModel)
  IN IF basis = "reconciled"
     THEN [money |-> Same(rec.cost), keys |-> rec.keys, meteredKeys |-> rec.meteredKeys,
           calls |-> SumOver(groups, ReconciledCalls)]
     ELSE [money |-> SumBasis(daily, DOMAIN daily), keys |-> Cardinality(DOMAIN daily),
           meteredKeys |-> Cardinality({k \in DOMAIN daily : daily[k].metered > 0}),
           calls |-> Cardinality(InRange(calls, from, to))]

\* queryCostBasisMonthly
CostMonthly(basis, from, to) ==
  LET daily == CostBasisDaily(from, to)
      rec == CostBasisMonthly(InRange(calls, from, to), Month)
  IN IF basis = "reconciled" THEN [m \in DOMAIN rec |-> Same(rec[m])]
     ELSE [m \in {Month(k[1]) : k \in DOMAIN daily} |-> SumBasis(daily, {k \in DOMAIN daily : Month(k[1]) = m})]

\* usageCostForBasis, monthlyUsageForBasis
UsageCostForBasis(basis, money) ==
  CASE basis = "computed" -> money.computed [] basis = "metered" -> money.metered [] OTHER -> money.effective

\* buildCostProvenance
BuildCostProvenance(totals) ==
  [variance |-> IF totals.money.computed > 0
                THEN (100 * (totals.money.metered - totals.money.computed)) \div totals.money.computed ELSE 0,
   coverage |-> Percent(totals.meteredKeys, totals.keys)]

\* queryModelCostBasis, and the usage rows each basis starts from
ModelUsage(basis, from, to) ==
  LET daily == CostBasisDaily(from, to)
      rec == ReconciledModelUsage(InRange(calls, from, to))
      rows(k) == {r \in InRange(calls, from, to) : <<r.provider, r.model>> = k}
      days(k) == {d \in DOMAIN daily : <<d[2], d[3]>> = k}
  IN IF basis = "reconciled" THEN [k \in DOMAIN rec |-> [money |-> Same(rec[k].cost), tokens |-> rec[k].input + rec[k].output]]
     ELSE [k \in {<<r.provider, r.model>> : r \in InRange(calls, from, to)} |->
             [money |-> SumBasis(daily, days(k)), tokens |-> Total(rows(k), LAMBDA r : r.input + r.output)]]

\* buildModelBreakdown: models without cost and tokens are left out.
BuildModelBreakdown(basis, from, to, days) ==
  LET usage == ModelUsage(basis, from, to)
      observed(k) == UsageCostForBasis(basis, usage[k].money)
  IN [k \in {j \in DOMAIN usage : observed(j) > 0 \/ usage[j].tokens > 0} |->
        [observed |-> observed(k), projected |-> Scaled(observed(k), days, to - from + 1),
         perToken |-> IF usage[k].tokens > 0 THEN RoundDiv(100 * observed(k), usage[k].tokens) ELSE 0]]
-----------------------------------------------------------------------------
(***************************************************************************)
(* What is paid beside the usage.                                          *)
(***************************************************************************)

\* fixedCostForPeriod: the rows are read without their plan lines, so the newest month of a vendor
\* stands for all its plans.
FixedCostForPeriod(from, to) ==
  LET upTo == {f \in fixed : f.month <= Month(to)}
      of(k) == {f \in upTo : <<f.vendor, f.month>> = k}
      rows == {[month |-> k[2], vendor |-> k[1], type |-> "", line |-> "", unit |-> 0,
                seats |-> Total(of(k), SeatsOf), cost |-> Total(of(k), CostOf)] : k \in {<<f.vendor, f.month>> : f \in upTo}}
  IN [total |-> PeriodSeatTotalForRange(rows, from, to), runRate |-> CurrentMonthlySeatRunRate(rows)]

\* subscriptionCostForPeriod: contracts by days, at thirty days a month.
SubscriptionCostForPeriod(from, to) ==
  RoundDiv(Total({p \in books.plans : p.contract > 0}, LAMBDA p : p.contract) * (to - from + 1), 30)

\* seatStats: the join repeats a plan's seats for each of its seat rows.
SeatStats ==
  LET seats(p) == {s \in aiSeats : s.provider = p.provider}
      times(p) == IF seats(p) = {} THEN 1 ELSE Cardinality(seats(p))
  IN [purchased |-> Total(books.plans, LAMBDA p : p.purchased * times(p)),
      active |-> Total(books.plans, LAMBDA p : Cardinality(seats(p)))]

CodingCost(from, to) == Total(InRange(coding, from, to), CostOf)

CopilotCost(from, to) == IF copilot.connected THEN CopilotSpend(from, to).total ELSE 0

CopilotValue(from, to) == IF copilot.connected THEN Total(InRange(copilot.spend, from, to), LAMBDA r : r.value) ELSE 0

\* calculateCursorDailyRoi: half a minute for an accepted line, at 75 dollars an hour and a quality of 70 %.
CalculateCursorDailyRoi(lines) == RoundDiv(175 * Biggest(0, lines), 4)

\* CursorProductivityService.getCommitAttributionSummary, getProductivitySummary
CursorProductivityValue(from, to) ==
  LET rows == {c \in InRange(coding, from, to) : c.provider = "cursor" /\ c.user # ""}
      days == Grouped(rows, UserDay)
      lines(G) == Total(G, LAMBDA c : c.linesAccepted)
      active == {G \in days : lines(G) > 0}
      made == InRange(commits, from, to)
  IN [value |-> Total(active, LAMBDA G : CalculateCursorDailyRoi(lines(G))), days |-> Cardinality(active),
      commits |-> Cardinality(made),
      confidence |-> IF active = {} /\ made = {} THEN 0 ELSE IF made = {} THEN 65 ELSE 85]
-----------------------------------------------------------------------------
(***************************************************************************)
(* What it returned: the outcomes of v_roi above the confidence asked for. *)
(***************************************************************************)
RoiRows(from, to, minconf) == {o \in InRange(books.roi, from, to) : o.confidence >= minconf}

ValueOfRoi(o) == o.value
AiOf(o) == o.ai
LoadedOf(o) == o.loaded
RiskAdjustedOf(o) == o.riskAdjusted

Overhead(S) == Biggest(0, Total(S, LoadedOf) - Total(S, AiOf))

\* Mutant: only the months with outcomes are listed.
MonthsOfOutcomes(roi, monthly) == {Month(o.day) : o \in roi}

\* The months buildMonthly lists: those with outcomes and those with usage.
MonthsListed(roi, monthly) == {Month(o.day) : o \in roi} \union DOMAIN monthly

\* buildMonthly: the costs beside the usage are spread over the months listed.
BuildMonthly(roi, monthly, supplement, basis) ==
  LET months == MonthsListed(roi, monthly)
      of(m) == {o \in roi : Month(o.day) = m}
      loaded(m) == UsageCostForBasis(basis, At(monthly, m)) + RoundDiv(supplement, Cardinality(months)) + Overhead(of(m))
  IN [m \in months |->
        [value |-> Total(of(m), ValueOfRoi), cost |-> loaded(m), nominal |-> Total(of(m), ValueOfRoi) - loaded(m),
         riskAdjusted |-> Total(of(m), RiskAdjustedOf) + Total(of(m), LoadedOf) - loaded(m)]]

\* buildOutcomeBreakdown: shared costs go by the outcomes' own model costs, else by their number.
BuildOutcomeBreakdown(roi, shared) ==
  LET of(t) == {o \in roi : o.type = t}
      ai == Total(roi, AiOf)
      part(t) == IF ai > 0 THEN RoundDiv(shared * Total(of(t), AiOf), ai)
                 ELSE RoundDiv(shared * Cardinality(of(t)), Cardinality(roi))
      cost(t) == part(t) + Overhead(of(t))
  IN [t \in {o.type : o \in roi} |->
        [outcomes |-> Cardinality(of(t)), value |-> Total(of(t), ValueOfRoi), cost |-> cost(t),
         riskAdjusted |-> Total(of(t), RiskAdjustedOf), perOutcome |-> RoundDiv(cost(t), Cardinality(of(t)))]]

\* toOutcomeBreakdownRow
CursorOutcomeRow(from, to) ==
  LET p == CursorProductivityValue(from, to)
      spent == CursorSummary(from, to).billed
  IN [outcomes |-> IF p.days > 0 THEN p.days ELSE p.commits, value |-> p.value, cost |-> spent,
      riskAdjusted |-> RoundDiv(p.value * p.confidence, 100) - spent,
      perOutcome |-> IF p.days > 0 THEN RoundDiv(spent, p.days) ELSE 0]

\* computeCostPerOutcomeFallback: by calls, by tokens (a million in the code), by Copilot interactions.
ComputeCostPerOutcomeFallback(cost, apiCalls, tokens, copilotCalls) ==
  IF cost <= 0 THEN [value |-> 0, per |-> "none"]
  ELSE IF apiCalls > 0 THEN [value |-> RoundDiv(cost, apiCalls), per |-> "call"]
  ELSE IF tokens > 0 THEN [value |-> RoundDiv(100 * cost, tokens), per |-> "token"]
  ELSE IF copilotCalls > 0 THEN [value |-> RoundDiv(cost, copilotCalls), per |-> "interaction"]
  ELSE [value |-> 0, per |-> "none"]
-----------------------------------------------------------------------------
(***************************************************************************)
(* buildTeamBreakdown: spend of people, then of their teams.               *)
(***************************************************************************)
\* cursorSeatSpendByUser: assigned seats only, as the licence the summary reports is zero.
CursorSeatSpendByUser(from, to) ==
  LET seats == {s \in aiSeats : s.provider = "cursor" /\ s.price > 0}
      price(u) == Total({s \in seats : s.user = u}, LAMBDA s : s.price)
  IN IF DOMAIN CursorUserActivity(from, to) = {} THEN [u \in {} |-> 0]
     ELSE [u \in {s.user : s \in seats} |-> ProrateMonthlyCost(price(u), Month(from), from, to)]

PersonKey(h) == IF h = Unassigned THEN <<"raw", "unassigned">> ELSE CanonicalUserKey(h, Resolve(h))

\* Handles with their cost, before seats: metered, coding tools and Copilot.
Ingested(from, to) ==
  LET spent == ReconciledUserSpend(InRange(calls, from, to))
      metered == [u \in DOMAIN spent |-> spent[u].cost]
      tools == [u \in {Key(c) : c \in InRange(coding, from, to)} |->
                  Total({c \in InRange(coding, from, to) : Key(c) = u}, CostOf)]
  IN Plus(Plus(metered, tools), CopilotUserSpend(from, to))

\* The people of the roll-up: with their handles, team, address and cost.  On-demand Cursor usage
\* counts as far as it is more than what the person already has.
People(from, to) ==
  LET ingested == Ingested(from, to)
      cursor == CursorUserActivity(from, to)
      handles == DOMAIN ingested \union {u \in DOMAIN cursor : cursor[u].onDemand > 0}
      roster == {i \in Roster : Resolve(i.id).active}
      of(k) == {h \in handles : PersonKey(h) = k}
      known(k) == {Resolve(h) : h \in {g \in of(k) : Resolve(g).resolved}} \union {Resolve(i.id) : i \in {j \in roster : PersonKey(j.id) = k}}
      teams(k) == {x.team : x \in known(k)} \ {""}
      emails(k) == {x.email : x \in known(k)} \ {""}
      have(k) == Total(of(k) \intersect DOMAIN ingested, LAMBDA h : ingested[h])
      onDemand(k) == {cursor[h].onDemand : h \in of(k) \intersect DOMAIN cursor} \union {0}
      most(k) == CHOOSE x \in onDemand(k) : \A y \in onDemand(k) : y <= x
  IN {[key |-> k, team |-> IF teams(k) = {} THEN "" ELSE CHOOSE t \in teams(k) : TRUE,
       sample |-> IF emails(k) # {} THEN CHOOSE e \in emails(k) : TRUE
                  ELSE IF of(k) # {} THEN CHOOSE h \in of(k) : TRUE ELSE "",
       cost |-> Biggest(have(k), most(k))] :
         k \in {PersonKey(h) : h \in handles} \union {PersonKey(i.id) : i \in roster}}

\* notePresence
PresenceOfPerson(from, to, p) ==
  LET rows == ReconciledBreakdown(InRange(calls, from, to))
      tagged(t) == \E i \in identities : i.id = t.user /\ p.sample \in {i.id, i.email}
  IN {PlatformToVendor(k[2]) : k \in {q \in DOMAIN rows : q[1] # Unassigned /\ PersonKey(q[1]) = p.key}}
       \union {"github" : l \in {m \in DOMAIN CopilotUserSpend(from, to) : PersonKey(m) = p.key}}
       \union {"cursor" : u \in {v \in DOMAIN CursorUserActivity(from, to) \union DOMAIN CursorSeatSpendByUser(from, to) :
                                   PersonKey(v) = p.key}}
       \union {t.vendor : t \in {u \in tags : tagged(u)}}

\* loadSeatTierForCfo: a tag is kept under the identity's id and under its address.
SeatTierForCfo ==
  UNION {{[user |-> k, vendor |-> t.vendor, tier |-> t.tier] :
            k \in {t.user} \union {i.email : i \in {j \in identities : j.id = t.user /\ j.email # ""}}} : t \in tags}

\* allocateTeamSeats, loadFixedCostRowsForAllocation: seats by handle; the catalogue price of a tag
\* is charged under each handle it is kept under.
AllocateTeamSeats(from, to, people) ==
  LET pools == SeatPoolsForRange(fixed, from, to)
      shared == VendorsWithFixedSeatPools(pools)
      tiers == SeatTierForCfo
      presence == [s \in {p.sample : p \in people} |->
                     UNION {PresenceOfPerson(from, to, p) : p \in {q \in people : q.sample = s}}]
      alloc == AllocateSeatPools(pools, presence, tiers)
      cursor == CursorSeatSpendByUser(from, to)
      connector(h, v) == IF v = "cursor" THEN ValueOf(cursor, h) ELSE 0
      catalogue(h, v) == IF {t \in tiers : t.user = h /\ t.vendor = v} = {} THEN 0
                         ELSE CatalogSeatUnit(v, UserTierFor(tiers, h, v))
      seat(h, v) == IF v \in shared THEN SeatOf(alloc, h, v)
                    ELSE IF connector(h, v) > 0 THEN connector(h, v) ELSE catalogue(h, v)
      vendors == shared \union {"cursor"} \union {t.vendor : t \in tiers}
  IN [h \in DOMAIN presence \union DOMAIN cursor \union {t.user : t \in tiers} |->
        Total(vendors, LAMBDA v : seat(h, v))]

\* The bucket of a person: the team of the first one with the same address.
TeamOf(people, p) == (CHOOSE q \in people : q.sample = p.sample).team

\* buildTeamBreakdown, buildTeamSpendBreakdown: the teams of the directory and those without one ("").
BuildTeamBreakdown(from, to) ==
  LET people == People(from, to)
      seats == AllocateTeamSeats(from, to, people)
      late == {h \in DOMAIN seats : seats[h] > 0 /\ \A p \in people : p.key # PersonKey(h)}
      all == people \union {[key |-> k, sample |-> CHOOSE h \in late : PersonKey(h) = k, cost |-> 0,
                             team |-> Resolve(CHOOSE h \in late : PersonKey(h) = k).team] : k \in {PersonKey(h) : h \in late}}
      full(p) == p.cost + Total({h \in DOMAIN seats : PersonKey(h) = p.key}, LAMBDA h : seats[h])
  IN [t \in {i.team : i \in identities} \union {TeamOf(all, p) : p \in all} |->
        Total({p \in all : TeamOf(all, p) = t}, full)]
-----------------------------------------------------------------------------
(***************************************************************************)
(* getCfoView.                                                             *)
(***************************************************************************)
Warnings(from, to, minconf, basis, usage, supplement, value, cost) ==
  LET roi == RoiRows(from, to, minconf)
      proof == BuildCostProvenance(CostTotals(basis, from, to))
      all == InRange(books.roi, from, to)
      when(name, condition) == IF condition THEN {name} ELSE {}
  IN UNION {when("copilot value", CopilotValue(from, to) > 0),
            when("cursor value", CursorProductivityValue(from, to).value > 0),
            when("variance", proof.variance > 2 \/ proof.variance < -2),
            when("coverage", basis = "metered" /\ proof.coverage < 50),
            when("no cost", cost = 0 /\ usage > 0),
            when("no value", value = 0 /\ all # {}),
            when("threshold", roi = {} /\ all # {} /\ minconf > 0),
            when("unmapped", ReconciledUnmapped(InRange(calls, from, to)) > 0),
            when("idle seats", SeatStats.purchased > 0 /\ SeatStats.active = 0),
            when("no outcomes", usage > 0 /\ roi = {}),
            when("supplement without outcomes", supplement > 0 /\ roi = {})}

CfoView(from, to, minconf, asked, horizon) ==
  LET basis == NormalizeCostBasis(asked)
      roi == RoiRows(from, to, minconf)
      totals == CostTotals(basis, from, to)
      usage == UsageCostForBasis(basis, totals.money)
      seat == FixedCostForPeriod(from, to)
      base == IF seat.total > 0 THEN seat.total ELSE SubscriptionCostForPeriod(from, to)
      runRate == IF seat.runRate > 0 THEN seat.runRate
                 ELSE RoundDiv(base, Cardinality(BillingMonthsInRange(from, to)))
      productivity == CursorProductivityValue(from, to)
      extra == CopilotValue(from, to) + productivity.value
      supplement == CodingCost(from, to) + base + CopilotCost(from, to)
      observed == usage + supplement + Overhead(roi)
      value == Total(roi, ValueOfRoi) + extra
      forecast == Scaled(usage + CodingCost(from, to) + CopilotCost(from, to) + Overhead(roi), horizon, to - from + 1)
                    + ForecastFixedSeatCost(runRate, horizon)
      months == BuildMonthly(roi, CostMonthly(basis, from, to), supplement, basis)
      count == Cardinality(roi) + productivity.days
      providers == IF basis = "reconciled" THEN ReconciledProviderSpend(InRange(calls, from, to))
                   ELSE [p \in {r.provider : r \in InRange(calls, from, to)} |->
                           Total({r \in InRange(calls, from, to) : r.provider = p}, CostOf)]
  IN [usage |-> usage, supplement |-> supplement, observed |-> observed, forecast |-> forecast, value |-> value,
      nominal |-> value - observed,
      riskAdjusted |-> Total(roi, RiskAdjustedOf) + Total(roi, LoadedOf) + extra - observed,
      perOutcome |-> IF count > 0 THEN [value |-> RoundDiv(observed, count), per |-> "outcome"]
                     ELSE ComputeCostPerOutcomeFallback(observed, totals.calls,
                            Total(InRange(calls, from, to), LAMBDA r : r.input + r.output),
                            Total(InRange(copilot.usage, from, to), CopilotWeight)),
      months |-> months, types |-> BuildOutcomeBreakdown(roi, usage + supplement),
      cursor |-> IF productivity.value > 0 THEN {CursorOutcomeRow(from, to)} ELSE {},
      models |-> BuildModelBreakdown(basis, from, to, horizon),
      providers |-> IF CopilotCost(from, to) > 0
                    THEN Plus(providers, [p \in {CopilotProvider} |-> CopilotCost(from, to)]) ELSE providers,
      teams |-> BuildTeamBreakdown(from, to),
      warnings |-> Warnings(from, to, minconf, basis, usage, supplement, value, forecast)]
=============================================================================
