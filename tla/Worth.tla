------------------------------- MODULE Worth --------------------------------
(***************************************************************************)
(* What LARI recommends (api/src/lari/lari-recommendations.ts) and its     *)
(* verdict on each product (lari-product-worth.ts, lari-spend-narrative.ts,*)
(* lari-import-coverage.ts, lari-connector-spend.ts).  A recommendation is *)
(* [id, about, saving, score, priority]; the saving is that of a month,    *)
(* zero where none is named.                                               *)
(***************************************************************************)
EXTENDS Lari

CONSTANT
  TrendDays    \* days with spend that a trend needs; seven in the code

Dollars(n) == 100 * n

Rec(id, about, saving, factors) ==
  [id |-> id, about |-> about, saving |-> saving, score |-> CompositeMlScore(factors),
   priority |-> PriorityFromScore(CompositeMlScore(factors))]

\* A recommendation whose priority does not follow from its score.
RecAs(priority, id, about, saving, factors) == [Rec(id, about, saving, factors) EXCEPT !.priority = priority]

When(condition, rec) == IF condition THEN {rec} ELSE {}

\* A table by day, in the order of the days.
Series(daily) == LET days == SetToSortSeq(DOMAIN daily, <) IN [i \in DOMAIN days |-> daily[days[i]]]

ProviderSpend(from, to) == ReconciledProviderSpend(InRange(calls, from, to))

ProviderCalls(from, to, p) ==
  LET b == ReconciledBreakdown(InRange(calls, from, to)) IN Total({k \in DOMAIN b : k[2] = p}, LAMBDA k : b[k].calls)

TierOf(plans) == HighestCriticalityTier({p.tier : p \in plans})
-----------------------------------------------------------------------------
(***************************************************************************)
(* lari-recommendations.                                                   *)
(***************************************************************************)
Unused(p) == Biggest(0, p.purchased - p.active)

\* seatRecommendations
SeatRecommendations(from, to) ==
  LET plans == Plans(from, to)
      seats == SeatCounts(from, to)
      unused == Biggest(0, seats.purchased - seats.active)
      waste == Total({p \in plans : p.purchased > 0}, LAMBDA p : RoundDiv(Unused(p) * p.contract, p.purchased))
      idle == IF copilot.connected THEN Cardinality(copilot.idle) ELSE 0
      price == 1900
  IN When(seats.purchased > 0 /\ unused > 0,
          Rec("remove-unused-seats", "seats", waste,
              <<<<50, 100 - UtilizationRatio(seats.active, seats.purchased)>>, <<30, ShareOf(unused, seats.purchased)>>,
                <<20, ShareOf(waste, Dollars(500))>>, CriticalityFactor(TierOf({p \in plans : p.purchased > p.active}))>>))
     \union When(idle > 0,
                 Rec("copilot-inactive-seats", CopilotProvider, idle * price,
                     <<<<60, ShareOf(idle, 10)>>, <<40, ShareOf(idle * price, Dollars(500))>>,
                       CriticalityFactor(TierOf({p \in plans : p.provider = CopilotProvider}))>>))
     \union {Rec("plan-no-active", p.id, p.contract, <<<<100, 75>>, CriticalityFactor(p.tier)>>) :
               p \in {q \in plans : q.purchased > 0 /\ q.active = 0}}

\* planRecommendations, the first: costs per call are compared by cross products.
SwitchProvider(from, to) ==
  LET spend == ProviderSpend(from, to)
      n == [p \in DOMAIN spend |-> ProviderCalls(from, to, p)]
      called == {p \in DOMAIN spend : n[p] > 0}
      cheap == CHOOSE p \in called : \A q \in called : spend[p] * n[q] <= spend[q] * n[p]
      dear == CHOOSE p \in called : \A q \in called : spend[p] * n[q] >= spend[q] * n[p]
      saved == spend[dear] - RoundDiv(spend[cheap] * n[dear], n[cheap])
  IN IF Cardinality(DOMAIN spend) < 2 \/ called = {} THEN {}
     ELSE When(2 * spend[dear] * n[cheap] > 3 * spend[cheap] * n[dear] /\ spend[dear] > Dollars(100),
               Rec("switch-lower-cost-provider", dear, Monthly(saved, from, to),
                   <<<<50, ShareOf(saved, spend[dear])>>, <<30, ShareOf(spend[dear], Dollars(1000))>>,
                     <<20, ShareOf(Monthly(saved, from, to), Dollars(500))>>,
                     CriticalityFactor(TierOf({p \in Plans(from, to) : p.provider = dear}))>>))

\* planRecommendations: the days' trend, and providers of little value beside the best.
PlanRecommendations(from, to) ==
  LET daily == Series(ReconciledTenantDaily(InRange(calls, from, to)))
      slope == LinearTrendSlope(daily)
      tier == CriticalityFactor(TierOf(Plans(from, to)))
      ranks == RankProviders(from, to, ProviderSpend(from, to))
      top == TopOf(DOMAIN ranks, LAMBDA p : ranks[p].worth)
      low == {p \in DOMAIN ranks : ranks[p].cost > Dollars(50) /\ ranks[p].score < 25}
  IN SwitchProvider(from, to)
     \union When(Len(daily) >= TrendDays /\ ZScore(daily, LAMBDA a, b : a >= 4 * b),
                 Rec("spend-anomaly-spike", "tenant", 0,
                     <<<<60, ZScoreShare(daily, 4)>>, <<40, ShareOf(slope, Dollars(50))>>, tier>>))
     \union When(Len(daily) >= TrendDays /\ slope > Dollars(5) /\ daily[Len(daily)] > Dollars(50),
                 RecAs(IF slope > Dollars(20) THEN "high" ELSE "medium", "spend-trend-rising", "tenant", 0, <<<<100, ShareOf(slope, Dollars(30))>>, tier>>))
     \union {RecAs("medium", "low-value-provider", p, 0, <<<<1, 100 - ranks[p].score>>>>) :
               p \in {q \in FirstOf(low, 2, LAMBDA r : ranks[r].worth) : q # top}}

Actionable == {"pause", "retire", "investigate", "require_approval", "optimize", "scale"}

\* agentEconomicsRecommendations
AgentEconomicsRecommendations(from, to) ==
  LET agents == AgentEconomics(from, to)
      saving(e) == IF e.action \in {"retire", "pause"} THEN e.cost ELSE IF e.action = "optimize" THEN RoundDiv(e.cost, 5) ELSE 0
      urgency(e) == IF e.action \in {"pause", "retire"} THEN 100
                    ELSE IF e.action \in {"investigate", "require_approval"} THEN 70 ELSE 40
      strength(e) == ShareOf(Biggest(e.net, - e.net), Biggest(e.cost, 1))
      best == TopOf(agents, LAMBDA e : e.value)
      priority(e) == [u \in {100, 70, 40} |-> CASE u = 100 -> "critical" [] u = 70 -> "high"
                                                [] OTHER -> IF e.action = "optimize" THEN "medium" ELSE "low"][urgency(e)]
  IN {RecAs(priority(e), "agent", e.agent, Monthly(saving(e), from, to),
          <<<<40, urgency(e)>>, <<30, strength(e)>>, <<30, ShareOf(e.cost, Dollars(500))>>>>) :
        e \in {f \in agents : f.action \in Actionable}}
     \union (IF agents = {} THEN {}
             ELSE When(best.value > 0 /\ best.action = "scale", RecAs("low", "top-value-agent", best.agent, 0, <<<<1, 30>>>>)))

\* configurationRecommendations
ConfigurationRecommendations(from, to) ==
  LET unmapped == ReconciledUnmapped(InRange(calls, from, to))
  IN When(unmapped > Dollars(50), Rec("unmapped-spend", Unassigned, 0, <<<<100, ShareOf(unmapped, Dollars(500))>>>>))

\* modelFamily
ModelFamily(provider, model) == IF model \in DOMAIN Families THEN Families[model] ELSE provider

\* projectedCostUsd; with the token mix fixed it orders the rates as blendedRate does
ProjectedCost(rate, usage) == usage.input * rate.input + usage.output * rate.output

\* resolveModelRate, substitutionCandidates
SubstitutionCandidates(provider, model, usage, book) ==
  LET own == {r \in book : r.provider = provider /\ model \in r.models}
      incumbent == TopOf(own, LAMBDA r : r.length)
      family(r) == ModelFamily(r.provider, CHOOSE m \in r.models : TRUE)
  IN IF own = {} THEN {}
     ELSE {r \in book : /\ family(r) = ModelFamily(provider, model)
                        /\ ProjectedCost(r, usage) < ProjectedCost(incumbent, usage)}

\* modelSubstitutionRecs
ModelSubstitutionRecs(from, to) ==
  LET usage == ReconciledModelUsage(InRange(calls, from, to))
      others(k) == SubstitutionCandidates(k[1], k[2], usage[k], PriceBookAt(to))
      saved(k) == usage[k].cost - ProjectedCost(TopOf(others(k), LAMBDA r : - ProjectedCost(r, usage[k])), usage[k])
      monthly(k) == Monthly(saved(k), from, to)
      worthwhile(k) == /\ usage[k].cost >= Dollars(25) /\ usage[k].input + usage[k].output > 0
                       /\ others(k) # {}
                       /\ saved(k) > 0 /\ monthly(k) >= Dollars(20) /\ 10 * saved(k) >= usage[k].cost
  IN {Rec("model-substitution", k, monthly(k),
          <<<<50, ShareOf(monthly(k), Dollars(500))>>, <<30, ShareOf(2 * saved(k), usage[k].cost)>>,
            <<20, ShareOf(usage[k].cost, Dollars(1000))>>>>) :
        k \in FirstOf({j \in DOMAIN usage : worthwhile(j)}, 3, monthly)}

\* userValueRecs for teams: idle seats by plan, and half the price of seats used little.
TeamSeatRecs(from, to) ==
  LET util == Utilization(from, to)
      seated(status, p) == {k \in DOMAIN util : util[k].hasSeat /\ util[k].status = status /\ util[k].seatProvider = p}
      plans(status) == {util[k].seatProvider : k \in {j \in DOMAIN util : util[j].hasSeat /\ util[j].status = status}}
      price(S) == Total(S, LAMBDA k : util[k].seat)
      tier(p) == HighestCriticalityTier({"standard"} \union {q.tier : q \in {r \in books.plans : r.provider = p}})
      lowFactors(p) == <<<<40, ShareOf(Cardinality(seated("low_use", p)), 10)>>,
                         <<60, ShareOf(price(seated("low_use", p)), Dollars(600))>>, CriticalityFactor(tier(p))>>
  IN {Rec("unused-platform", p, price(seated("inactive", p)),
          <<<<50, ShareOf(Cardinality(seated("inactive", p)), 10)>>, <<50, ShareOf(price(seated("inactive", p)), Dollars(500))>>,
            CriticalityFactor(tier(p))>>) : p \in plans("inactive")}
     \union {RecAs(PriorityFromScore(RoundDiv(85 * CompositeMlScore(lowFactors(p)), 100)),
                   "low-use-platform", p, RoundDiv(price(seated("low_use", p)), 2), lowFactors(p)) : p \in plans("low_use")}

\* userValueRecs for individuals: the five dearest idle seats, and cost that jumps while calls do not grow.
IndividualRecs(from, to) ==
  LET util == Utilization(from, to)
      daily == ReconciledUserDaily(InRange(calls, from, to))
      mine(k) == {q \in DOMAIN daily : q[1] # Unassigned /\ UtilizationKey(q[1]) = k}
      byDay(k, f(_)) == [d \in {q[2] : q \in mine(k)} |-> Total({q \in mine(k) : q[2] = d}, f)]
      cost(k) == Series(byDay(k, LAMBDA q : daily[q].cost))
      count(k) == Series(byDay(k, LAMBDA q : daily[q].calls))
      idle == {k \in DOMAIN util : util[k].hasSeat /\ util[k].status = "inactive"}
      odd == {k \in DOMAIN util : Len(cost(k)) >= TrendDays /\ ZScore(cost(k), LAMBDA a, b : a > 9 * b) /\ TrendSum(count(k)) <= 0}
  IN {Rec("unused-platform-user", k, util[k].seat,
          <<<<60, ShareOf(util[k].seat, Dollars(100))>>, <<40, 100>>, CriticalityFactor("standard")>>) :
        k \in FirstOf(idle, 5, LAMBDA k : util[k].seat)}
     \union {Rec("cost-without-activity", k, 0, <<<<60, ZScoreShare(cost(k), 5)>>, <<40, 100>>, CriticalityFactor("standard")>>) :
               k \in odd}

UserValueRecs(from, to, mode) == IF mode = "team" THEN TeamSeatRecs(from, to) ELSE IndividualRecs(from, to)
-----------------------------------------------------------------------------
(***************************************************************************)
(* lari-product-worth.                                                     *)
(***************************************************************************)

\* seatCostForProvider
SeatCostForProvider(p, from, to) ==
  RoundDiv(Total({q \in Plans(from, to) : q.provider = p}, LAMBDA q : q.contract) * Period(from, to), 30)

\* utilizationForProvider: the provider's first plan, else the people who use or hold it.
UtilizationForProvider(p, from, to) ==
  LET plans == {q \in Plans(from, to) : q.provider = p}
      plan == CHOOSE q \in plans : TRUE
      util == Utilization(from, to)
      users == {k \in DOMAIN util : p \in util[k].providers}
      in(status) == {k \in users : util[k].status = status}
  IN IF plans # {} /\ plan.purchased > 0
     THEN [rate |-> UtilizationRatio(plan.active, plan.purchased), idle |-> Unused(plan), seats |-> plan.contract]
     ELSE IF users = {} THEN [rate |-> 100, idle |-> 0, seats |-> 0]
     ELSE [rate |-> UtilizationRatio(Cardinality(in("active")), Cardinality(users)),
           idle |-> Cardinality({k \in in("inactive") : util[k].hasSeat}), seats |-> Total(users, LAMBDA k : util[k].seat)]

\* topDriversForProvider
TopDriversForProvider(p, from, to, use) ==
  LET models == ReconciledModelUsage(InRange(calls, from, to))
      util == Utilization(from, to)
      byCost(x) == x.cost
      driver(type, label, cost) == [type |-> type, label |-> label, cost |-> cost]
  IN FirstOf(FirstOf({driver("model", k[2], models[k].cost) : k \in {j \in DOMAIN models : j[1] = p}}, 2, byCost)
               \union FirstOf({driver("user", k, util[k].cost) : k \in {j \in DOMAIN util : p \in util[j].providers}}, 2, byCost)
               \union When(use.idle > 0 /\ use.seats > 0, driver("seat_waste", p, use.seats)), 3, byCost)

Verdict(verdict, confidence, basis) == [verdict |-> verdict, confidence |-> confidence, basis |-> basis]

\* deriveVerdict: outcomes, else Copilot's own return, else how much the seats are used.
DeriveVerdict(p, value, ratio, use, count, roi) ==
  LET sure == IF 55 + RoundDiv(ratio, 5) > 95 THEN 95 ELSE 55 + RoundDiv(ratio, 5)
      pct == CHOOSE r \in roi : TRUE
      known == 25 + RoundDiv(35 * use.rate, 100) + (IF count > 0 THEN 15 ELSE 0)
  IN IF value > 0
     THEN IF ratio >= 100 THEN Verdict("worth_it", sure, "outcomes")
          ELSE IF ratio >= 50 THEN Verdict("marginal", sure - 10, "outcomes") ELSE Verdict("not_worth_it", sure, "outcomes")
     ELSE IF p = CopilotProvider /\ roi # {}
     THEN IF pct >= 20 THEN Verdict("worth_it", 60, "productivity_proxy")
          ELSE IF pct >= 0 THEN Verdict("marginal", 45, "productivity_proxy") ELSE Verdict("not_worth_it", 55, "productivity_proxy")
     ELSE IF count = 0 /\ use.rate = 0 THEN Verdict("insufficient_data", 15, "none")
     ELSE IF use.rate >= 65 /\ count > 10 THEN Verdict("marginal", known, "utilization")
     ELSE IF use.rate < 35 \/ use.idle >= 2 THEN Verdict("not_worth_it", Biggest(known, 40), "utilization")
     ELSE Verdict("insufficient_data", IF known < 35 THEN known ELSE 35, "none")

\* recommendedBudget
RecommendedBudget(verdict, rate, use, reclaimable) ==
  CASE verdict = "not_worth_it" -> Biggest(0, RoundDiv(rate * use.rate, 100) - RoundDiv(reclaimable, 2))
    [] verdict = "marginal" -> Biggest(0, rate - reclaimable)
    [] verdict = "worth_it" -> RoundDiv(11 * rate, 10)
    [] OTHER -> rate

\* supplementalConnectorSpend, mergeProviderSpendRows: Copilot; the Cursor licence is reported as zero.
SpendWithConnectors(from, to) ==
  IF HasCopilotSpend(from, to)
  THEN Plus(ProviderSpend(from, to), [p \in {CopilotProvider} |-> CopilotSpend(from, to).total]) ELSE ProviderSpend(from, to)

\* priorRange
PriorRange(from, to) == <<from - Period(from, to), from - 1>>

\* trendFromChange: {} is an unknown change
TrendFromChange(change) ==
  IF change = {} THEN "insufficient"
  ELSE LET c == CHOOSE c \in change : TRUE IN IF c >= 10 THEN "up" ELSE IF c <= -10 THEN "down" ELSE "flat"

\* buildSpendNarrative: the change against the period before, as far as prior spend is known, and
\* whether outcomes are asked for.
BuildSpendNarrative(total, prior, value, verdict) ==
  LET change == {RoundDiv(100 * (total - b), b) : b \in {c \in prior : c > 0}}
  IN [change |-> change, trend |-> TrendFromChange(change),
      connect |-> value <= 0 /\ (verdict.basis \in {"utilization", "none"} \/ verdict.verdict = "insufficient_data")]

\* enrichProductsWithSources: from which source a product's spend comes.
DataMode(source) ==
  LET from == {s \in DOMAIN source : source[s] > 0}
  IN IF Cardinality(from) = 1 THEN CHOOSE s \in from : TRUE ELSE "mixed"

\* fetchSourceBreakdown, with Copilot's spend as a connector's
SourcesOf(p, from, to) ==
  LET sources == ProviderSourceBreakdown(InRange(calls, from, to))
      none == [portal |-> 0, connector |-> 0, live |-> 0]
      found == IF p \in DOMAIN sources THEN sources[p] ELSE none
  IN IF p = CopilotProvider THEN [found EXCEPT !.connector = @ + CopilotCost(from, to)] ELSE found

\* buildProductWorthScorecard; spend is what each provider metered, prior the same of the period before.
BuildProductWorthScorecard(from, to, spend, prior) ==
  LET ranks == RankProviders(from, to, spend)
      total(p) == ValueOf(spend, p) + SeatCostForProvider(p, from, to)
      products == {p \in DOMAIN spend \union {q.provider : q \in Plans(from, to)} : total(p) > 0}
      value(p) == IF p \in DOMAIN ranks THEN ranks[p].value ELSE 0
      ratio(p) == RoundDiv(100 * value(p), total(p))
      use(p) == UtilizationForProvider(p, from, to)
      verdict(p) == DeriveVerdict(p, value(p), ratio(p), use(p), IF p \in DOMAIN spend THEN ProviderCalls(from, to, p) ELSE 0,
                                  CopilotRoi(from, to))
      rate(p) == Monthly(total(p), from, to)
      reclaimable(p) == IF use(p).idle > 0 THEN use(p).seats ELSE 0
      before(p) == IF p \in DOMAIN prior THEN {prior[p] + SeatCostForProvider(p, from, to)} ELSE {}
  IN [p \in products |->
        [total |-> total(p), value |-> value(p), ratio |-> ratio(p), verdict |-> verdict(p), rate |-> rate(p),
         budget |-> RecommendedBudget(verdict(p).verdict, rate(p), use(p), reclaimable(p)), reclaimable |-> reclaimable(p),
         drivers |-> TopDriversForProvider(p, from, to, use(p)),
         narrative |-> BuildSpendNarrative(total(p), before(p), value(p), verdict(p)),
         mode |-> DataMode(SourcesOf(p, from, to))]]

\* getProductWorth
ProductWorth(from, to) ==
  LET before == PriorRange(from, to)
  IN BuildProductWorthScorecard(from, to, SpendWithConnectors(from, to), ProviderSpend(before[1], before[2]))

\* productWorthRecs
ProductWorthRecs(card) ==
  LET part(p) == IF card[p].verdict.verdict = "not_worth_it" THEN 40 ELSE 15
  IN {RecAs("low", "product-worth-scale", p, 0, <<<<1, 25>>>>) :
        p \in {q \in DOMAIN card : card[q].verdict.verdict = "worth_it" /\ card[q].ratio >= 150 /\ card[q].value > 0}}
     \union {Rec("product-worth", p, RoundDiv(card[p].rate * part(p), 100),
                 <<<<50, IF part(p) = 40 THEN 100 ELSE 60>>, <<30, ShareOf(card[p].total, Dollars(1000))>>,
                   <<20, 100 - card[p].verdict.confidence>>>>) :
               p \in {q \in DOMAIN card : card[q].verdict.verdict \in {"marginal", "not_worth_it"}}}

\* budgetSuggestionRecs: changes of more than a twentieth.
BudgetSuggestionRecs(card) ==
  LET cut(p) == card[p].rate - card[p].budget
  IN {Rec("budget-suggestion", p, Biggest(0, cut(p)),
          <<<<50, ShareOf(Biggest(cut(p), - cut(p)), Dollars(500))>>,
            <<50, IF card[p].verdict.verdict = "not_worth_it" THEN 100 ELSE 50>>>>) :
        p \in {q \in DOMAIN card : card[q].rate > 0 /\ (20 * cut(q) > card[q].rate \/ (-20) * cut(q) > card[q].rate)}}

\* spendDriverRecs
SpendDriverRecs(card) ==
  LET jump(p) == \E c \in card[p].narrative.change : c >= 25
  IN {RecAs(IF jump(p) THEN "high" ELSE "medium", IF jump(p) THEN "spend-driver-spike" ELSE "spend-driver-outcomes", p, 0,
            <<<<1, IF jump(p) THEN 70 ELSE 40>>>>) :
        p \in {q \in DOMAIN card : card[q].total >= Dollars(50) /\ (jump(q) \/ card[q].narrative.connect)}}

\* buildBudgetSuggestions: [scope, id, rate, budget]
BuildBudgetSuggestions(card, agents, from, to) ==
  LET differ(a, b) == 20 * (a - b) >= a \/ 20 * (b - a) >= a
      rate == Total(DOMAIN card, LAMBDA p : card[p].rate)
      budget == Total(DOMAIN card, LAMBDA p : card[p].budget)
      of(e) == CASE e.action \in {"retire", "pause"} -> 0 [] e.action = "scale" -> RoundDiv(5 * Monthly(e.cost, from, to), 4)
                 [] OTHER -> RoundDiv(4 * Monthly(e.cost, from, to), 5)
      line(scope, id, r, b) == [scope |-> scope, id |-> id, rate |-> r, budget |-> b]
  IN {line("product", p, card[p].rate, card[p].budget) :
        p \in {q \in DOMAIN card : card[q].rate > 0 /\ differ(card[q].rate, card[q].budget)}}
     \union When(rate > 0 /\ budget > 0 /\ differ(rate, budget), line("tenant", "portfolio", rate, budget))
     \union {line("agent", e.agent, Monthly(e.cost, from, to), of(e)) :
               e \in {f \in agents : f.cost > 0 /\ f.action \in {"retire", "pause", "scale", "optimize"}}}

\* buildDataCoverage, importParityNarrative; fetchOutcomeStats counts all outcomes and those in v_roi.
BuildDataCoverage(card, from, to) ==
  LET providers == {r.provider : r \in Rows(from, to)} \union (IF HasCopilotSpend(from, to) THEN {CopilotProvider} ELSE {})
      sum(s) == Total(providers, LAMBDA p : SourcesOf(p, from, to)[s])
      spent == sum("portal") + sum("connector") + sum("live")
      linked == Cardinality(InRange(books.roi, from, to))
      all == Cardinality(InRange(outcomes, from, to))
      share == Percent(sum("portal"), spent)
  IN [total |-> spent, share |-> share, importOnly |-> Cardinality({p \in DOMAIN card : card[p].mode = "portal"}),
      linked |-> Percent(linked, all),
      message |-> IF spent <= 0 THEN "no spend"
                  ELSE IF linked > 0 THEN (IF share >= 50 /\ all > 0 THEN "imports feed the return" ELSE "")
                  ELSE IF share >= 30 THEN "import outcomes" ELSE IF all = 0 THEN "no outcomes" ELSE "none linked"]
-----------------------------------------------------------------------------
\* generateLariRecommendations: the products are judged on metered spend alone here.
GenerateLariRecommendations(from, to, mode) ==
  LET card == BuildProductWorthScorecard(from, to, ProviderSpend(from, to), [p \in {} |-> 0])
  IN SeatRecommendations(from, to) \union PlanRecommendations(from, to) \union AgentEconomicsRecommendations(from, to)
       \union ConfigurationRecommendations(from, to) \union ModelSubstitutionRecs(from, to) \union UserValueRecs(from, to, mode)
       \union ProductWorthRecs(card) \union BudgetSuggestionRecs(card) \union SpendDriverRecs(card)

\* getRecommendations
Recommendations(from, to, mode) ==
  LET recs == GenerateLariRecommendations(from, to, mode)
      with(priority) == Cardinality({r \in recs : r.priority = priority})
  IN [recs |-> recs, savings |-> Total(recs, LAMBDA r : r.saving), critical |-> with("critical"), high |-> with("high")]
=============================================================================
