-------------------------------- MODULE Lari --------------------------------
(***************************************************************************)
(* LARI, the return of each agent adjusted for risk and for weak evidence, *)
(* and what the API recommends from it (api/src/lari): lari.ts, the        *)
(* recommendations and the worth of each product.  Amounts are cents;      *)
(* shares, scores and probabilities are hundredths.                        *)
(***************************************************************************)
EXTENDS CfoView

CONSTANTS
  Recency,     \* e^(-d/30) in hundredths, by the number of days
  Families     \* models that may stand in for each other: a function from models

Clamp(x) == IF x < 0 THEN 0 ELSE IF x > 100 THEN 100 ELSE x

\* a / b in hundredths, capped at 1
ShareOf(a, b) == IF b <= 0 THEN 0 ELSE Clamp(RoundDiv(100 * Biggest(a, 0), b))

TopOf(S, value(_)) == CHOOSE x \in S : \A y \in S : value(y) <= value(x)

\* Array.sort and slice(0, n): the n first ones; ties are broken anyhow.
FirstOf(S, n, value(_)) == {x \in S : Cardinality({y \in S : value(y) > value(x)}) < n}
-----------------------------------------------------------------------------
(***************************************************************************)
(* lari.ts and LariService: one agent.                                     *)
(***************************************************************************)
Severities == <<"none", "low", "medium", "high", "critical">>
SeverityRank(s) == IF s \in Range(Severities) THEN CHOOSE n \in DOMAIN Severities : Severities[n] = s ELSE 1
SeverityProbability(s) == <<0, 5, 15, 30, 50>>[SeverityRank(s)]

RiskRows(agent, from, to) == {r \in InRange(books.risks, from, to) : r.agent = agent}

\* topSeverity; an unknown severity counts as none.
TopSeverity(rows) ==
  IF rows = {} THEN "none" ELSE Severities[SeverityRank(TopOf(rows, LAMBDA r : SeverityRank(r.severity)).severity)]

\* buildAgentROIInput: an outcome with its attribution edge; without a baseline it counts in full.
OutcomeLink(agent, o) ==
  LET edge == {e \in books.edges : e.agent = agent /\ e.outcome = o.id}
      e == CHOOSE e \in edge : TRUE
      method == IF edge # {} THEN e.method ELSE IF o.confidence >= 99 THEN "deterministic" ELSE "probabilistic"
  IN [value |-> o.value, confidence |-> Clamp(o.confidence), method |-> method, edge |-> edge # {},
      incrementality |-> IF edge # {} /\ e.delta >= 0 THEN Clamp(e.delta) ELSE 100,
      verified |-> o.completed /\ o.source \notin {"manual", "api"}, day |-> o.day, id |-> o.id]

Links(agent, from, to) == {OutcomeLink(agent, o) : o \in {p \in InRange(books.roi, from, to) : p.agent = agent}}

\* calculateAttributedIncrementalValue
CalculateAttributedIncrementalValue(links) ==
  Total(links, LAMBDA l : RoundDiv(l.value * l.confidence * l.incrementality, 10000))

\* The cost components: tokens, review, infrastructure; amortized build cost is always zero.
CostParts(agent, from, to) ==
  LET roi == {o \in InRange(books.roi, from, to) : o.agent = agent}
  IN <<Total({c \in InRange(books.agentCalls, from, to) : c.agent = agent}, CostOf),
       Total(roi, LAMBDA o : o.qa), Total(roi, LAMBDA o : o.infra), 0>>

\* calculateFullyLoadedCost
CalculateFullyLoadedCost(parts) == parts[1] + parts[2] + parts[3] + parts[4]

\* calculateExpectedRiskLoss
CalculateExpectedRiskLoss(value, exposure, probability) == RoundDiv(Biggest(0, value) * Clamp(exposure) * probability, 10000)

\* calculateConfidenceScore: six weighted parts.
CalculateConfidenceScore(links, parts, to) ==
  LET n == Cardinality(links)
      share(S) == RoundDiv(100 * Cardinality(S), n)
      quality == share({l \in links : l.method = "deterministic"})
      strength == RoundDiv(Total(links, LAMBDA l : l.confidence), n)
      causal == IF {l \in links : l.edge} = {} THEN 30 ELSE share({l \in links : l.edge})
      complete == 25 * Cardinality({i \in DOMAIN parts : parts[i] > 0})
      verified == share({l \in links : l.verified})
      age == to - TopOf(links, LAMBDA l : l.day).day
  IN IF n = 0 THEN RoundDiv(15 * complete, 100)
     ELSE RoundDiv(25 * quality + 20 * strength + 20 * causal + 15 * complete + 10 * verified + 10 * Recency[age], 100)

\* calculateUncertaintyReserve
CalculateUncertaintyReserve(value, confidence) == RoundDiv(Biggest(0, value) * Clamp(100 - confidence), 100)

\* recommendAgentAction: risk first, then the sign of the return, the evidence and the margin.  The
\* ratio net / cost is compared without dividing; a cost of zero is a tiny one.
RecommendAgentAction(net, cost, confidence, severity, value) ==
  IF severity = "critical" THEN (IF net >= 0 THEN "require_approval" ELSE "pause")
  ELSE IF net < 0 THEN (IF value <= 100 THEN "retire" ELSE "investigate")
  ELSE IF confidence < 50 THEN "improve_evidence"
  ELSE IF net >= cost /\ (cost > 0 \/ net > 0) /\ confidence >= 70 THEN "scale"
  ELSE IF 4 * net < cost \/ net = 0 THEN "optimize" ELSE "maintain"

\* buildLedger: the limits the result names.
Limitations(links, cost) ==
  (IF \E l \in links : l.incrementality >= 100 THEN {"full incrementality"} ELSE {})
    \union (IF cost <= 0 THEN {"near-zero cost"} ELSE {}) \union {"single incident", "linear reserve"}

\* computeForAgent, calculateRiskAdjustedROI
ComputeForAgent(agent, from, to) ==
  LET links == Links(agent, from, to)
      roi == {o \in InRange(books.roi, from, to) : o.agent = agent}
      exposure == IF roi = {} THEN 0 ELSE TopOf(roi, LAMBDA o : o.exposure).exposure
      severity == TopSeverity(RiskRows(agent, from, to))
      parts == CostParts(agent, from, to)
      value == CalculateAttributedIncrementalValue(links)
      cost == CalculateFullyLoadedCost(parts)
      loss == CalculateExpectedRiskLoss(value, exposure, SeverityProbability(severity))
      confidence == CalculateConfidenceScore(links, parts, to)
      net == value - cost - loss - CalculateUncertaintyReserve(value, confidence)
  IN [agent |-> agent, value |-> value, cost |-> cost, loss |-> loss, net |-> net, confidence |-> confidence,
      limits |-> Limitations(links, cost), action |-> RecommendAgentAction(net, cost, confidence, severity, value)]
-----------------------------------------------------------------------------
(***************************************************************************)
(* The input of the recommendations (assembleEngineInput).                 *)
(***************************************************************************)
Agents(from, to) == {o.agent : o \in InRange(books.roi, from, to)} \union {c.agent : c \in InRange(books.agentCalls, from, to)}

\* buildAgentEconomics, without the cap of 25 agents
AgentEconomics(from, to) == {ComputeForAgent(a, from, to) : a \in Agents(from, to)}

AgentProviderSpend(from, to) ==
  LET rows == InRange(books.agentCalls, from, to)
  IN [k \in {<<c.agent, c.provider>> : c \in rows} |-> Total({c \in rows : <<c.agent, c.provider>> = k}, CostOf)]

\* The users who cost something or are listed in a file, by provider.
ActiveUsers(from, to, provider) ==
  Cardinality({r.user : r \in {q \in Rows(from, to) : q.provider = provider /\ (EffectiveMetered(q) > 0 \/ PortalImportActivity(q))}} \ {""})

\* fallbackPlansFromFixedCosts
FallbackPlans ==
  LET latest == LatestSeatByVendor(fixed)
  IN {[id |-> <<"fixed", v>>, provider |-> v, purchased |-> latest[v].seats, contract |-> latest[v].usd,
       price |-> IF latest[v].seats > 0 THEN RoundDiv(latest[v].usd, latest[v].seats) ELSE 0, tier |-> "standard"] : v \in DOMAIN latest}

\* subscriptionPlans, else the fixed costs; a plan without seat rows counts the provider's active users.
Plans(from, to) ==
  LET assigned(p) == Cardinality({s \in aiSeats : s.provider = p.provider /\ p \in books.plans})
      least(a, b) == IF a < b THEN a ELSE b
      active(p) == IF assigned(p) > 0 THEN assigned(p) ELSE least(p.purchased, ActiveUsers(from, to, p.provider))
  IN {[id |-> p.id, provider |-> p.provider, purchased |-> p.purchased, contract |-> p.contract, price |-> p.price,
       tier |-> p.tier, active |-> active(p)] : p \in IF books.plans # {} THEN books.plans ELSE FallbackPlans}

SeatCounts(from, to) ==
  IF SeatStats.purchased > 0 THEN SeatStats
  ELSE [purchased |-> Total(Plans(from, to), LAMBDA p : p.purchased), active |-> Total(Plans(from, to), LAMBDA p : p.active)]

\* copilotPortfolioRoiPct; no figure without organisation rows
CopilotRoi(from, to) ==
  LET rows == InRange(copilot.roi, from, to)
      value == Total(rows, LAMBDA r : r.value)
      cost == Total(rows, LAMBDA r : r.base + r.overage)
  IN IF ~ copilot.connected \/ rows = {} \/ cost <= 0 THEN {} ELSE {(100 * (value - cost)) \div cost}

\* loadPriceBookAt: models with an input and an output rate in force on the last day.
PriceBookAt(day) ==
  LET live(type) == {e \in PriceBook : e.type = type /\ e.from <= day /\ (e.to = 0 \/ day < e.to)}
  IN {[provider |-> i.provider, models |-> i.models, length |-> i.length, input |-> i.rate, output |-> o.rate] :
        <<i, o>> \in {p \in live("input") \X live("output") : /\ p[1].provider = p[2].provider
                                                             /\ p[1].models = p[2].models /\ p[1].length = p[2].length}}

Period(from, to) == to - from + 1

\* monthlyFactor
Monthly(amount, from, to) == RoundDiv(30 * amount, Period(from, to))
-----------------------------------------------------------------------------
(***************************************************************************)
(* Scores.                                                                 *)
(***************************************************************************)
Tiers4 == <<"low", "standard", "high", "critical">>
Dampening(tier) == <<0, 15, 40, 70>>[CHOOSE n \in 1..4 : Tiers4[n] = tier]

\* highestCriticalityTier
HighestCriticalityTier(tiers) == IF tiers = {} THEN "standard" ELSE TopOf(tiers, Dampening)

\* utilizationRatio
UtilizationRatio(active, purchased) == IF purchased <= 0 THEN 100 ELSE Clamp(RoundDiv(100 * active, purchased))

\* compositeMlScore: factors <<weight, value>>
CompositeMlScore(factors) ==
  LET sum(f(_)) == Total(DOMAIN factors, LAMBDA i : f(factors[i]))
  IN RoundDiv(sum(LAMBDA f : f[1] * Clamp(f[2])), sum(LAMBDA f : f[1]))

\* criticalityFactor
CriticalityFactor(tier) == <<25, 100 - Dampening(tier)>>

\* priorityFromScore
PriorityFromScore(score) ==
  IF score >= 80 THEN "critical" ELSE IF score >= 60 THEN "high" ELSE IF score >= 35 THEN "medium" ELSE "low"

\* percentileRank, of a provider among those ranked
PercentileRank(p, worth) == RoundDiv(100 * Cardinality({q \in DOMAIN worth : worth[q] < worth[p]}), Cardinality(DOMAIN worth))

\* linearTrendSlope: its numerator, which has its sign, and the slope itself.
TrendSum(s) == Total(DOMAIN s, LAMBDA i : (2 * i - Len(s) - 1) * s[i])
LinearTrendSlope(s) == IF Len(s) < 2 THEN 0 ELSE RoundDiv(6 * TrendSum(s), Len(s) * (Len(s) * Len(s) - 1))

\* zScoreLast: how far the last value is above the mean of the others.  Its square is above / spread,
\* which test compares; the values are taken in dollars.
ZScore(series, test(_, _)) ==
  LET s == [i \in DOMAIN series |-> series[i] \div 100]
      n == Len(s) - 1
      sum == Total(1..n, LAMBDA i : s[i])
      spread == Total(1..n, LAMBDA i : (n * s[i] - sum) * (n * s[i] - sum))
      above == n * s[n + 1] - sum
  IN Len(s) >= 3 /\ spread > 0 /\ above > 0 /\ test(above * above * n, spread)

\* The score as a share of top, in tenths of it.
ZScoreShare(s, top) == 10 * Cardinality({h \in 1..10 : ZScore(s, LAMBDA a, b : 100 * a >= top * top * h * h * b)})

\* Mutant: each provider an agent used gets the agent's whole value.
ValueInFull(from, to, provider) ==
  Total({e \in AgentEconomics(from, to) : <<e.agent, provider>> \in DOMAIN AgentProviderSpend(from, to)}, LAMBDA e : e.value)

\* rankProviders: an agent's value is shared among its providers by what it spent there.
ValueOfProvider(from, to, provider) ==
  LET spent == AgentProviderSpend(from, to)
      all(a) == Total({k \in DOMAIN spent : k[1] = a}, LAMBDA k : spent[k])
      users == {e \in AgentEconomics(from, to) : <<e.agent, provider>> \in DOMAIN spent /\ all(e.agent) > 0}
  IN Total(users, LAMBDA e : RoundDiv(e.value * spent[<<e.agent, provider>>], all(e.agent)))

RankProviders(from, to, spend) ==
  LET value == [p \in DOMAIN spend |-> ValueOfProvider(from, to, p)]
      worth == [p \in DOMAIN spend |-> IF spend[p] > 0 THEN RoundDiv(100 * value[p], spend[p]) ELSE 0]
  IN [p \in DOMAIN spend |-> [cost |-> spend[p], value |-> value[p], worth |-> worth[p], score |-> PercentileRank(p, worth)]]
=============================================================================
