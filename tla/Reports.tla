------------------------------- MODULE Reports -------------------------------
(***************************************************************************)
(* What is put together last, from the answers of several services.        *)
(*                                                                         *)
(* The executive report (api/src/reports): what was metered in a range of  *)
(* days, completed with what the providers invoiced and with Copilot, and  *)
(* split by day, platform, model and person.  Calls are carried along with *)
(* the costs in the code and are left out here; so is the layout.          *)
(*                                                                         *)
(* The dashboard's own figures (apps/dashboard): the overview page, its    *)
(* panel of fixed costs, the tables of users and models, and the form for  *)
(* seats.  The dashboard has its own copy of the rules of                  *)
(* fixed-cost-prorate (lib/overview-seat-monthly.ts).  Every page asks for *)
(* the fixed costs of 24 months, which is all of them here.                *)
(***************************************************************************)
EXTENDS Worth

CONSTANTS
  ChartUsers, TableUsers,   \* people listed by name; 15 and 20 in the code
  PageSize                  \* rows of a page of a table; 10 in the code

Positive(f) == [k \in {j \in DOMAIN f : f[j] > 0} |-> f[k]]
-----------------------------------------------------------------------------
(***************************************************************************)
(* Periods (executive-report.should-render.ts).                            *)
(***************************************************************************)
DaysBetweenInclusive(from, to) == Biggest(0, to - from + 1)

PriorWindow(from, to) == <<from - DaysBetweenInclusive(from, to), from - 1>>

\* priorMaterialityThreshold: at least a dollar and a twentieth of the current spend.
PriorIsMaterial(prior, current) == prior >= 100 /\ 20 * prior >= current

\* periodDeltaPct, in hundredths of a percent; no number when the prior period is immaterial.
PeriodDeltaPct(current, prior) ==
  IF PriorIsMaterial(prior, current) THEN {RoundDiv(10000 * (current - prior), prior)} ELSE {}

\* formatPeriodChange
FormatPeriodChange(prior, current) ==
  IF current <= 0 THEN "" ELSE IF PriorIsMaterial(prior, current) THEN "percent" ELSE "new spend"
-----------------------------------------------------------------------------
(***************************************************************************)
(* The queries (executive-report.service.ts).                              *)
(***************************************************************************)
FetchSpendTotals(from, to) ==
  [cost |-> Usd(Rows(from, to)), tokens |-> Total(Rows(from, to), LAMBDA r : r.input + r.output)]

FetchDailySpend(from, to) == UsdBy(Rows(from, to), LAMBDA r : r.day)

FetchUserSpend(from, to) == Positive(UsdBy(Rows(from, to), LAMBDA r : r.user))

FetchUserModelSpend(from, to) == Positive(UsdBy(Rows(from, to), LAMBDA r : <<r.user, r.model>>))

FetchProviders(from, to) == Positive(UsdBy(Rows(from, to), LAMBDA r : r.provider))

FetchModels(from, to) == Positive(UsdBy(Rows(from, to), LAMBDA r : <<r.provider, r.model>>))

FetchProviderCosts(from, to) ==
  LET rows == InRange(books.invoices, from, to)
  IN [p \in {i.provider : i \in rows} |-> Total({i \in rows : i.provider = p}, CostOf)]

\* fetchValueMetrics: outcomes attributed with a confidence of one half or more.
FetchValueMetrics(from, to) ==
  LET rows == RoiRows(from, to, 50)
      sum(f(_)) == Total(rows, f)
  IN [outcomes |-> Cardinality(rows), value |-> sum(ValueOfRoi), loaded |-> sum(LoadedOf),
      net |-> sum(ValueOfRoi) - sum(LoadedOf), riskAdjusted |-> sum(RiskAdjustedOf)]

\* fetchProjection: the CFO view of the range over the report's horizon.
FetchProjection(from, to, horizon) ==
  LET view == CfoView(from, to, 50, "reconciled", horizon)
  IN [observed |-> view.observed, projected |-> view.forecast]
-----------------------------------------------------------------------------
(***************************************************************************)
(* The supplements (executive-report-supplemental.ts).                     *)
(***************************************************************************)

\* Mutant: an invoice is added whether or not the provider's usage was metered.
InvoicedAny(providers, costs) == {p \in DOMAIN costs : costs[p] > 0}

\* mergeProviderCostsSupplement: invoices count for providers that nothing was metered of.
Invoiced(providers, costs) == {p \in DOMAIN costs \ DOMAIN providers : costs[p] > 0}

MergeProviderCostsSupplement(providers, costs) ==
  LET new == Invoiced(providers, costs)
  IN [providers |-> Plus(providers, [p \in new |-> costs[p]]), added |-> Total(new, LAMBDA p : costs[p])]

CopilotNames == {"copilot", "github-copilot", CopilotProvider}

\* mergeCopilotSupplement: a platform of a similar name takes the amount, and Copilot's own name.
MergeCopilotSupplement(rep, from, to) ==
  LET own == CopilotSpend(from, to)
      alike == DOMAIN rep.providers \intersect CopilotNames
      row == TopOf(alike, LAMBDA p : rep.providers[p])
      renamed == IF alike = {} THEN rep.providers
                 ELSE [p \in (DOMAIN rep.providers \ {row}) \union {CopilotProvider} |->
                         rep.providers[IF p = CopilotProvider THEN row ELSE p]]
  IN IF ~ HasCopilotSpend(from, to) THEN rep
     ELSE [rep EXCEPT !.total = @ + own.total,
                      !.providers = Plus(renamed, [p \in {CopilotProvider} |-> own.total]),
                      !.models = Plus(@, [k \in {CopilotProvider} \X DOMAIN own.mix |-> own.mix[k[2]]]),
                      !.trend = Plus(@, own.daily)]
-----------------------------------------------------------------------------
(***************************************************************************)
(* People (identity-resolver.ts, report-tables.ts).                        *)
(***************************************************************************)

\* allUserRows: a handle's metered spend and its Copilot spend are two rows.
AllUserRows(from, to) ==
  LET row(source, spend) == {[id |-> u, source |-> source, cost |-> spend[u]] : u \in DOMAIN spend}
  IN row("metered", FetchUserSpend(from, to)) \union row("copilot", CopilotUserSpend(from, to))

\* resolveUserIdentities: rows of nobody become one; the others keep a row of their own.
ResolveUserIdentities(rows) ==
  LET nobody == {r \in rows : r.id \in {"", Unassigned}}
      cost == Total(nobody, CostOf)
      row(id, source, name, team, c) == [id |-> id, source |-> source, name |-> name, team |-> team, cost |-> c]
  IN {row(r.id, r.source, Resolve(r.id).name, Resolve(r.id).team, r.cost) : r \in rows \ nobody}
     \union (IF cost > 0 THEN {row("__unassigned__", "", Unassigned, "", cost)} ELSE {})

Special(rows) == {r \in rows : r.name = Unassigned}

\* The n dearest rows; which of two equal ones is listed is not told apart.
Dearest(rows, n) ==
  IF Cardinality(rows) <= n THEN rows
  ELSE CHOOSE D \in kSubset(n, rows) : \A a \in D, b \in rows \ D : a.cost >= b.cost

\* rollupUserSpendForChart and buildUserSpendTable: the top, one row for all others, and the rows of nobody.
TopAndOthers(rows, n) ==
  LET ranked == {r \in rows \ Special(rows) : r.cost > 0}
      rest == ranked \ Dearest(ranked, n)
      others == [id |-> "__others__", source |-> "", name |-> "All others", team |-> "", cost |-> Total(rest, CostOf)]
  IN Dearest(ranked, n) \union (IF rest = {} THEN {} ELSE {others}) \union {r \in Special(rows) : r.cost > 0}

\* A weight decides on the Copilot model; the first of a user's rows decides on the rest.
CopilotTopModel(from, to, login) ==
  LET rows == {u \in InRange(copilot.usage, from, to) : u.login = login}
      weight(m) == Total({u \in rows : CopilotModel(u) = m}, CopilotWeight)
      used == {m \in {CopilotModel(u) : u \in rows} : weight(m) > 0}
  IN IF used = {} THEN "copilot-business" ELSE TopOf(used, weight)

\* buildTopModelMap: the metered rows come first, dearest first.
TopModel(from, to, user) ==
  LET spent == FetchUserModelSpend(from, to)
      models == {k[2] : k \in {j \in DOMAIN spent : j[1] = user}}
  IN IF models # {} THEN TopOf(models, LAMBDA m : spent[<<user, m>>])
     ELSE IF user \in DOMAIN CopilotUserSpend(from, to) THEN CopilotTopModel(from, to, user) ELSE "-"

\* pct, in hundredths of a percent
Pct(part, total) == IF total <= 0 THEN 0 ELSE RoundDiv(10000 * part, total)

BuildUserSpendTable(rows, total, from, to) ==
  {[name |-> r.name, cost |-> r.cost, pct |-> Pct(r.cost, total),
    top |-> IF r.id \in {"__others__", "__unassigned__"} THEN "-" ELSE TopModel(from, to, r.id)] :
     r \in TopAndOthers(rows, TableUsers)}
-----------------------------------------------------------------------------
(***************************************************************************)
(* Platforms and models (platform-breakdown.ts, report-tables.ts).         *)
(***************************************************************************)
InferCostBasis(p) == IF p \in CopilotNames \union {"cursor"} THEN "subscription" ELSE "usage"

\* buildPlatformBreakdown: the models under their platform, and what they leave of its cost.
BuildPlatformBreakdown(providers, models) ==
  LET of(p) == [k \in {j \in DOMAIN Positive(models) : j[1] = p} |-> models[k]]
  IN [p \in DOMAIN Positive(providers) |->
        [cost |-> providers[p], basis |-> InferCostBasis(p), models |-> of(p), remainder |-> providers[p] - SumOf(of(p))]]

BuildModelSpendTable(models, total) ==
  [k \in DOMAIN Positive(models) |-> [cost |-> models[k], pct |-> Pct(models[k], total)]]

\* isSinglePlatformDominant: one platform has 95 percent or more.
IsSinglePlatformDominant(providers) ==
  LET active == Positive(providers)
  IN Cardinality(DOMAIN active) <= 1 \/ \E p \in DOMAIN active : 20 * active[p] >= 19 * SumOf(active)
-----------------------------------------------------------------------------
(***************************************************************************)
(* The report.                                                             *)
(***************************************************************************)

\* build; live: the tenant's attribution mode.  The projection beside it is FetchProjection.
Build(from, to, live) ==
  LET prior == PriorWindow(from, to)
      now == FetchSpendTotals(from, to)
      before == FetchSpendTotals(prior[1], prior[2]).cost
      supplied == MergeProviderCostsSupplement(FetchProviders(from, to), FetchProviderCosts(from, to))
      rep == MergeCopilotSupplement(
               [total |-> now.cost + supplied.added, providers |-> supplied.providers,
                models |-> FetchModels(from, to), trend |-> FetchDailySpend(from, to)], from, to)
      people == ResolveUserIdentities(AllUserRows(from, to))
      worth == FetchValueMetrics(from, to)
  IN [total |-> rep.total, added |-> supplied.added, trend |-> rep.trend, providers |-> rep.providers, prior |-> before,
      change |-> PeriodDeltaPct(rep.total, before), changeLabel |-> FormatPeriodChange(before, rep.total),
      per1k |-> IF now.tokens > 0 THEN RoundDiv(1000 * rep.total, now.tokens) ELSE 0,
      worth |-> IF live /\ worth.outcomes >= 1 THEN {worth} ELSE {},
      chart |-> TopAndOthers(people, ChartUsers), people |-> BuildUserSpendTable(people, rep.total, from, to),
      models |-> BuildModelSpendTable(rep.models, rep.total),
      platforms |-> BuildPlatformBreakdown(rep.providers, rep.models),
      dominant |-> IsSinglePlatformDominant(rep.providers)]

\* generateExecutiveXlsx, generateExecutivePdf: the sections that have something to show.
Sections(rep) ==
  When(rep.total > 0, "Summary")
    \union When(\E d \in DOMAIN rep.trend : rep.trend[d] > 0, "Spend trend")
    \union When(\E r \in rep.people : r.cost > 0, "Cost per person")
    \union When(DOMAIN rep.models # {}, "Spend by model")
    \union When(DOMAIN rep.platforms # {}, "Platform breakdown")

\* buildOneLiner: the parts of the sentence.
OneLiner(rep) ==
  When(rep.total > 0, "spend") \union When(rep.changeLabel # "", "change")
    \union When(\E w \in rep.worth : w.net # 0, "net value") \union When(\E w \in rep.worth : w.loaded > 0, "LARI")
-----------------------------------------------------------------------------
(***************************************************************************)
(* overview-seat-monthly: one subscription line is carried independently.  *)
(***************************************************************************)

\* Mutant: a vendor has one line, so that a new plan replaces the old one.
LineItemKeyOfVendor(row) == <<row.vendor>>

LineItemKey(row) == <<row.vendor, row.type, row.line>>

\* unitUsd
UnitPrice(row) == IF row.unit > 0 THEN row.unit ELSE UnitUsd(row)

\* assignSeatClass, with the price as it is stored
SeatClass(line, lines) ==
  LET units == {UnitPrice(l) : l \in lines} \ {0}
      lo == CHOOSE u \in units : \A w \in units : u <= w
      hi == CHOOSE u \in units : \A w \in units : u >= w
  IN CASE Cardinality(units) >= 2 /\ 2 * UnitPrice(line) > lo + hi -> "premium"
       [] Cardinality(units) >= 2 /\ (2 * UnitPrice(line) < lo + hi \/ UnitPrice(line) = lo) -> "basic"
       [] OTHER -> KeywordSeatClass(line)

\* collectLatestLineItems
CollectLatestLineItems(rows, month) ==
  LET known == {r \in rows : r.month <= month}
      newest(G) == CHOOSE m \in {r.month : r \in G} : \A r \in G : r.month <= m
  IN UNION {{r \in G : r.month = newest(G)} : G \in Grouped(known, LineItemKey)}

\* tiersFromLines
TiersFromLines(lines) ==
  LET of(c) == {l \in lines : SeatClass(l, lines) = c}
  IN [c \in {d \in Tiers : Total(of(d), SeatsOf) > 0 \/ Total(of(d), CostOf) > 0} |->
        [usd |-> Total(of(c), CostOf), seats |-> Total(of(c), SeatsOf)]]

\* sumLineItemsByVendor, as latestSeatByVendorOnOrBefore calls it
SumLineItemsByVendor(rows, month) ==
  LET lines == CollectLatestLineItems(rows, month)
      of(v) == {l \in lines : l.vendor = v}
  IN [v \in {w \in {l.vendor : l \in lines} : Total(of(w), CostOf) > 0 \/ Total(of(w), SeatsOf) > 0} |->
        [usd |-> Total(of(v), CostOf), seats |-> Total(of(v), SeatsOf),
         month |-> NewestMonth(of(v)), tiers |-> TiersFromLines(of(v))]]

SumOfSeats(snaps) == Total(DOMAIN snaps, LAMBDA v : snaps[v].usd)

\* monthlySeatRunRateAsOf
MonthlySeatRunRateAsOf(rows, month) == SumOfSeats(SumLineItemsByVendor(rows, month))

\* latestSeatByVendor of the dashboard; its month 9999-12 is after every row
ConfiguredSeats(rows) == SumLineItemsByVendor(rows, NewestMonth(rows))

\* currentMonthlySeatRunRate
SeatRunRate(rows) == SumOfSeats(ConfiguredSeats(rows))

\* periodSeatTotalWithCarryForward
PeriodSeatTotalWithCarryForward(rows, from, to) ==
  Total(BillingMonthsInRange(from, to), LAMBDA m : MonthlySeatRunRateAsOf(rows, m))

\* periodSeatTotalForRange of the dashboard
PeriodSeats(rows, from, to) ==
  IF Cardinality(BillingMonthsInRange(from, to)) = 1 THEN SeatRunRate(rows)
  ELSE PeriodSeatTotalWithCarryForward(rows, from, to)

\* priorSeatEntryForVendor: {} or the newest row of the plan before the month.
PriorSeatEntry(rows, plan, month) ==
  LET before == {r \in rows : Line(r) = plan /\ r.month < month}
  IN {r \in before : \A s \in before : s.month <= r.month}
-----------------------------------------------------------------------------
(***************************************************************************)
(* The overview page (app/page.tsx).                                       *)
(***************************************************************************)
\* mergeOverviewSeatVendors: what is configured wins over what connectors bill.
MergeOverviewSeatVendors(rows, billed) ==
  LET own == ConfiguredSeats(rows)
  IN [v \in DOMAIN own \union {w \in DOMAIN billed : billed[w].seat > 0} |->
        IF v \in DOMAIN own THEN own[v].usd ELSE billed[v].seat]

\* The vendors whose seats only a connector knows.
ConnectorOnly(rows, billed) == {v \in DOMAIN billed \ DOMAIN ConfiguredSeats(rows) : billed[v].seat > 0}

\* OverviewPage, given the vendor billing: a connector's seats are spread over the months of the range.
OverviewPage(from, to, billed) ==
  LET months == Cardinality(BillingMonthsInRange(from, to))
      share(v) == RoundDiv(billed[v].seat, months)
      beside == ConnectorOnly(fixed, billed)
      runRate == SeatRunRate(fixed) + Total(beside, share)
      ofBilling == Total(DOMAIN billed, LAMBDA v : billed[v].seat)
      fallback == runRate <= 0 /\ ofBilling > 0
      metered == SumOf(Spend(from, to))
      period == IF fallback THEN ofBilling ELSE PeriodSeats(fixed, from, to) + Total(beside, LAMBDA v : billed[v].seat)
  IN [runRate |-> IF fallback THEN RoundDiv(ofBilling, months) ELSE runRate,
      period |-> period, metered |-> metered, total |-> metered + period,
      vendors |-> MergeOverviewSeatVendors(fixed, billed)]
-----------------------------------------------------------------------------
(***************************************************************************)
(* The panel of fixed costs (FixedOverheadPanel.tsx).                      *)
(***************************************************************************)

\* buildVendorDisplayRows
BuildVendorDisplayRows(rows, billed) ==
  LET own == ConfiguredSeats(rows)
      overage(v) == IF v \in DOMAIN billed THEN billed[v].overage ELSE 0
  IN [v \in DOMAIN own \union DOMAIN billed |->
        Slice(IF v \in DOMAIN own THEN own[v].usd ELSE billed[v].seat, overage(v))]

FixedOverheadPanel(from, to, billed) ==
  LET shown == BuildVendorDisplayRows(fixed, billed)
      months == Cardinality(BillingMonthsInRange(from, to))
      beside == ConnectorOnly(fixed, billed)
      monthly == SeatRunRate(fixed) + Total(beside, LAMBDA v : shown[v].seat)
      overage == Total(DOMAIN shown, LAMBDA v : shown[v].overage)
  IN [rows |-> shown, monthly |-> monthly, overage |-> overage, total |-> monthly + overage,
      period |-> PeriodSeats(fixed, from, to) + Total(beside, LAMBDA v : months * shown[v].seat),
      pie |-> [v \in {w \in DOMAIN shown : shown[w].total > 0} |-> shown[v].seat + shown[v].overage]]
-----------------------------------------------------------------------------
(***************************************************************************)
(* Tables of users and models.                                             *)
(***************************************************************************)

\* paginateItems: the rows of a page; a page out of range is the nearest one.
PageCount(n) == Biggest(1, (n + PageSize - 1) \div PageSize)

PaginateItems(items, page) ==
  LET safe == IF page < 1 THEN 1 ELSE IF page > PageCount(Len(items)) THEN PageCount(Len(items)) ELSE page
      end == IF safe * PageSize > Len(items) THEN Len(items) ELSE safe * PageSize
  IN SubSeq(items, (safe - 1) * PageSize + 1, end)

\* userVendorTotal
UserVendorTotal(u) == SumUserVendorSpend(u.slices)

\* The users of OverviewAiSourcesPanel, dearest first.
SortedUsers(users) ==
  SetToSortSeq(users, LAMBDA u, v : UserVendorTotal(u) > UserVendorTotal(v))

\* sumVendorColumns of the member directory (app/users/page.tsx)
SumVendorColumns(users, vendors) ==
  [v \in vendors |-> Total({u \in users : v \in DOMAIN u.slices}, LAMBDA u : u.slices[v].total)]

\* userHasPlatform
UserHasPlatform(u, vendor) == vendor \in DOMAIN u.slices /\ u.slices[vendor].total > 0

\* The directory with its filters for team and platform; "" selects everyone.
MemberDirectory(users, team, platform) ==
  {u \in users : /\ team = "" \/ u.team = team
                 /\ platform = "" \/ UserHasPlatform(u, platform)}

\* userBillableSpendUsd and userTotalSpendUsd, for a row of the allocation by user
UserBillableSpend(row) == Biggest(row.cost, Biggest(0, row.metered - row.onDemand) + row.onDemand + row.seat)

UserTotalSpend(row) == UserBillableSpend(row) + row.included

\* buildModelTableRows: Cursor's models, and those of other providers that Cursor does not use too.
BuildModelTableRows(from, to) ==
  LET cursor == CursorSummary(from, to).mix
      others == {k \in DOMAIN ModelMix(from, to) : k[1] # "cursor" /\ k[2] \notin DOMAIN cursor}
  IN [k \in ({"cursor"} \X DOMAIN cursor) \union others |-> IF k[1] = "cursor" THEN cursor[k[2]] ELSE ModelMix(from, to)[k]]
-----------------------------------------------------------------------------
(***************************************************************************)
(* The form for seats (FixedOverheadClient.tsx, seat-price-delta.ts).      *)
(***************************************************************************)
Snapshot(row) == [seats |-> row.seats, usd |-> row.cost, unit |-> row.unit]

\* The row the form compares with: the one being edited (an existing row is reached by its Edit button), else
\* the newest one before the month.
Baseline(rows, row) ==
  LET edited == {r \in rows : r.month = row.month /\ Line(r) = Line(row)}
      prior == PriorSeatEntry(rows, Line(row), row.month)
  IN IF edited # {} THEN edited ELSE prior

\* seatPriceDelta of the dashboard: without an earlier row the whole cost comes from seats.
SeatImpact(rows, row) ==
  IF Baseline(rows, row) = {}
  THEN [seats |-> row.seats, usd |-> row.cost, fromSeats |-> row.cost, fromRate |-> 0]
  ELSE SeatPriceDelta(Snapshot(row), Snapshot(CHOOSE r \in Baseline(rows, row) : TRUE))

\* load with combinedAiCost: the page's own total of the range.
FixedOverheadTotals(from, to) ==
  LET overhead == TotalCostOfAi(from, to)
      metered == SumOf(Spend(from, to))
      of == Total(DOMAIN overhead, LAMBDA m : overhead[m].fixed)
  IN [attributable |-> metered, fixed |-> of, total |-> metered + of]
=============================================================================
