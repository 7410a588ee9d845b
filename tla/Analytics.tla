----------------------------- MODULE Analytics ------------------------------
(***************************************************************************)
(* The analytics tables as they are written: connector records and billing *)
(* lines through the import pipeline (Metering), gateway calls through the *)
(* collector, fixed costs through FixedCostsService, seat tiers through    *)
(* IdentitiesController, outcomes and risks through the workers.  A reader *)
(* may open the reports of the other modules at any moment; the properties *)
(* say how the figures on them agree with each other.                      *)
(***************************************************************************)
EXTENDS Reports

CONSTANTS
  Records, PortalLines, ImportRows,                 \* what may arrive
  GatewayCalls, Outcomes, Risks,                    \* a call is [row, agent]
  Mappings, Entities,                               \* how connector records are attributed
  FixedCosts, Changes,                              \* fixed costs and edits of them, [seats, unit, cost]; -1 keeps a field
  TierChanges,                                      \* [user, vendor, tier]; the tier "none" clears
  Starts,                                           \* [identities, copilot, seats, books]: tables the other services filled
  Ranges, Today, Horizon,
  MaxWrites                                         \* bound on the writes of a behaviour

VARIABLES
  edits,      \* updates of fixed costs that have read their row: [row, change]
  writes,     \* number of writes so far
  opened      \* a reader has opened the reports, and the behaviour ends

tables == <<calls, coding, commits, outcomes>>
vars == <<calls, coding, commits, outcomes, fixed, copilot, identities, tags, aiSeats, books, edits, writes, opened>>

Init ==
  /\ calls = {} /\ coding = {} /\ commits = {} /\ outcomes = {} /\ fixed = {} /\ tags = {} /\ edits = {} /\ writes = 0 /\ opened = FALSE
  /\ \E s \in Starts : identities = s.identities /\ copilot = s.copilot /\ aiSeats = s.seats /\ books = s.books

Count == ~ opened /\ writes < MaxWrites /\ writes' = writes + 1 /\ UNCHANGED opened

Insert(x) ==
  LET e == MapRow(x)
  IN /\ calls' = calls \union e.calls /\ coding' = coding \union e.coding
     /\ commits' = commits \union e.commits /\ outcomes' = outcomes \union e.outcomes
     /\ UNCHANGED <<fixed, copilot, identities, tags, aiSeats, books, edits>>

Known(x) == \E r \in calls \union coding \union commits \union outcomes : r.id = x.id

\* A record of a sync; ConnectorSync shows how its key keeps it from being stored twice.
ImportRecord(x) == Count /\ ~ Known(x) /\ Insert(ToImportRow(FinalizeConnectorRecord(x, Mappings, Entities)))

\* A line of an uploaded billing file (PortalImport).
ImportPortalLine(x) == Count /\ ~ Known(x) /\ Insert(PortalRow(x))

\* A row of the generic import endpoint.
ImportRow(x) == Count /\ ~ Known(x) /\ Insert(x)

\* A call the gateway metered, written by the collector (EventPath, ChInsert).
GatewayCall(g) ==
  /\ Count /\ g.row \notin calls
  /\ calls' = calls \union {g.row}
  /\ books' = IF g.agent = "" THEN books
              ELSE [books EXCEPT !.agentCalls = @ \union {[agent |-> g.agent, provider |-> g.row.provider, day |-> g.row.day,
                                                         cost |-> EffectiveMetered(g.row)]}]
  /\ UNCHANGED <<coding, commits, outcomes, fixed, copilot, identities, tags, aiSeats, edits>>

\* An outcome the attribution worker scored and a risk the engine found (services/workers).
ScoreOutcome(o) ==
  /\ Count /\ o \notin books.roi /\ books' = [books EXCEPT !.roi = @ \union {o}]
  /\ UNCHANGED <<tables, fixed, copilot, identities, tags, aiSeats, edits>>

RecordRisk(r) ==
  /\ Count /\ r \notin books.risks /\ books' = [books EXCEPT !.risks = @ \union {r}]
  /\ UNCHANGED <<tables, fixed, copilot, identities, tags, aiSeats, edits>>

\* buildTeamBreakdown begins with reconcileDuplicateIdentities: the other active identities of a name are
\* deactivated, and the first one takes over their addresses and aliases, and a team where it has none.
\* Identities have no department here, so healIdentityTeamAssignments has nothing to do (see Directory).
OpenCfoView ==
  LET others(i) == {j \in Namesakes(i) : j.active} \ {i}
      first(i) == i.active /\ PrimaryOf(i) = i
      teams(i) == {j.team : j \in others(i)} \ {""}
      taken(i) == [i EXCEPT !.aliases = @ \union UNION {{j.email} \union j.aliases : j \in others(i)},
                            !.team = IF @ # "" \/ teams(i) = {} THEN @ ELSE CHOOSE t \in teams(i) : TRUE]
  IN /\ Count /\ \E i \in identities : i.active /\ others(i) # {}
     /\ identities' = {IF first(i) THEN taken(i) ELSE [i EXCEPT !.active = FALSE] : i \in identities}
     /\ UNCHANGED <<tables, fixed, copilot, tags, aiSeats, books, edits>>
-----------------------------------------------------------------------------
(***************************************************************************)
(* FixedCostsService: the table keeps the newest row of a key.             *)
(***************************************************************************)
SameKey(f, g) == f.month = g.month /\ Line(f) = Line(g)

Put(f) == {g \in fixed : ~ SameKey(f, g)} \union {f}

CreateFixedCost(f) ==
  /\ Count /\ fixed' = Put(f)
  /\ UNCHANGED <<tables, copilot, identities, tags, aiSeats, books, edits>>

RemoveFixedCost(f) ==
  /\ Count /\ f \in fixed /\ fixed' = fixed \ {f}
  /\ UNCHANGED <<tables, copilot, identities, tags, aiSeats, books, edits>>

\* update reads the row (findOne) ...
ReadFixedCost(f, change) ==
  /\ Count /\ f \in fixed /\ edits = {}
  /\ edits' = {[row |-> f, change |-> change]}
  /\ UNCHANGED <<tables, fixed, copilot, identities, tags, aiSeats, books>>

\* ... and writes it back with the changes, whatever happened to it in between.
UpdateFixedCost(e) ==
  LET kept(new, old) == IF new < 0 THEN old ELSE new
  IN /\ ~ opened /\ edits' = edits \ {e}
     /\ fixed' = Put([e.row EXCEPT !.seats = kept(e.change.seats, @), !.unit = kept(e.change.unit, @),
                                   !.cost = kept(e.change.cost, @)])
     /\ UNCHANGED <<tables, copilot, identities, tags, aiSeats, books, writes, opened>>

\* patchSeatTiers
PatchSeatTiers(t) ==
  /\ Count /\ \E i \in identities : i.id = t.user
  /\ tags' = {u \in tags : u.user # t.user \/ u.vendor # t.vendor} \union (IF t.tier = "none" THEN {} ELSE {t})
  /\ UNCHANGED <<tables, fixed, copilot, identities, aiSeats, books, edits>>

\* The pages of the dashboard read the tables; nothing else is kept between a write and a page.
OpenReports ==
  /\ ~ opened /\ opened' = TRUE
  /\ UNCHANGED <<tables, fixed, copilot, identities, tags, aiSeats, books, edits, writes>>

Next ==
  \/ \E x \in Records : ImportRecord(x)
  \/ \E x \in PortalLines : ImportPortalLine(x)
  \/ \E x \in ImportRows : ImportRow(x)
  \/ \E g \in GatewayCalls : GatewayCall(g)
  \/ \E o \in Outcomes : ScoreOutcome(o)
  \/ \E r \in Risks : RecordRisk(r)
  \/ OpenCfoView
  \/ \E f \in FixedCosts : CreateFixedCost(f)
  \/ \E f \in fixed : RemoveFixedCost(f)
  \/ \E f \in fixed, c \in Changes : ReadFixedCost(f, c)
  \/ \E e \in edits : UpdateFixedCost(e)
  \/ \E t \in TierChanges : PatchSeatTiers(t)
  \/ OpenReports

Spec == Init /\ [][Next]_vars
-----------------------------------------------------------------------------
(***************************************************************************)
(* Properties.                                                             *)
(***************************************************************************)
Cost(f) == Total(DOMAIN f, LAMBDA k : f[k].cost)

Near(a, b, error) == a - b <= error /\ b - a <= error

OnReports == opened' # opened

\* What the spend reports of one range say together.
SpendReportsAgree(from, to) ==
  LET headline == UsdBy(Rows(from, to), LAMBDA r : r.day)
      users == UserAllocation(from, to)
      cursor == CursorSpend(from, to, Today)
      pilot == PilotReport(from, to)
      summary == MonthlySummary(from, to)
      months == TotalCostOfAi(from, to)
      bounds == DataBounds(Today)
      series == UserDailySeries(from, to, DOMAIN users)
      anonymous == {r \in CursorRows(from, to) : r.user = ""}
  IN /\ SourceReconciliation(from, to).overlap = {} => SumOf(headline) = Cost(ReconciledUserSpend(InRange(calls, from, to)))
     /\ SumOf(TeamAllocation(from, to)) = SumOf(headline)
     /\ pilot.cost = SumOf(headline) /\ SumOf(pilot.byProvider) = pilot.cost
     /\ SumOf(headline) <= Usd(Rows(bounds.earliest, bounds.latest))
     /\ cursor.billed = SumOf(CursorSummary(from, to).daily)
     /\ cursor.billed = Usd(anonymous) + Total(DOMAIN users, LAMBDA u : users[u].onDemand)
     /\ \A u \in DOMAIN users :
          /\ SumOf(series[u]) = users[u].metered + users[u].included
          /\ ComputeSpendTrend(series[u]) = "insufficient" <=> Cardinality(DOMAIN series[u]) < 2
     /\ Near(Total(DOMAIN summary, LAMBDA k : summary[k].cost), Total(DOMAIN months, LAMBDA m : months[m].fixed),
             Cardinality(DOMAIN summary))

\* The spend of a user, of the days and of the tenant come from different queries and agree; the
\* break-down by model differs from them by exactly the synced spend on models that a billing file
\* covering the user's day does not list (the finer key of metered-cost.ts:132).  And what the pipeline
\* stamped as billed (computeMeteredCostUsd) is what the queries bill (EFFECTIVE_METERED_COST_USD):
\* estimates, included usage and activity lines cost nothing anywhere.
ReconciledTotalsAgree ==
  [][OnReports =>
       /\ \A r \in calls : r.source \in {"api", "portal_import"} => EffectiveMetered(r) = r.metered
       /\ \A range \in Ranges :
            LET S == InRange(calls, range[1], range[2])
                covered == {G \in Grouped(Scope(S), UserDay) : Usd(FromPortal(G)) > 0}
                beside(G) == Total({M \in Grouped(G, UserDayModel) : Usd(FromPortal(M)) <= 0}, LAMBDA M : Usd(FromApi(M)))
            IN /\ Cost(ReconciledUserSpend(S)) = Cost(ReconciledUserDaily(S))
               /\ Cost(ReconciledUserSpend(S)) = SumOf(ReconciledTenantDaily(S))
               /\ CostBasisTotals(S).cost = Cost(ReconciledUserSpend(S)) + Total(covered, beside)
               /\ SumOf(CostBasisMonthly(S, Month)) = CostBasisTotals(S).cost
               /\ SpendReportsAgree(range[1], range[2])]_vars

\* A seat charge without a number of seats is split among the people present on the vendor: as soon as
\* there is one, the directory's rows carry the whole charge of the months asked for, whatever the tags.
\* And the page of a user shows exactly the directory's row of that user.
SeatChargesAreCarried ==
  [][OnReports =>
       \A range \in Ranges :
         LET pools == SeatPoolsForRange(fixed, range[1], range[2])
             users == Users(range[1], range[2], Today)
             carried(v) == Total({u \in users : v \in DOMAIN u.slices}, LAMBDA u : u.slices[v].seat)
         IN /\ \A v \in VendorsWithFixedSeatPools(pools) :
              LET mine == {p \in pools : p.vendor = v /\ p.usd > 0}
              IN (Cardinality(mine) = 1 /\ (\A p \in mine : p.seats = 0) /\ \E u \in users : v \in DOMAIN u.slices)
                   => carried(v) = Total(mine, LAMBDA p : p.usd)
            /\ \A u \in users : UserDetail(u.id, users) = {u}]_vars

\* A person is gone when all identities of the name are deactivated.
Gone(h) == Holders(h) # {} /\ \A i \in Holders(h) : \A j \in Namesakes(i) : ~ j.active

\* The directory shows the spend of every handle once, whichever address, alias or id it was recorded
\* under, except that of people who are gone and of demonstration data; a person of the roster has
\* one row, and one whom only usage knows is added once.
DirectoryShowsEveryone ==
  [][OnReports =>
       \A range \in Ranges :
         LET usage == Usage(range[1], range[2])
             rows == Assembled(range[1], range[2])
             shown == {h \in DOMAIN usage : ~ Gone(h) /\ h \notin Demo}
             spent(h) == SumOf(PlatformsOf(range[1], range[2], h))
         IN /\ Total({r.id : r \in rows}, LAMBDA id : SumOf((CHOOSE r \in rows : r.id = id).platforms)) = Total(shown, spent)
            /\ \A i \in Roster : Cardinality({r \in rows : r.name = NameOf(i)}) = 1
            /\ \A j, k \in Extras(range[1], range[2], rows) : Resolve(j).name = Resolve(k).name => j = k]_vars

\* The dashboard computes its totals itself, with its own copy of the rules for seats, and they agree with
\* the API's and with each other: the panel's period and overage are the API's total cost of AI, its rows,
\* its pie and the table of the page add up to its totals, and so do the columns of the member directory;
\* the spend shown for a user is the API's cost and included usage, unless a billing file hides on-demand usage;
\* the page and the panel differ only by seats that a connector alone knows, and from the admin page only
\* by charges carried over from another month; and the impact shown for a saved row is what the monthly
\* charge of its month changes by.
OverviewAddsUp ==
  [][/\ OnReports =>
          \A range \in Ranges :
            LET api == VendorBilling(range[1], range[2], Today)
                page == OverviewPage(range[1], range[2], api.vendors)
                panel == FixedOverheadPanel(range[1], range[2], api.vendors)
                admin == FixedOverheadTotals(range[1], range[2])
                own == ConfiguredSeats(fixed)
                months == BillingMonthsInRange(range[1], range[2])
                beside == ConnectorOnly(fixed, api.vendors)
                priced == \A v \in DOMAIN own : own[v].usd > 0
                whole == \A m \in months : OverlapDays(m, range[1], range[2]) = DaysPerMonth
                recorded == \A m \in months : \A r \in CollectLatestLineItems(fixed, m) : r.month = m
                team == Users(range[1], range[2], Today)
                columns == UNION {OrderedVendorIds(u.slices, api.vendors) : u \in team}
                byUser == Total(team, UserVendorTotal)
                sorted == SortedUsers(team)
                pages == {PaginateItems(sorted, n) : n \in 1..PageCount(Len(sorted))}
                alloc == UserAllocation(range[1], range[2])
                models == BuildModelTableRows(range[1], range[2])
                mix == ModelMix(range[1], range[2])
                shadowed == {k \in DOMAIN mix : k[1] # "cursor" /\ <<"cursor", k[2]>> \in DOMAIN models}
            IN /\ panel.period + panel.overage = api.total
               /\ Total(DOMAIN panel.rows, LAMBDA v : panel.rows[v].seat) = panel.monthly
               /\ SumOf(panel.pie) = panel.total
               /\ SumOf(page.vendors) = panel.monthly
               /\ \A v \in DOMAIN own :
                    /\ Total(DOMAIN own[v].tiers, LAMBDA c : own[v].tiers[c].usd) = own[v].usd
                    /\ Total(DOMAIN own[v].tiers, LAMBDA c : own[v].tiers[c].seats) = own[v].seats
               /\ (priced /\ (beside = {} \/ Cardinality(months) = 1)) => page.period = panel.period /\ page.runRate = panel.monthly
               /\ (priced /\ beside = {} /\ whole /\ recorded /\ Cardinality(months) > 1) => admin.total = page.total
               /\ SumOf(SumVendorColumns(team, columns)) = byUser
               /\ \A v \in columns : SumVendorColumns(MemberDirectory(team, "", v), {v}) = [w \in {v} |-> SumVendorColumns(team, columns)[v]]
               /\ UNION {{p[n] : n \in DOMAIN p} : p \in pages} = team
               /\ \A u \in DOMAIN alloc : \/ UserTotalSpend(alloc[u]) = alloc[u].cost + alloc[u].included
                                          \/ alloc[u].onDemand > alloc[u].metered
               /\ SumOf(models) + Total(shadowed, LAMBDA k : mix[k]) = SumOf(mix)
     /\ fixed' # fixed =>
          \A row \in fixed' \ fixed :
            RunRateAsOf(fixed', row.month) - RunRateAsOf(fixed, row.month) = SeatImpact(fixed, row).usd]_vars

\* The figures of the CFO view are computed by different queries and spread differently; they agree
\* up to rounding: the months, and the outcome types, share out the whole cost of the range; models and
\* providers list no more than the usage; no person's cost is missing from the teams; and the projection
\* differs from the view by nothing but the overhead of outcomes of low confidence.
CfoBreakdownsAddUp ==
  [][OnReports =>
       \A range \in Ranges, basis \in {"reconciled", "metered"} :
         LET view == CfoView(range[1], range[2], 0, basis, Horizon)
             roi == RoiRows(range[1], range[2], 0)
             shared == view.usage + view.supplement
             cost(f) == Total(DOMAIN f, LAMBDA k : f[k].cost)
         IN /\ DOMAIN view.months # {} => Near(cost(view.months), view.observed, Cardinality(DOMAIN view.months))
            /\ roi # {} => Near(cost(view.types), shared + Total(roi, LoadedOf) - Total(roi, AiOf), Cardinality(DOMAIN view.types))
            /\ Total(DOMAIN view.models, LAMBDA k : view.models[k].observed) <= view.usage
            /\ basis = "reconciled" => SumOf(view.providers) <= view.usage + CopilotCost(range[1], range[2])
            /\ SumOf(view.teams) >= SumOf(Ingested(range[1], range[2]))
            /\ basis = "reconciled" =>
                 LET projection == FetchProjection(range[1], range[2], Horizon)
                 IN view.observed - projection.observed = Overhead(roi) - Overhead(RoiRows(range[1], range[2], 50))]_vars

\* The worth page: no budget above the spend but for a product that is worth it or an agent to scale; what the
\* drivers of a product name was spent on it; and the data coverage knows a source of all spend.
WorthPageBacked(from, to, agents) ==
  LET card == ProductWorth(from, to)
      coverage == BuildDataCoverage(card, from, to)
      grows(l) == \/ l.scope = "product" /\ card[l.id].verdict.verdict = "worth_it"
                  \/ l.scope = "agent" /\ \E e \in agents : e.agent = l.id /\ e.action = "scale"
                  \/ l.scope = "tenant" /\ \E p \in DOMAIN card : card[p].verdict.verdict = "worth_it"
  IN /\ \A l \in BuildBudgetSuggestions(card, agents, from, to) : l.budget <= l.rate \/ grows(l)
     /\ \A p \in DOMAIN card : \A d \in card[p].drivers : d.type = "model" => d.cost <= card[p].total
     /\ coverage.total >= SumOf(ProviderSpend(from, to)) /\ coverage.share \in 0..100

\* What the recommendations of a page promise is backed by what is spent: the value of the agents is
\* shared among providers, not repeated, no single advice saves more in a month than its subject costs,
\* and what idle platforms would save is what the team's unused seats are said to cost.
\* And a risk found in an agent's work never makes the agent look better: its net return does not grow, and
\* it is not scaled or kept where it was not before.
RecommendationsBacked ==
  [][/\ books'.risks # books.risks =>
          \A range \in Ranges : \A a \in Agents(range[1], range[2]) :
            LET before == ComputeForAgent(a, range[1], range[2])
                after == ComputeForAgent(a, range[1], range[2])'
            IN /\ after.net <= before.net
               /\ after.action = "scale" => before.action = "scale"
               /\ after.action = "maintain" => before.action \in {"scale", "maintain"}
     /\ OnReports =>
       \A range \in Ranges :
         LET agents == AgentEconomics(range[1], range[2])
             spent == AgentProviderSpend(range[1], range[2])
             usage == ReconciledModelUsage(InRange(calls, range[1], range[2]))
             plans == Plans(range[1], range[2])
             providers == {k[2] : k \in DOMAIN spent}
             contract(S) == Total(S, LAMBDA p : p.contract)
             days == Period(range[1], range[2])
             within(saving, spend, fee) == saving * days <= 30 * spend + fee * days + 30
             product(p) == ValueOf(ProviderSpend(range[1], range[2]), p)
             recs == Recommendations(range[1], range[2], "team").recs
             costs(r) ==
               CASE r.id = "agent" -> \E e \in agents : e.agent = r.about /\ within(r.saving, e.cost, 0)
                 [] r.id = "model-substitution" -> within(r.saving, usage[r.about].cost, 0)
                 [] r.id = "remove-unused-seats" -> r.saving <= contract(plans) + Cardinality(plans)
                 [] r.id \in {"switch-lower-cost-provider", "product-worth", "budget-suggestion"} ->
                      within(r.saving, product(r.about), contract({p \in plans : p.provider = r.about}))
                 [] OTHER -> TRUE
         IN /\ Total(providers, LAMBDA p : ValueOfProvider(range[1], range[2], p))
                 <= Total(agents, LAMBDA e : e.value) + Cardinality(DOMAIN spent)
            /\ \A r \in recs : costs(r)
            /\ Total({r \in recs : r.id = "unused-platform"}, LAMBDA r : r.saving) = TeamAggregates(range[1], range[2]).reclaimable
            /\ WorthPageBacked(range[1], range[2], agents)]_vars

\* The executive report is put together from some ten queries and two supplements, and no page of it
\* contradicts another: its total is the headline of the overview and what was invoiced beside it; days,
\* platforms, models and people share out that total, whoever is listed by name and whoever is not; and
\* a change against the prior period is never out of proportion (NEW_SPEND_LABEL).
ReportAddsUp ==
  [][OnReports =>
       \A range \in Ranges :
         LET rep == Build(range[1], range[2], TRUE)
             metered == SumOf(Spend(range[1], range[2]))
             listed == PlatformSpend(range[1], range[2])
             invoices == InRange(books.invoices, range[1], range[2])
             missing == {i \in invoices : ValueOf(listed, i.provider) = 0 /\ i.cost > 0}
             seats == CopilotSpend(range[1], range[2]).total
             people == CopilotUserSpend(range[1], range[2])
             ofOthers == IF HasCopilotSpend(range[1], range[2]) THEN metered - seats ELSE metered
         IN /\ rep.total = metered + Total(missing, CostOf)
            /\ SumOf(rep.providers) = rep.total
            /\ SumOf(rep.trend) = metered
            /\ {k[1] : k \in DOMAIN rep.models} \subseteq DOMAIN rep.platforms
            /\ \A p \in DOMAIN rep.platforms \ {i.provider : i \in missing} :
                 Near(rep.platforms[p].remainder, 0, Cardinality(DOMAIN rep.models))
            /\ Sections(rep) # {} => "Summary" \in Sections(rep) /\ "spend" \in OneLiner(rep)
            /\ \A c \in rep.change : -10000 <= c /\ c <= 190000
            /\ Total(rep.chart, CostOf) = ofOthers + SumOf(people)
            /\ Total({r.name : r \in rep.people}, LAMBDA name : Total({r \in rep.people : r.name = name}, CostOf))
                 = Total(rep.chart, CostOf)]_vars
=============================================================================
