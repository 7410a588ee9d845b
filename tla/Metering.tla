------------------------------ MODULE Metering ------------------------------
(***************************************************************************)
(* What a usage record costs and who is charged for it: the pipeline that  *)
(* turns connector records, portal lines and imported rows into rows of    *)
(* llm_calls and the other event tables (api/src/connectors, api/src/      *)
(* import), and the reconciled queries over those rows (metered-cost.ts).  *)
(* Amounts are integers, in cents; "" stands for an absent text.           *)
(***************************************************************************)
EXTENDS Integers, FiniteSets, FiniteSetsExt

CONSTANT
  PriceBook   \* entries [provider, models, length, type, from, to, rate]; to = 0 is open

Unassigned == "Unassigned"

Either(x, y) == IF x # "" THEN x ELSE y

Total(S, value(_)) == MapThenSumSet(value, S)
-----------------------------------------------------------------------------
(***************************************************************************)
(* The cost of a record.                                                   *)
(***************************************************************************)

\* rate: the entry with the longest model prefix among those in force on the day; 0 when none is.
Rate(x, type) ==
  LET fits == {e \in PriceBook : /\ e.provider = x.provider /\ e.type = type /\ x.model \in e.models
                                 /\ e.from <= x.day /\ (e.to = 0 \/ x.day <= e.to)}
  IN IF fits = {} THEN 0 ELSE (CHOOSE e \in fits : \A f \in fits : f.length <= e.length).rate

\* estimateCostFromTokens
EstimateCostFromTokens(x) ==
  IF x.provider = "" \/ x.model = "" THEN 0 ELSE x.input * Rate(x, "input") + x.output * Rate(x, "output")

\* The provider's amount, with its unit or, as a plain number (unit ""), without: then it is cents for
\* Anthropic, and for others from 100 on; smaller ones are dollars.
AmountInCents(x) ==
  IF x.unit = "cents" \/ (x.unit = "" /\ (x.provider = "anthropic" \/ x.amount >= 100)) THEN x.amount
  ELSE 100 * x.amount

\* enrichRecordCost
EnrichRecordCost(x) ==
  CASE x.cost > 0 -> [x EXCEPT !.costSource = Either(@, "provider")]
    [] x.cost <= 0 /\ x.amount > 0 ->
         [x EXCEPT !.cost = AmountInCents(x), !.costSource = IF x.unit = "" THEN "provider_cents" ELSE "provider"]
    [] x.cost <= 0 /\ x.amount <= 0 /\ EstimateCostFromTokens(x) > 0 ->
         [x EXCEPT !.cost = EstimateCostFromTokens(x), !.costSource = "pricebook_estimate"]
    [] OTHER -> x

\* classifyCursorBillingKind: the kind the provider names, else whether it says it charged.
ClassifyCursorBillingKind(x) ==
  CASE x.product \in {"errored", "not-charged"} -> "errored"
    [] x.product \in {"usage-based", "on-demand"} -> "on_demand"
    [] x.product = "included" -> "included"
    [] OTHER -> IF x.chargeable = "true" THEN "on_demand" ELSE "included"

CursorOperation(kind) ==
  [on_demand |-> "cursor:on_demand", included |-> "cursor:included", errored |-> "cursor:errored"][kind]

\* enrichCursorBilling: only on-demand usage costs anything, the rest is usage value.
EnrichCursorBilling(x) ==
  IF x.provider # "cursor" THEN x
  ELSE LET kind == ClassifyCursorBillingKind(x)
       IN [x EXCEPT !.op = CursorOperation(kind), !.usageValue = x.cost,
                    !.cost = IF kind = "on_demand" THEN x.cost ELSE 0,
                    !.costSource = IF kind = "on_demand" THEN "cursor_billed" ELSE "cursor_usage_value"]

NonMeteredCostSources == {"pricebook_estimate", "cursor_usage_value", "portal_activity"}

\* computeMeteredCostUsd: the amount that is stamped on the row ("cursor:other" is an operation of Cursor's
\* that is none of those above).
ComputeMeteredCostUsd(x) ==
  IF x.costSource \in NonMeteredCostSources \/ x.op \in {"cursor:included", "cursor:errored"} THEN 0
  ELSE IF x.op = "cursor:on_demand" THEN x.cost
  ELSE IF x.provider = "github_copilot" THEN 0
  ELSE IF x.provider = "cursor" /\ x.product \notin {"usage-based", "on-demand"}
            /\ (x.product \in {"included", "errored"} \/ x.op # "cursor:other") THEN 0
  ELSE x.cost
-----------------------------------------------------------------------------
(***************************************************************************)
(* Who is charged.  A record names any of a user, an email, a name and the *)
(* dimensions of the provider; mappings [type, key, user, team] are the    *)
(* administrators' and entities [key, email] the provider's own users.     *)
(***************************************************************************)
Dimension(x, type) ==
  CASE type = "api_key" -> x.apiKey
    [] type = "project" -> x.project
    [] type = "workspace" -> Either(x.workspace, x.project)
    [] type = "service_account" -> x.serviceAccount
    [] type = "team" -> x.team

\* findMapping
FindMapping(mappings, x, type) == {m \in mappings : m.type = type /\ Dimension(x, type) # "" /\ m.key = Dimension(x, type)}

\* findUserByEmail
FindUserByEmail(entities, email) == {e \in entities : e.email = email}

Mapped(mappings, x, type) == {m \in FindMapping(mappings, x, type) : m.user # ""}

\* resolveAttribution: the chain of user, email, key, project, workspace, service account and team.
\* (A mapping of a provider user is looked up only for records without one, so it never applies.)
ResolveAttribution(x, mappings, entities) ==
  LET by(type) == CHOOSE m \in Mapped(mappings, x, type) : TRUE
      to(type) == [user |-> by(type).user, team |-> Either(by(type).team, x.team), method |-> type]
      teams == {m \in FindMapping(mappings, x, "team") : m.team # ""}
  IN CASE x.user # "" -> [user |-> x.user, team |-> x.team, method |-> "provider_user_id"]
       [] x.user = "" /\ x.email # "" ->
            [user |-> IF FindUserByEmail(entities, x.email) = {} THEN x.email
                      ELSE (CHOOSE e \in FindUserByEmail(entities, x.email) : TRUE).key,
             team |-> x.team, method |-> "email"]
       [] OTHER ->
            IF Mapped(mappings, x, "api_key") # {} THEN to("api_key")
            ELSE IF Mapped(mappings, x, "project") # {} THEN to("project")
            ELSE IF Mapped(mappings, x, "workspace") # {} THEN to("workspace")
            ELSE IF Mapped(mappings, x, "service_account") # {} THEN to("service_account")
            ELSE IF teams # {} THEN LET m == CHOOSE m \in teams : TRUE
                                    IN [user |-> Either(m.user, Unassigned), team |-> m.team, method |-> "team"]
            ELSE [user |-> Unassigned, team |-> x.team, method |-> "unmapped"]

\* displayUserLabel: the email where there is one, then the name, then the resolved user.
DisplayUserLabel(x, resolved) ==
  LET name == IF x.name = "Deleted User" THEN "" ELSE x.name
  IN IF resolved = Unassigned THEN Unassigned ELSE Either(x.email, Either(name, resolved))

\* applyAttributionToMetrics, isUnmapped
ApplyAttribution(x, mappings, entities) ==
  LET a == ResolveAttribution(x, mappings, entities)
  IN [x EXCEPT !.user = DisplayUserLabel(x, a.user), !.team = a.team]

IsUnmapped(x) == x.user = Unassigned

\* enrichCursorCommitAttribution with buildCommitAttributionEvent: the share of a commit the tool wrote.
\* Hundredths of a percent, rounded half up.
AiSharePct(x) == IF x.linesTotal > 0 THEN (20000 * x.linesAi + x.linesTotal) \div (2 * x.linesTotal) ELSE 0

\* finalizeConnectorRecord, finalizeConnectorRecords
FinalizeConnectorRecord(x, mappings, entities) ==
  LET y == EnrichCursorBilling(EnrichRecordCost(x))
      stamped == IF x.commit # "" THEN y ELSE [y EXCEPT !.metered = ComputeMeteredCostUsd(y)]
  IN ApplyAttribution(stamped, mappings, entities)
\* toImportRow: the email is preferred as the key, so that files and syncs of one person meet.
ToImportRow(x) == [x EXCEPT !.source = "api", !.user = Either(x.email, x.user)]

\* The row parseGrid makes of a line of a billing file.
PortalRow(x) ==
  [x EXCEPT !.source = "portal_import", !.user = Either(x.email, x.user),
            !.costSource = IF x.cost <= 0 THEN "portal_activity" ELSE "portal_billing",
            !.metered = IF x.cost <= 0 THEN 0 ELSE x.cost]
-----------------------------------------------------------------------------
(***************************************************************************)
(* mapRow: the events of one imported row.                                 *)
(***************************************************************************)
RiskSeverities == {"", "low", "medium", "high", "critical"}

\* parseImportRow: a row is rejected when a field has a bad value or nothing in it can be imported.
HasUsage(x) == x.commit = "" /\ (x.provider # "" \/ x.model # "" \/ x.input > 0 \/ x.output > 0 \/ x.cost # 0)

ParseImportRow(x) ==
  /\ x.risk \in RiskSeverities /\ x.cost >= 0 /\ (x.outcome # "" => x.confidence <= 100)
  /\ HasUsage(x) \/ x.outcome # "" \/ x.tool # "" \/ x.risk # "" \/ x.commit # ""

\* A negative stamp stands for none: the row's own fields decide then.
BuildLlmCallEvent(x) ==
  [id |-> x.id, day |-> x.day, team |-> x.team, user |-> x.user, provider |-> x.provider, model |-> x.model,
   op |-> Either(x.op, "chat"), input |-> x.input, output |-> x.output, cost |-> x.cost,
   usageValue |-> IF x.usageValue # 0 THEN x.usageValue ELSE x.cost,
   metered |-> IF x.metered >= 0 THEN x.metered ELSE ComputeMeteredCostUsd(x),
   costSource |-> x.costSource, flagged |-> x.risk # "", source |-> Either(x.source, "sdk")]

BuildOutcomeEvent(x) ==
  [id |-> x.id, day |-> x.day, type |-> x.outcome, team |-> x.team, user |-> x.user, value |-> x.outcomeValue,
   confidence |-> x.confidence]

\* codingAgentProvider
CodingAgentProvider(x) ==
  LET named == {x.provider, x.tool}
  IN IF "cursor" \in named THEN "cursor"
     ELSE IF "claude-code" \in named THEN "claude-code"
     ELSE IF {"copilot", "github_copilot"} \intersect named # {} THEN "github-copilot" ELSE ""

\* buildToolCallEvents: the daily row of a coding tool carries the cost of the row as well.
BuildCodingAgentDaily(x) ==
  [id |-> x.id, day |-> x.day, provider |-> CodingAgentProvider(x), user |-> x.user, cost |-> x.cost,
   requests |-> IF x.requests > 1 THEN x.requests ELSE 1, linesAccepted |-> x.linesAccepted]

BuildCommitAttributionEvent(x) ==
  [id |-> x.id, day |-> x.day, user |-> x.user, linesTotal |-> x.linesTotal, linesAi |-> x.linesAi,
   share |-> AiSharePct(x), production |-> x.production]

BuildRiskEvent(x) == [id |-> x.id, day |-> x.day, severity |-> IF x.risk = "critical" THEN "high" ELSE x.risk]

NoEvents == [calls |-> {}, outcomes |-> {}, coding |-> {}, commits |-> {}, risks |-> {}]

MapRow(x) ==
  IF ~ ParseImportRow(x) THEN NoEvents
  ELSE [calls |-> IF HasUsage(x) THEN {BuildLlmCallEvent(x)} ELSE {},
        outcomes |-> IF x.outcome # "" THEN {BuildOutcomeEvent(x)} ELSE {},
        coding |-> IF x.tool # "" /\ CodingAgentProvider(x) # "" THEN {BuildCodingAgentDaily(x)} ELSE {},
        commits |-> IF x.commit # "" THEN {BuildCommitAttributionEvent(x)} ELSE {},
        risks |-> IF x.risk # "" /\ ~ HasUsage(x) THEN {BuildRiskEvent(x)} ELSE {}]
-----------------------------------------------------------------------------
(***************************************************************************)
(* The reconciled queries: S is the set of rows of the days asked for.     *)
(* Where a billing file covers a group of rows, it wins over the sync.     *)
(***************************************************************************)

\* EFFECTIVE_METERED_COST_USD
EffectiveMetered(r) ==
  CASE r.metered > 0 -> r.metered
    [] r.metered <= 0 /\ r.provider = "github_copilot" -> 0
    [] r.metered <= 0 /\ r.provider = "cursor" -> IF r.op = "cursor:on_demand" THEN r.cost ELSE 0
    [] OTHER -> IF r.costSource \in NonMeteredCostSources THEN 0 ELSE r.cost

\* LLM_CALLS_METERED_SCOPE
Scope(S) == {r \in S : r.provider # "github_copilot"}

\* PORTAL_IMPORT_ACTIVITY
PortalImportActivity(r) ==
  r.source = "portal_import" /\ (r.metered > 0 \/ r.costSource = "portal_activity" \/ r.input + r.output > 0)

Usd(S) == Total(S, EffectiveMetered)
FromPortal(S) == {r \in S : r.source = "portal_import"}
FromApi(S) == {r \in S : r.source = "api"}
FromElsewhere(S) == {r \in S : r.source \notin {"portal_import", "api"}}
Billed(S) == {r \in S : EffectiveMetered(r) > 0}

Key(r) == Either(r.user, Unassigned)
UserDay(r) == <<Key(r), r.day>>
UserDayModel(r) == <<Key(r), r.day, r.provider, r.model>>

\* GROUP BY
Grouped(S, by(_)) == {{r \in S : by(r) = k} : k \in {by(r) : r \in S}}

\* Mutant: the sync is added to what the file says.
AddedUsd(G) == Usd(G)

ReconciledUsd(G) == (IF Usd(FromPortal(G)) > 0 THEN Usd(FromPortal(G)) ELSE Usd(FromApi(G))) + Usd(FromElsewhere(G))

ReconciledCalls(G) ==
  LET portal == Cardinality({r \in G : PortalImportActivity(r)})
  IN (IF portal > 0 THEN portal ELSE Cardinality(Billed(FromApi(G)))) + Cardinality(Billed(FromElsewhere(G)))

\* Tokens follow the file also where it lists activity without cost.
ReconciledTokens(G, of(_)) ==
  LET tokens(T) == Total(T, of)
      fromFile == Usd(FromPortal(G)) > 0 \/ \E r \in G : PortalImportActivity(r)
  IN (IF fromFile THEN tokens(FromPortal(G)) ELSE tokens(FromApi(G))) + tokens(FromElsewhere(G))

SumOver(groups, value(_)) == Total(groups, value)

\* RECONCILED_USER_DAY_SPEND_SQL
ReconciledUserSpend(S) ==
  LET of(k) == {r \in Scope(S) : Key(r) = k}
  IN [k \in {Key(r) : r \in Scope(S)} |->
        [cost |-> SumOver(Grouped(of(k), UserDay), ReconciledUsd),
         calls |-> SumOver(Grouped(of(k), UserDay), ReconciledCalls),
         portal |-> Usd(FromPortal(of(k))), connector |-> Usd(FromApi(of(k)))]]

\* RECONCILED_USER_DAILY_SPEND_SQL
ReconciledUserDaily(S) ==
  [p \in {UserDay(r) : r \in Scope(S)} |->
     LET G == {r \in Scope(S) : UserDay(r) = p} IN [cost |-> ReconciledUsd(G), calls |-> ReconciledCalls(G)]]

\* RECONCILED_TENANT_DAILY_SPEND_SQL
ReconciledTenantDaily(S) ==
  [d \in {r.day : r \in Scope(S)} |->
     Total({p \in DOMAIN ReconciledUserDaily(S) : p[2] = d}, LAMBDA p : ReconciledUserDaily(S)[p].cost)]

\* RECONCILED_UNMAPPED_SPEND_SQL
ReconciledUnmapped(S) ==
  IF Unassigned \in DOMAIN ReconciledUserSpend(S) THEN ReconciledUserSpend(S)[Unassigned].cost ELSE 0

\* RECONCILED_USER_MODEL_BREAKDOWN_SQL: groups without a call are left out.
ReconciledBreakdown(S) ==
  LET parts(k) == Grouped({r \in Scope(S) : <<Key(r), r.provider, r.model>> = k}, UserDayModel)
      all == [k \in {<<Key(r), r.provider, r.model>> : r \in Scope(S)} |->
                [cost |-> SumOver(parts(k), ReconciledUsd), calls |-> SumOver(parts(k), ReconciledCalls)]]
  IN [k \in {j \in DOMAIN all : all[j].calls > 0} |-> all[k]]

\* RECONCILED_PROVIDER_SPEND_SQL
ReconciledProviderSpend(S) ==
  LET b == ReconciledBreakdown(S)
  IN [p \in {k[2] : k \in DOMAIN b} |-> Total({k \in DOMAIN b : k[2] = p}, LAMBDA k : b[k].cost)]

\* RECONCILED_MODEL_USAGE_SQL
ReconciledModelUsage(S) ==
  LET parts(k) == Grouped({r \in Scope(S) : <<r.provider, r.model>> = k}, UserDayModel)
      all == [k \in {<<r.provider, r.model>> : r \in Scope(S)} |->
                [cost |-> SumOver(parts(k), ReconciledUsd), calls |-> SumOver(parts(k), ReconciledCalls),
                 input |-> SumOver(parts(k), LAMBDA G : ReconciledTokens(G, LAMBDA r : r.input)),
                 output |-> SumOver(parts(k), LAMBDA G : ReconciledTokens(G, LAMBDA r : r.output))]]
  IN [k \in {j \in DOMAIN all : all[j].calls > 0} |-> all[k]]

\* RECONCILED_COST_BASIS_TOTALS_SQL
CostBasisTotals(S) ==
  LET groups == Grouped(Scope(S), UserDayModel)
  IN [cost |-> SumOver(groups, ReconciledUsd), keys |-> Cardinality(groups),
      meteredKeys |-> Cardinality({G \in groups : ReconciledUsd(G) > 0})]

\* RECONCILED_COST_BASIS_MONTHLY_SQL
CostBasisMonthly(S, month(_)) ==
  [m \in {month(r.day) : r \in Scope(S)} |->
     SumOver(Grouped({r \in Scope(S) : month(r.day) = m}, UserDayModel), ReconciledUsd)]

\* PROVIDER_SOURCE_BREAKDOWN_SQL: what each source brought in, not reconciled.
ProviderSourceBreakdown(S) ==
  [p \in {r.provider : r \in Scope(S)} |->
     LET G == {r \in Scope(S) : r.provider = p}
     IN [portal |-> Usd(FromPortal(G)), connector |-> Usd(FromApi(G)), live |-> Usd(FromElsewhere(G))]]
=============================================================================
