# A TLA+ model of LedgerAI

LedgerAI meters what a company spends on AI. A gateway in front of LLM providers
authenticates virtual keys, enforces policies and budgets and reports every call; a
collector and Kafka carry the events to ClickHouse; an API pulls in what the gateway does
not see (provider usage, billing exports, Copilot seats), and answers the dashboard's pages.

    administrators --> Postgres --reload--> gateway --reserve / commit--> budget store
                                               |
    agents --SDK-----------------------+       | Emit
                                       v       v
    OTel exporters ------------->   collector <-- event sink
                                       | Kafka
                                       v
                                   ch-insert --> ClickHouse --> analytics, CFO view, LARI, reports --> dashboard
                                                     ^
    providers --connectors, portal import, Copilot---+     SSO, SCIM --> identities, teams

Paths below are relative to `src/agentledger/services/`, those of the API to its `api/src/`,
unless they start elsewhere.

## 1. Inventory

| part | state | operations | hard behaviours | what makes it correct |
|---|---|---|---|---|
| gateway inline path (`gateway/proxy.go`, `messages.go`) | per request: snapshot, hold, usage | authenticate, policy stages, reserve, proxy, settle, emit | concurrent requests on one key, streams cut short, a process that dies between stages | what budgets count and what events report differ by named requests only; what is blocked stays inside; every hold is settled |
| configuration reload (`config_store.go`, `config_pg.go`) | current snapshot, price book | three queries, swap, keep the last good one | administrators commit between the queries; a swap under running requests | bounded staleness, one view per request |
| in-memory budget store (`budget.go`) | month, spend and rate slots per key, reservations | Reserve, Commit, Release, month roll | month change between Reserve and Commit; a stray second settlement | exact counters, a cap exceeded by at most one hold, a kept rate limit |
| shared budget store (`budget_redis.go`) | Redis counters and sorted sets | the same, as Lua scripts | two or three scripts per Reserve, calls whose fate is unknown and that the client library sends again, replicas that crash | counters equal charges, but for what repeated calls moved |
| event sink (`events.go`) | channel, batch, spool, counters | Emit (dropping or strict), flush loop, retry, spool, Close | a bounded buffer, a timeout racing a late answer, Close racing Emit | no accepted event vanishes without a trace; flushing ends |
| collector (`collector/`) | handlers, in-flight gate | POST of events and of spans, TryProduce, delivery callback | a gate of add and take-back; partly accepted batches | the gate counts what it gates; each refused event is counted |
| ClickHouse writer (`workers/internal/chinsert/`) | fetch position, committed offsets, batch | poll, route, insert with retries, isolate, dead-letter, commit | poison rows among good ones; a crash before the commit; failures that took effect | nothing behind the committed offset is unsettled; the worker advances |
| TypeScript SDK (`src/agentledger/packages/sdk-typescript`) | buffer, sends in flight, timer | trace, flush by size, time or call, retry, shutdown | sends that overlap; the process may exit first | an event is in one place until it is settled |
| accounts (`auth/`, `invites/`, `identities/`) | identities, tokens, invites | login, SSO provisioning, refresh, invite, accept, demote, deactivate | every request is several transactions | withdrawn access ends; overlaps stay accounted for |
| directory (`scim/`, `reports/identity-merge.ts`) | people, teams, aliases | SCIM users and groups, departments, merges, repairs | operations in any order; reads older than the write they justify | groups mirror the directory; somebody of each name survives |
| connectors (`connectors/`, `import/`) | connector row, idempotency ledger, usage | scheduled and manual sync, purge, insert, handoff | overlap with itself and an administrator, restarts, failing pages | no key without its row; nothing erased by an incomplete fetch |
| portal import (`portal-import/`) | runs, rows, idempotency keys, seat tags | upload, list, delete | two stores, any step may fail, a deletion takes effect later than its statement returns | rows that stand belong to one live run |
| analytics (`analytics/`, `fixed-costs/`, `reports/`) | usage tables, fixed costs | spend endpoints, seat pools, member directory, overview | the same spend arrives from several sources and is shown in several places | figures agree with one another |
| CFO view, LARI, worth, executive report (`lari/`, `reports/`) | the same, with outcomes, risks, plans, invoices | pages and reports | totals put together from a dozen queries | breakdowns add up; advice rests on stored spend |
| Copilot (`github-copilot/`) | seats, links, usage, bill, spend | initial, scheduled and manual sync, pages | syncs of one connection that overlap | a bill counts once in a team; tables come to agree with GitHub |
| virtual keys, policies (`virtual-keys/`, `policies/`) | control-plane rows | create, update, revoke | their effect on the gateway is delayed | see reload |
| risk engine, enrichment, Slack alerter; Go connectors; batch workers; ingest adapters; other CRUD; rest of the dashboard; Python SDK | | | | not modelled, section 8 |

`PROJECT.json` lists each part with its status, and under `hazards` the line at which each
hard behaviour bites with the properties that would catch it going wrong.

## 2. Modules

**Budgets.** `BudgetLedger` is the abstract store: a request has at most one charge (none, held,
booked, void), a hold is admitted while its key's total for the month is below the cap, a
charge is booked or dropped once, and the ledger may be lost as a whole (a restart). What a store that
repeats calls may miscount is its `slack`, which is zero for one that does not (`Repeat`).
`MemBudgetStore` is `budget.go`: each method holds the mutex, so it is one action (`Reserve`,
`Commit`, `Release`; `Restart`, and `Tick` for the clock). `RedisBudgetStore` is
`budget_redis.go`: a Lua script is one step, `Reserve` up to three of them, `Crash(p)` kills a replica's requests.
A request waits for the reply to its call (`pc`); an attempt whose reply does not come is one that the server may run later or
never (`late`, `RunsLate`), and then the client library sends the call again (`Resend`: go-redis does so up to three times, and
`NewRedisBudgetStore`, `budget_redis.go:128-137`, leaves that as it is) or the call fails. A script cannot tell a second run from the first:
`charge` records the first, `repeated` adds up what further runs moved. Both stores are refinements of `BudgetLedger`; the
mapping is `charge`, a history variable that the concrete actions set next to the counters, and `repeated` for the slack.
`BudgetStores` puts the two in one process (`main.go` picks one at its start). `Sums` defines totals
over `1..n`.

**Gateway.** `Gateway` models the stages of `serveCanonical` next to the reload, which is four steps
(`LoadKeys`, `LoadPolicies`, `LoadTools`, `Swap`) because it is three queries and a swap, with
administrators' transactions between them. A request carries the snapshot it arrived under. A process that
starts, or starts again after `Crash`, loads before it listens, and falls back on its config
file. `hist` remembers every committed state of the tables so that properties can speak of them. The budget
store is `BudgetLedger`.

**Event path.** `EventSink` and `Collector` are components, `EventPath` composes them through
one HTTP connection: an attempt arrives or is lost, its answer arrives or is overtaken by the
client's timeout or a proxy's 503, and the abandoned handler goes on producing. An OTel exporter competes
for the gate. `Sdk` is the TypeScript client; `SdkPath` extends `EventPath` and puts the SDK in the
gateway's place at the same collector, whose gateway is quiet there. What Kafka's client has not settled, and what the topic has, are counts per event (`pending`, `topic`), as
the same event may be produced more than once; `Records` are the counted records one by one. `ChInsert` models `consumer.go`, `pipeline.go`, `router.go` and
`inserter.go` step by step, with a crash anywhere.

**Control plane.** `Accounts` (logins, provisioning, tokens, invites), `Directory` (SCIM and
merges) and `PortalImport` split each request at its awaits or transactions. `ApiServices` holds the
last two as parts of one API process. `ConnectorSync` is the syncs of a tenant's connectors. Both import modules tell rows that stand from rows whose deletion the analytics
store has accepted: the code's default store is ClickHouse, where `ALTER TABLE ... DELETE` returns before the rows are gone (`clickhouse.service.ts:77-98`
sets no `mutations_sync`) and a row of the same key is replaced at the next merge; production takes Postgres (`docs/ENVIRONMENT.md:86`), where both have happened when the
statement returns. In `PortalImport` such rows are `doomed` until `Mutate` takes them away, in `ConnectorSync` they go over to `leaving` until `Expunge`; neither
has fairness, so a mutation may never run. Under Postgres these steps follow at once, which is one of the model's behaviours.

**Figures.** What the API computes are operators over the stored rows, written on one another as the
services call one another: `Metering` (costs and reconciliation of the sources), `Seats`
(fixed costs and pools), `SpendReports` (the endpoints), `UserDirectory` (people), `CfoView`, `Lari`,
`Worth`, `Reports` (the executive report, and the arithmetic the dashboard does itself). `Analytics` is the state
machine: the tables as writers change them, in any order, with a reader who may look at any
moment. `Copilot` holds the Copilot figures, stored and shown, `CopilotSync` the sync.

`SumsProofs`, `BudgetStoresProofs`, `GatewayProofs`, `EventPathProofs`, `ChInsertProofs`, `AccountsProofs`,
`PortalImportProofs` and `ConnectorSyncProofs` hold the theorems (section 6). The `MC*` modules give constants their values.

### Abstractions

- Money is in integers (the code uses floats): rounding is modelled where the API rounds, not below it.
- Classifier patterns, message translation, price lookup, CSV parsing, SQL text, paging, time zones,
  formatting and metrics are reduced to their outcome.
- `Gateway` stays in one month and its settling calls get through; the stores' modules cover the rest.
  A key's cap and rate limit stay as they are.
- Redis: retries are bounded by `MaxFaults`, not by three per call. Key expiry, a week after the month, and the drain loop, which only reads, are left out.
- ch-insert: a batch is a set, since no step depends on the order inside it; a message is one record of the log.
  That ClickHouse rejects a whole insert for one bad row, and Kafka's redelivery, are external.
- Accounts: an address has one row, a removed identity's next row is its next generation, as ids are never reused.
- `Directory` and `PortalImport` are explored one at a time, as their states meet in no property.
- Months have three days in the figures, and thresholds are small; their order is that of the code's.

## 3. Runs

Each bound is named in its module and chosen so that the case in question happens. Exploration
is narrowed only by symmetry, canonical orders and the scenarios named here, all
of them in the MC modules.

| run | instance | shows |
|---|---|---|
| `budget_stores` | in memory: 3 requests on one key with cap 3, 2 per window, estimates -1 and 2, costs -1, 1, 3, a clock of 2, a restart; shared: 2 replicas, 3 requests, the estimate equal to the cap and a small cost, 2 months, 2 faults (a repeated or failed call, a request killed by a crash) | `SpendMatchesCharges`, `CapExceededByOneHold`, `SharedSpendMatchesCharges`, and both refinements: `LedgerSpec`, `SharedLedgerSpec` (which adds the rate windows of both stores) |
| `gateway` | spending: a streamed and a buffered request on one key with cap 2, two price books; configuration: one request, 2 changes of a key, two policies and the tool allowlist; reloads and crashes in both | `SpendMatchesEvents`, `BlockedStaysInside`, `StalenessBounded`, `HoldsSettle`. Two changes are the fewest that can tear a view |
| `event_path` | 2 events and a malformed span, channel of 1, batch of 2, 1 retry, gate of 1, 2 handlers | `GateExact`, `AcceptedLossMeasured`, `FlushedIsAccounted`, `EveryEventFlushed` |
| `sdk` | 2 events, 2 sends, 1 retry, gate of 1 | `TracesAccounted`, `EveryTraceSettled` |
| `ch_insert` | 2 partitions: a good and a poison row of one table, an unroutable message, a good row of another table; 3 faults, 1 retry | `LossesExplained`, `ProgressOrHopeless` |
| `accounts` | one address (the founding administrator's), 2 requests, 2 invites, 2 generations, 2 changes, a clock of 3 with tokens of 1 and 2 | `WithdrawnWithinTtl`, `OverlapsAccounted` |
| `api` | imports: 2 uploads of three batches, one other event; directory: 2 people of one name, three teams, 5 requests one after another | `OneRunPerDay`, `DeletedRunsGone`, `RowsTraceable`, `GroupsMirrored`, `DepartmentWins`, `SomeoneSurvives` |
| `connector_sync` | a connector of each kind, activity on the first day and spend on the last, 2 attempts, 1 event: an administrator, a restart or trouble with one request of a window | `LedgerBacked`, `ErasedOnlyWhenComplete`, `StuckSyncRecovered`, `BilledUsageStored` |
| `analytics` | 6 connector records, 3 portal lines, 2 imported rows, a gateway call, 3 fixed costs, tags; any 3 writes | `ReconciledTotalsAgree`, `SeatChargesAreCarried`, `DirectoryShowsEveryone`, `OverviewAddsUp` |
| `lari` | fewer records, larger amounts, outcomes, risks, plans and an invoice; any 3 writes | `CfoBreakdownsAddUp`, `RecommendationsBacked`, `ReportAddsUp` |
| `copilot` | a connection with two members over a month's end, two answers of GitHub, 1 fault (a lost answer, a failed sync, a crash, an update of the connector), 1 manual sync | `BilledOncePerTeam`, `QuietSyncAgrees`, `Converges`, `PagesAgree` |
| `commit_loss` | `ch_insert` with 2 faults | a disagreement, section 5 |

Scenarios, where the full product would not end:

- `gateway`: the two columns of the table are told apart by the start tables (`MCStartTables`, `MCMaxChanges`, `ScenarioBounds`).
  Spending fails open and reloads one other price; configuration has no costs and fails either way.
- `budget_stores`: requests of the in-memory key start in order (`InOrder`); the fail mode is varied for the shared store only (`OneMemoryStart`), two of whose
  three requests run in a behaviour, either two on the limited key or two on one replica (`TwoAtATime`). Two faults are enough to repeat one script twice or two scripts of a request once.
- `event_path`: an exporter runs beside an attempt of a dropping sink without spool that has one event; two
  requests of the sink overlap in strict mode without spool; otherwise requests come one at a time (`Overlap`). In each
  mode the sink's own retries, timeouts and losses are all there.
- `sdk`: the application is a script that wants to know of failures and awaits one flush, or a server with
  the defaults that never flushes; a handler whose answer nobody awaits returns at once (`Scenario`); the idle gateway has one configuration (`OneGateway`).
- `api`: the directory's requests are served one after another there (`MCSerial`). Overlapping ones refute `SomeoneSurvives`, section 5.
- `copilot`: only a sync that runs alone fails, and none overlap after that (`Scenario`).
- `analytics`, `lari`: the tables that other services fill are chosen at the start (`MCStarts`, `LariStarts`).

Requests, events and writes are finite, so behaviours end; every configuration says `CHECK_DEADLOCK FALSE`. That something
gets stuck is what the liveness properties would show.

Each property is paired in `PROJECT.json` with a mutant, a definition with a plausible mistake in it that stands before
the original, under which TLC finds the property violated.

## 4. Fairness

- `Gateway`: a handler takes its next step and its upstream call ends, by the client's 10-minute timeout at the
  latest. Of streams it is assumed that the client reads or goes away: the server has no write timeout (`main.go:143`).
- `EventPath`: the flush goroutine is scheduled, the strict-mode timer fires, an HTTP attempt ends by its client's
  timeout (`events.go:135`). Nothing makes an Emit, a Close or an answer happen.
- `SdkPath`: timers fire and attempts end by their timeout. Nothing makes the application flush or the collector answer.
- `ChInsert`: the worker keeps running; faults are bounded by `MaxFaults`, so its calls get through in the end.
- `ConnectorSync`: a request goes on, the interval timer keeps firing (`connector-scheduler.service.ts:41`), time passes.
- `CopilotSync`: the same, and a user goes on asking for the connection; faults are bounded. `Converges` is claimed while the connector is enabled with an interval: the
  scheduler leaves out the others. A connector that was disabled need not be enabled again.
- `PortalImport.Mutate` and `ConnectorSync.Expunge` have none.

## 5. Disagreements with the documentation

`commit_loss` is the one registered as a finding. `consumer.go:53` skips the records of a poll that reports an
error for another partition, and later offsets pass over them; a failed dead-letter call is logged and its offset
committed. `consumer.go:12-14` says that offsets are committed only after a batch is durably inserted or
dead-lettered. `LossesExplained` shows that these two are the only ways to lose a message, and the theorem
`NoFaultNoLoss` that without a fault none is lost.

The others are stated as definitions next to the properties that do hold. To see one, add its name to the
configuration named here, as an INVARIANT unless it says otherwise.

| definition | configuration | what happens |
|---|---|---|
| `ConsistentView` | `MCGateway.cfg` | A key moves from p1 to p2 and p1 is disabled while a reload has read the keys but not the policies (`config_pg.go:43`). The snapshot has the key on p1 and p1 disabled, and lets through what each committed state would have blocked. "in-flight requests always see a consistent view" (`config_snapshot.go:3-5`) holds of the swap, not of what is swapped in. `StalenessBounded` is what holds |
| `BillingExact` | `MCGateway.cfg` | The usage of a stream is captured and the last write to the client fails (`proxy.go:243`): the hold is released and the event reports cost 0, where `messages.go:282-283` says "billing is exact". `SpendMatchesEvents` is what holds |
| `PoisonNeverStalls` (PROPERTY, `MaxFaults = 0`) | `MCChInsert.cfg` | A batch in which one table has only poison rows looks like an outage (`pipeline.go:89`) and is retried for ever. `ProgressOrHopeless` shows that this is the only way to stall |
| `RollupCountsOnce` | `MCChInsert.cfg` | An insert that took effect and was reported as failed is repeated (`pipeline.go:101`). `ReplacingMergeTree` merges the copies, the summing rollups have counted both |
| `OffboardedStaysOut` | `MCAccounts.cfg` | Accepting an invite activates an identity that SCIM deactivated (`invites.service.ts:169`; ADR-034 calls the IdP the source of truth) |
| `HandoffKept` (PROPERTY) | `MCConnectorSync.cfg` | A sync writes back a row it read before an import handed over (`sync-handoff.ts:14`) |
| `ActivityCountedOnce` | `MCConnectorSync.cfg` | Usage activity that is no spend is inserted again by each overlapping sync |
| `DeletionsSucceed` | `MCApi.cfg` | Deleting a group fails where its team is referred to (`scim.service.ts:358, 379-395`) |

Two more promises are kept only in part; the properties that hold say how far.

- "credit overage is counted once" (`github-copilot-billing.ts:67`): spend rows are keyed by team, so the rows of a member who changes teams stay under
  the earlier team and the bill is put on rows of the later one too. In the run of `copilot` the member `a`, whose bill of the month GitHub gives as 4 and then as 7, is charged 4 in one
  team and 7 in the other. `BilledOncePerTeam` is what holds.
- "Delete imported spend from one run — updates platform totals immediately" (`portal-import.controller.ts:133`): with ClickHouse the run is marked deleted when the mutation is
  queued, and the totals have its rows until the mutation has run, or for good if it fails; after an upload they have the rows of both runs meanwhile. `DeletedRunsGone`,
  `OneRunPerDay` and `RowsTraceable` speak of the rows that stand; with Postgres those are all rows.

### Other limits seen while modelling

The models contain these behaviours unless they say otherwise; no document promises the contrary, or no property depends on it.

- **Shared budget store.** Nothing in the scripts recognises a call that the client library sends again. A hold whose reply was lost may be carried out twice, or be rejected
  by its own first run, which then holds until the month's key expires; a release or a commit carried out twice takes the difference off, or adds it, twice. Counters
  drift by at most the amounts repeated (`SharedSpendMatchesCharges`), and may become negative.
- **In-memory store.** The slots live in the process: a window that spans a restart may see the limit used up once before it and once after.
- **Gateway.** A request whose `Reserve` failed open goes upstream without a hold: its event reports a cost that no budget counts. After 15 s of `Shutdown` the sink is closed under running handlers, whose `Emit` panics (`main.go:162`). A partly
  accepted batch is answered 202, so events refused for backpressure are neither retried nor spooled; the collector counts them.
- **SDK.** 4xx answers are retried, though a comment names transport errors and 5xx only. `flush` and `shutdown` do not wait for sends in flight;
  events after `shutdown`, an agent run's closing record included, are dropped with a log line. The retry delay is
  unref'd, so a script may exit during it. A failed background flush is only logged, fail-closed or not. A 202 hides refused events.
- **Accounts.** The documents give access tokens 15 minutes, `jwt.service.ts:36` defaults to 8 hours: `AccessTtl` is a constant. The OIDC client of
  a tenant is cached for the life of the process.
- **Directory.** A merge decides on rows read before (`identity-merge.ts:218, 268`), so overlapping repairs may leave nobody of a name
  active. A unique violation is caught inside its own transaction (`scim.service.ts:455`), which Postgres has already aborted.
- **Connectors.** `fetchEndpointRecords` truncates silently at its page limit; network errors are called retryable and not retried; a
  fallback in mid-pagination mixes two endpoints; a disabled connector is left out by the scheduler's list only, `syncConnection` itself does not look at it; `purgeProviderApiImports` deletes the rows of all Cursor connectors but releases only
  its own keys; `update()` with a secret sets 'connected' during a sync; deletion of a connector is not modelled.
- **Portal import.** Two uploads of the same days that overlap both purge before either inserts, and both stay; an upload that breaks off after its insert leaves rows that no run
  can delete. Identical CSV lines collapse to one key while totals count both; spend-report rows carry the report's last day, so
  overlapping reports count twice; the list of deleted runs is cut at 500.
- **Analytics.** The headline spend counts portal and API rows both where the sources overlap, user totals reconcile them (`metered-cost.ts:1-5`):
  `ReconciledTotalsAgree` compares them where the code itself reports no overlap. The breakdown has a finer key (`:132`); portal spend without calls is dropped by a
  HAVING; a range inside one month and one across months carry seats differently (`seat-allocation.ts:186`); equal splits round
  (`:312`); an amount of 100 and more is taken for cents (`cost-estimator.ts:127`); the 'provider_user' mapping is never reached;
  a Copilot row with the same handle replaces metered calls (`user-directory.util.ts:67`); two people of one display name are one row; two
  edits of a fixed cost that overlap lose one (`fixed-costs.service.ts:197`).
- **CFO view, LARI, report.** The recommendations and the worth page use different provider spend; the total of estimated savings counts
  the same seats several times; seats purchased are multiplied by a LEFT JOIN; importing demotes 'critical' to 'high'; the report's prior period lacks Copilot and
  the supplement; invoices of a provider with any metered row are ignored.
- **Copilot.** No lock keeps two syncs apart; a slower one may write an older bill, until the next sync. The initial sync starts inside the
  transaction that creates the connection, and may not find it (`github-copilot.service.ts:136-137`). Seats that vanish are not deactivated.
  The overview chart by team sums a month's base cost once per
  day and disagrees with the other totals; no property is about it.
- **Dashboard.** There are three "total cost of AI" figures (headline, panel, fixed-overhead page) with different treatment of seats; loads are not
  cancelled, so an older answer may replace a newer one; the vendor usage tab counts Cursor calls twice.

## 6. Proofs

TLC checks an instance; the theorems hold for every value of the constants that satisfies the named
assumption of the module. The assumptions give constants their types and say no more, except that
the sets of events, requests, invites, partitions, messages and records of usage are finite, tokens live at least one unit of time, `MaxEstimate` bounds
the estimates, a message is one record of the log (`PipelineAssumption`), the gateway's events are not the exporters' and sizes are positive (`PathAssumption`),
and imported days lie on a calendar that ends, counted from 1 (`CalendarAssumption`; 0 is no day). TLC evaluates them in each run. The SDK's events are any
finite set, and the bound on its sends, the model's and not the code's, any number (`SdkAssumption`).

| module | theorem | statement |
|---|---|---|
| `BudgetStoresProofs` | `TypeCorrect` | in memory: `Spec => []TypeOK`, counters are never negative |
| | `LedgerExact` | `Spec => []SpendMatchesCharges` |
| | `CapHolds` | `Spec => []CapExceededByOneHold` |
| | `RateWindowHolds` | `Spec => []RateWindowRespected`: in each life of the process |
| | `ImplementsLedger` | `Spec => LedgerSpec`, without slack |
| | `SharedTypeCorrect` | the shared store is well typed |
| | `SharedLedgerExact` | `StoresSpec => []SharedSpendMatchesCharges`: exact but for repeated runs |
| | `SharedImplementsLedger` | `StoresSpec => SharedLedgerSpec`, repeated runs as slack, the rate windows included |
| `GatewayProofs` | `GatewayTypeCorrect` | `Spec => []TypeOK` |
| | `OneSnapshotJudges` | `Spec => []BlockedStaysInside` |
| | `ReloadsBind` | `Spec => []StalenessBounded` |
| | `SpendIsBilled` | `Spec => []SpendMatchesEvents`: but for requests unreported or let through without a hold |
| `EventPathProofs` | `PathTypeCorrect` | `Spec => []TypeOK`: the gate's counter is never negative |
| | `GateIsExact` | `Spec => []GateExact` |
| | `AcceptedLossIsMeasured` | `Spec => []AcceptedLossMeasured` |
| | `FlushedAccounted` | `Spec => []FlushedIsAccounted` |
| | `TracesAreAccounted` | `SdkSpec => []TracesAccounted` |
| `ChInsertProofs` | `PipelineTypeCorrect` | the writer is well typed |
| | `LossesAreExplained` | `Spec => []LossesExplained` |
| | `NoFaultNoLoss` | `Spec => [](faults = 0 => CommittedIsSettled)` |
| `AccountsProofs` | `WithdrawalBinds` | `Spec => []WithdrawnWithinTtl` |
| | `OverlapsAreAccounted` | `Spec => []OverlapsAccounted` |
| `PortalImportProofs` | `ImportTypeCorrect` | `ServicesSpec => []TypeOK` of the import's part; the other three are of the rows that stand |
| | `UploadReplaces` | `ServicesSpec => []OneRunPerDay` |
| | `DeletionIsComplete` | `ServicesSpec => []DeletedRunsGone` |
| | `SpendIsTraceable` | `ServicesSpec => []RowsTraceable` |
| `ConnectorSyncProofs` | `LedgerIsBacked` | `Spec => []LedgerBacked` |
| | `PriorSpendKept` | `Spec => ErasedOnlyWhenComplete`, an action property |

Each module proves Init, one lemma per action and the step for an inductive invariant, which TLC had checked first on
the run's instance. None of the safety properties is inductive as it stands; what each needed:

- **`IInv`** (in-memory store). `Commit` and `Release` subtract the amount in the *reservation* from the
  counter if the reservation's month is the store's. So an unapplied reservation of the store's month has a held charge of exactly
  that amount (`LinkedAt`), and no charge is dated later than the store's month, since the month roll sets counters to zero.
  One lemma per action shows that counter and ledger move by the same amount; that the clamp at zero hides nothing follows because a
  charge is at most the total it is part of. *The cap:* right after a hold the counter is below cap plus one
  hold, and grows afterwards only by what a realised cost exceeds its own hold by. *The rate window:* the slots kept of a key are
  exactly the requests admitted within the last window, so the check on admission bounds every window that ends now, and older
  windows gain nothing.
- **`SharedInv`** (shared store). A counter minus the ledger's total never differs by more than `repeated` (`BudgetMatchesCharges`), and this is inductive only with
  what each place of a request and each attempt still under way says about its charge (`SharedLinked`): which month and amounts a
  script will move when it runs, now or late, and whether its charge is already made. One lemma per script (`ScriptRuns`) then shows that a first run moves counter
  and ledger alike, and any other run moves the counter by no more than it adds to `repeated`; the clamp of the release only moves a counter towards the
  ledger. `SharedLinked` also gives that a request whose charge is left held, or that went on without one, has been in trouble. *The rate window:* a request that
  the script admitted within the last window has a slot at least as young (`SharedSlotsLinked`; a repeated run renews it), and as slots carry their request, no more requests
  were admitted than there are slots (`OwnSlots`). The refinement uses the invariant where a hold is admitted by the *ledger's* total plus the slack.
- **`GatewayInv`**. *Spend:* what `Settle` books must be the cost that `Emit` will report two steps later (`RequestOk`); until then the charge counts as `Unreported`, and a request without a hold has no charge, so that its cost is all `Unenforced`. *One snapshot:* a request
  that has passed its policies must still be known to have passed when it is sent. *Staleness:* each part of the running snapshot,
  and each part a reload has read so far, was in the tables at some moment since the load began (`SnapFrom`, `ReloadOk`), though at
  three different moments.
- **`Inv`** (event path). `GateInv`: besides the equation, that only finitely many records are unsettled. `LossInv` and `FlushInv`: while the sink still holds a
  batch, the collector may have refused some of its events already, and the sink will get a 202 for the others. So an event counts as missing (`Missing`), or as dealt
  with (`Dealt`), from the moment the handler of the *current* attempt is through with it, unless that attempt is going to be answered 400 or 413; an attempt that is given up
  takes it back. The bound then holds at each step: every action that puts an event into one of these sets counts a flush or a record.
- **`ClientInv`** (SDK). `PlaceInv`: buffer and batches have no event twice or in common, and an idle send has none. `DeliveryInv` is as for the gateway, with as many attempts as sends. `CopyInv`: the copies of an
  event, written, unsettled or still in a handler that nobody waits for any more, are no more than the times it was posted, and an event not yet sent has none. `PromiseInv`: the
  one send that shutdown awaits keeps its promise pending, so a promise that has resolved has no send left. What the collector's steps do is proved once, for both clients.
- **`PipelineInv`** (ClickHouse writer). What is fetched and not yet committed must be explained or still be pending
  (`FetchedExplained`), where what is pending depends on the step; and for the bound on good rows in the dead-letter topic, those that
  still wait in isolation count as misjudged already (`Misjudged`), one fault each.
- **`AccountsInv`**. A request about to mint a token has read its user's role at this moment of the clock (`FlowInv`); no token
  outlives its user's last active moment by more than its lifetime (`SessionInv`). Invitations pending plus requests about to insert one stay
  within the number of requests (`Counted`), which is an argument about cardinalities of two sets that one step changes together.
- **`IInv`** (portal import). All conditions are on the rows that stand, so a mutation disturbs none. While uploads do not overlap, what one purged has no such row until it inserts (`Purged`), and its window covers every row it writes (`WindowCovers`: the first and last day of a
  finite calendar). A run is recorded only after its rows are in, so a deletion that has removed the rows of a run can mark it (`DeletionOk`, `NoneOfDeleted`).
  Rows stay traceable because an upload that breaks off is remembered as such from the moment its rows are in.
- **`SyncInv`** (connectors). At each step a sync holds only rows it fetched; between its reservation and its insert it answers for the
  keys it won, between its purge and its release for the keys of its connector (`Backed`). That a Cursor sync purges with nothing left to
  fetch and no error, its companion for activity included, (`FlowOk`) must be known steps later, when it does. Kinds of connectors never change, so keys do not either (`KeyStays`).

`SumsProofs` proves of the recursive function for totals, by the least-element principle, that it exists, is unique
(`RunningTotalExists`, `RunningTotalUnique`), and hence what changing one entry does (`TotalUpdate`), that it is zero for zeros
(`TotalZero`) and at least each entry (`TotalBoundsEntry`). The proofs of both stores and of the gateway rest on it.

A proof attempt also corrected the models: two tables of cases (`StatusFor`, `DetectPortalCsvFormat`) had
overlapping arms, which TLC takes in order and TLA+ leaves open; they are conditionals now, as in the code. `LedgerBacked` as first
stated is false of two Cursor connectors, which the run's single connector does not show: the purge of one deletes the rows of the other
(`connectors.service.ts:1133`) and leaves it their keys, so that its later syncs skip them until one releases. `Purge` records these keys as dropped now, the property says so, and
statements that fail between a purge and its release are an action (`StatementFails`). The records of the collector were bags, whose cardinality nothing can be proved about here, and
are counts now. The SDK's events were all valid to the collector in its composition; which ones are is a constant now.

Only model-checked:

- Liveness (`HoldsSettle`, `EveryEventFlushed`, `EveryTraceSettled`, `ProgressOrHopeless`, `StuckSyncRecovered`,
  `BilledUsageStored`, `Converges`): beyond the prover.
- The directory (`GroupsMirrored`, `DepartmentWins`, `SomeoneSurvives`): a request folds over its members or filters a list, and what
  a fold yields for every list takes induction over data, which the prover does not have.
- The figures (`analytics`, `lari`, and of `copilot` `BilledOncePerTeam`, `QuietSyncAgrees`, `PagesAgree`): sums over sets of rows by folds, for the same reason. They are checked over the
  tables of the runs.

## 7. Plan

Done: the modules above, in the order budgets, gateway, event path, ClickHouse writer, accounts, directory, imports, connectors,
analytics and its pages, Copilot, SDK; then the proofs of section 6: budgets, gateway, ClickHouse writer, accounts, connectors, event path, portal import, SDK.
Of the runs' safety properties, those of the directory, of Copilot and of the figures are the ones not proved.

Next, if the models are extended: the risk alerter with its mark before the post, edits of fixed costs that overlap, and the directory with its folds
written as one step per member, which could then be proved about.

## 8. Not modelled

- Risk engine, enrichment and Slack alerter: periodic scoring of ClickHouse rows. The alerter's mark that is set before the post is listed as a hazard.
- The Go connectors: an older sync loop of the shape of `ConnectorSync`, with page cursors.
- Attribution, priors, price sync, reconcile: batch jobs over floating-point statistics, recomputed from stored data on each pass.
- Other CRUD of the API: single-row changes with an audit row in one transaction.
- Ingest adapters, the rest of the dashboard, the Python SDK, shared types: format conversion, user interface, a second
  client of the same protocol, generated code.
- Inside modelled parts: the collector's shutdown, Redis key expiry, deletion of connectors and Copilot connections, SCIM listing and
  paging, OIDC discovery, the PDF and CSV layout of reports.
