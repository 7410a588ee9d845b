--------------------------- MODULE ConnectorSync ---------------------------
(***************************************************************************)
(* The billing connectors of one tenant (api/src/connectors): a sync reads *)
(* the connector's row, fetches usage from the provider window by window,  *)
(* replaces what earlier syncs stored and records the outcome.  Every      *)
(* await is a step; the scheduler, an administrator and a restart of the   *)
(* process come in between.  Rows reach the analytics tables through the   *)
(* idempotency ledger of import.service.ts: keys are reserved in one       *)
(* transaction, rows inserted in another.                                  *)
(***************************************************************************)
EXTENDS Integers, FiniteSets, Sequences

CONSTANTS
  Connectors,         \* connector rows of the tenant
  Kinds,              \* kinds a connector may have: "cursor", "other", "ado"
  Records,            \* usage a provider may report: [c, day, what], what "spend" or "activity"
  Backfill,           \* defaultBackfillDays
  MaxDaysPerRequest,  \* maxDaysPerRequest
  IncrementalDays,    \* INCREMENTAL_SYNC_DAYS
  MaxAttempts,        \* retry.maxAttempts
  MaxPages,           \* pagination.maxPages, pages of one row
  MaxDay,             \* bound on the calendar
  MaxEvents,          \* bound on what administrators, failing requests and restarts do
  MaxCount            \* bound on how often a record is counted in a sum: more counts as this

ASSUME ConnectorAssumption ==
  /\ Backfill \in Nat \ {0} /\ MaxDaysPerRequest \in Nat \ {0} /\ IncrementalDays \in Nat \ {0}
  /\ MaxAttempts \in Nat \ {0} /\ MaxPages \in Nat \ {0} /\ MaxDay \in Nat \ {0} /\ MaxEvents \in Nat /\ MaxCount \in Nat \ {0}
  /\ Kinds \subseteq {"cursor", "other", "ado"}
  /\ Records \subseteq [c : Connectors, day : 1..MaxDay, what : {"spend", "activity"}] /\ IsFiniteSet(Records)

Procs == {"scheduler", "admin"}
Prices == {"free", "billed"}
Rows == Records \X Prices

VARIABLES
  today,
  provider,  \* how the provider prices a record, from its day on: "none" is not reported yet
  conn,      \* the connectors table
  ledger,    \* import_idempotency
  stored,    \* llm_calls, by call id: a row per key, but for
  leaving,   \* rows that were deleted or replaced and can still be read: see Expunge
  activity,  \* coding_agent_daily: how often a record was added into its sums
  flow,      \* the syncs in progress
  events,    \* history: manual syncs, updates, portal imports, faults
  dropped    \* history: keys whose row a fault or another connector's purge has cost

vars == <<today, provider, conn, ledger, stored, leaving, activity, flow, events, dropped>>

Statuses == {"connected", "syncing", "healthy", "degraded", "auth_failed", "error"}
Ages == 0..2   \* of a running sync: under 5 minutes (SYNC_IN_PROGRESS_MS), under 15 minutes, over

Idle == [at |-> "idle", c |-> CHOOSE c \in Connectors : TRUE, todo |-> <<>>, from |-> 1, to |-> 1,
         got |-> {}, rows |-> {}, fresh |-> {}, errors |-> FALSE, released |-> FALSE, imported |-> FALSE,
         base |-> 0, through |-> 0, was |-> "connected", code |-> "none"]

TypeOK ==
  /\ today \in 1..MaxDay
  /\ provider \in [Records -> Prices \union {"none"}]
  /\ conn \in [Connectors -> [kind : Kinds, status : Statuses, age : Ages, enabled : BOOLEAN,
                              base : 0..MaxDay + 1, through : 0..MaxDay]]
  /\ stored \subseteq Rows /\ leaving \subseteq Rows
  /\ activity \in [Records -> 0..MaxCount]
  /\ \A p \in Procs : flow[p].got \subseteq Rows /\ flow[p].fresh \subseteq Rows

Init ==
  /\ today = 1
  /\ provider = [r \in Records |-> IF r.what = "spend" THEN "none" ELSE "free"]
  /\ conn \in [Connectors -> [kind : Kinds, status : {"connected"}, age : {0}, enabled : {TRUE},
                              base : {0}, through : {0}]]
  /\ ledger = {} /\ stored = {} /\ leaving = {} /\ dropped = {}
  /\ activity = [r \in Records |-> 0]
  /\ flow = [p \in Procs |-> Idle]
  /\ events = 0
-----------------------------------------------------------------------------
(***************************************************************************)
(* Windows of days.  0 stands for a date that is not given.                *)
(***************************************************************************)
Window(from, to) == [from |-> from, to |-> to]
NoWindow == Window(0, 0)

Max2(a, b) == IF a > b THEN a ELSE b
Min2(a, b) == IF a < b THEN a ELSE b

\* Mutant: the window ends with yesterday.
IncrementalSyncYesterday == Window(Max2(1, today - IncrementalDays), Max2(1, today - 1))

\* incrementalSyncWindow
IncrementalSyncWindow == Window(Max2(1, today - IncrementalDays + 1), today)

\* resolveConnectorSyncRange: the range a sync uses; a scheduled one may have nothing to do.
ResolveConnectorSyncRange(range, base, incremental) ==
  LET given == range.from # 0 /\ range.to # 0
      clamped == Max2(range.from, base)
  IN IF given
       THEN IF base # 0 /\ (range.to < base \/ clamped > range.to)
              THEN [skip |-> incremental, w |-> range]
              ELSE [skip |-> FALSE, w |-> Window(clamped, range.to)]
       ELSE IF base = 0 THEN [skip |-> FALSE, w |-> range]
            ELSE IF base > today THEN [skip |-> incremental, w |-> Window(base, base)]
            ELSE [skip |-> FALSE, w |-> Window(base, today)]

\* resolveSyncChunks: whole requests from the end of the range, the oldest one shorter.
ResolveSyncChunks(w) ==
  LET end == IF w.to = 0 THEN today ELSE w.to
      start == IF w.from = 0 THEN Max2(1, end - Backfill + 1) ELSE w.from
      n == (end - start) \div MaxDaysPerRequest + 1
      ChunkEnd(i) == end - (n - i) * MaxDaysPerRequest
  IN [i \in 1..n |-> Window(Max2(start, ChunkEnd(i) - MaxDaysPerRequest + 1), ChunkEnd(i))]

In(d, w) == w.from <= d /\ d <= w.to
-----------------------------------------------------------------------------
(***************************************************************************)
(* The import ledger.  The key of a Cursor row does not hold its cost.     *)
(***************************************************************************)
KeyOf(row) == IF conn[row[1].c].kind = "cursor" THEN <<row[1], "any">> ELSE row

KeysOf(rows) == {KeyOf(row) : row \in rows}

\* INSERT ... ON CONFLICT DO NOTHING RETURNING: the rows whose keys this request won.
Won(rows) == {row \in rows : KeyOf(row) \notin ledger}

\* insertRows: llm_calls rows replace one another by call id, coding_agent_daily rows add up.
SpendRows(rows) == {row \in rows : row[1].what = "spend"}

Replaced(rows) == {row \in stored : KeyOf(row) \in KeysOf(SpendRows(rows))}

Upserted(rows) ==
  {row \in stored : KeyOf(row) \notin KeysOf(SpendRows(rows))} \union SpendRows(rows)

AddedActivity(rows) ==
  [r \in Records |-> IF r.what = "activity" /\ \E row \in rows : row[1] = r
                      THEN Min2(MaxCount, activity[r] + 1) ELSE activity[r]]

IsStored(k) ==
  IF k[1].what = "activity" THEN activity[k[1]] > 0 ELSE \E row \in stored : KeyOf(row) = k

\* command: on ClickHouse an ALTER TABLE ... DELETE returns once it is queued, and a row that is
\* replaced goes with the next merge; on Postgres (postgres-analytics.store.ts) both have
\* happened when the statement returns, and Expunge follows at once.
Expunge ==
  /\ leaving # {} /\ leaving' = {}
  /\ UNCHANGED <<today, provider, conn, ledger, stored, activity, flow, events, dropped>>

\* releaseConnectorImportKeys
ReleasedKeys(c) == {k \in ledger : k[1].c # c}
-----------------------------------------------------------------------------
(***************************************************************************)
(* The world around: time, the provider, administrators.                   *)
(***************************************************************************)
NextDay ==
  /\ today < MaxDay
  /\ today' = today + 1
  /\ UNCHANGED <<provider, conn, ledger, stored, leaving, activity, flow, dropped, events>>

\* Spend shows up at the provider on its day or later, first without a price.
Report(r) ==
  /\ r.what = "spend" /\ r.day <= today
  /\ \/ provider[r] = "none" /\ provider' = [provider EXCEPT ![r] = "free"]
     \/ provider[r] = "free" /\ provider' = [provider EXCEPT ![r] = "billed"]
  /\ UNCHANGED <<today, conn, ledger, stored, leaving, activity, flow, dropped, events>>

Older(c) ==
  /\ conn[c].status = "syncing" /\ conn[c].age < 2
  /\ conn' = [conn EXCEPT ![c].age = @ + 1]
  /\ UNCHANGED <<today, provider, ledger, stored, leaving, activity, flow, dropped, events>>

\* updateConnectorHandoff: a portal import covers the days up to yesterday.
UpdateConnectorHandoff(c) ==
  /\ events < MaxEvents /\ today > 1
  /\ conn' = [conn EXCEPT ![c].through = today - 1,
                          ![c].base = IF @ = 0 THEN today ELSE @]
  /\ events' = events + 1
  /\ UNCHANGED <<today, provider, ledger, stored, leaving, activity, flow, dropped>>

\* update: a new secret makes the connector count as connected whatever it was doing.
UpdateConnector(c) ==
  /\ events < MaxEvents /\ events' = events + 1
  /\ \E secret \in BOOLEAN, enabled \in BOOLEAN :
       conn' = [conn EXCEPT ![c].enabled = enabled,
                            ![c].status = IF secret THEN "connected" ELSE @,
                            ![c].age = IF secret THEN 0 ELSE @]
  /\ UNCHANGED <<today, provider, ledger, stored, leaving, activity, flow, dropped>>
-----------------------------------------------------------------------------
(***************************************************************************)
(* A sync.  The row is read once; what was read is used to the end.        *)
(***************************************************************************)
\* Mutant: the age of a running sync is not looked at.
NotBusyAtAll(c, age) == conn[c].status # "syncing"

\* A sync counts as running for so long only.
NotBusy(c, age) == conn[c].status = "syncing" => conn[c].age >= age

\* The row as it is read, and the windows of the range.
Started(c, w) ==
  LET chunks == ResolveSyncChunks(w)
  IN [Idle EXCEPT !.at = "mark", !.c = c, !.todo = chunks,
                  !.from = chunks[1].from, !.to = chunks[Len(chunks)].to,
                  !.base = conn[c].base, !.through = conn[c].through, !.was = conn[c].status]

\* The ranges an administrator may ask for.
Ranges == {w \in {NoWindow} \union {Window(f, t) : f \in 1..today, t \in 1..today} : w.from <= w.to}

BeginManual(c) ==
  /\ events < MaxEvents /\ flow["admin"].at = "idle"
  /\ conn[c].enabled /\ NotBusy(c, 1)
  /\ \E w \in {ResolveConnectorSyncRange(range, conn[c].base, FALSE).w : range \in Ranges} :
       flow' = [flow EXCEPT !["admin"] = Started(c, w)]
  /\ events' = events + 1
  /\ UNCHANGED <<today, provider, conn, ledger, stored, leaving, activity, dropped>>

\* runScheduledSync: connector_scheduled_sync lists it, and the window is not covered already.
BeginScheduled(c) ==
  /\ flow["scheduler"].at = "idle"
  /\ conn[c].enabled /\ NotBusy(c, 2)
  /\ \E r \in {ResolveConnectorSyncRange(IncrementalSyncWindow, conn[c].base, TRUE)} :
       /\ ~ r.skip
       /\ \E w \in {ResolveConnectorSyncRange(r.w, conn[c].base, FALSE).w} :
            flow' = [flow EXCEPT !["scheduler"] = Started(c, w)]
  /\ UNCHANGED <<today, provider, conn, ledger, stored, leaving, activity, dropped, events>>

Mark(p) ==
  LET c == flow[p].c
  IN /\ flow[p].at = "mark"
     /\ conn' = [conn EXCEPT ![c].status = "syncing", ![c].age = 0]
     /\ flow' = [flow EXCEPT ![p].at = IF conn[c].kind = "ado" THEN "ado" ELSE "fetch"]
     /\ UNCHANGED <<today, provider, ledger, stored, leaving, activity, dropped, events>>

(***************************************************************************)
(* The request engine.  A request is tried up to MaxAttempts times and the *)
(* provider's answers are HTTP statuses, 0 for no answer at all.           *)
(***************************************************************************)
BadStatuses == {0, 401, 404, 429, 503}
Tries == [1..MaxAttempts -> {200} \union BadStatuses]

\* classifyError; a failed fetch call is thrown as it is.
ClassifyError(status) ==
  CASE status = 0 -> "NETWORK_ERROR"
    [] status = 429 -> "RATE_LIMITED"
    [] status \in {401, 403} -> "AUTH_FAILED"
    [] status >= 500 -> "PROVIDER_UNAVAILABLE"
    [] OTHER -> "REQUEST_FAILED"

\* executeWithRetry: the answer of the first try that is not worth another, or of the last.
ExecuteWithRetry(tries) ==
  tries[CHOOSE i \in 1..MaxAttempts :
          /\ i = MaxAttempts \/ tries[i] < 500
          /\ \A j \in 1..i - 1 : tries[j] >= 500]

Results == {ExecuteWithRetry(tries) : tries \in Tries}

\* shouldUseFallback
ShouldUseFallback(status) == status \in {401, 403, 404}

\* executeConnectorRequest: a preset with a fallback tries that endpoint instead.
ExecuteConnectorRequest(hasFallback, result, again) ==
  IF hasFallback /\ ShouldUseFallback(result) THEN again ELSE result

\* fetchEndpointRecords: the pages of a request, as many as the limit allows, and the rows
\* of them that validate.
FetchEndpointRecords(rows, bad) ==
  LET paged == IF Cardinality(rows) <= MaxPages THEN rows
               ELSE CHOOSE kept \in SUBSET rows : Cardinality(kept) = MaxPages
  IN [rows |-> paged \ bad, errors |-> paged \intersect bad # {}]

\* What the provider reports of a window, to Cursor's primary request or to its companion.
Reported(c, w, what) ==
  {<<r, provider[r]>> : r \in {x \in Records : /\ x.c = c /\ x.what = what /\ In(x.day, w)
                                               /\ x.day <= today /\ provider[x] # "none"}}

\* fetchAllRecords: the primary request must succeed.  Cursor has two companions: that the one
\* for activity fails is an error to note; the one for commits, whose rows are left out here, is
\* optional, and is skipped where the key may not use it.
FetchAllRecords(kind, spend, extra, bad, answer) ==
  LET status == ExecuteConnectorRequest(kind = "other", answer.primary, answer.fallback)
      main == FetchEndpointRecords(IF kind = "cursor" THEN spend ELSE spend \union extra, bad)
      side == FetchEndpointRecords(extra, bad)
      fetched == kind = "cursor" /\ answer.companion = 200
  IN IF status # 200
       THEN [code |-> ClassifyError(status), rows |-> {}, errors |-> FALSE]
       ELSE [code |-> "none",
             rows |-> main.rows \union (IF fetched THEN side.rows ELSE {}),
             errors |-> \/ main.errors
                        \/ fetched /\ side.errors
                        \/ kind = "cursor" /\ answer.companion # 200
                        \/ kind = "cursor" /\ answer.commits # 200 /\ ~ ShouldUseFallback(answer.commits)]

\* The answers of one window: at most one of its requests runs into trouble.
SmoothAnswer == [primary |-> 200, fallback |-> 200, companion |-> 200, commits |-> 200]
Answers ==
  {[SmoothAnswer EXCEPT !.primary = x, !.fallback = y] : x \in Results, y \in {200, 401}}
    \union {[SmoothAnswer EXCEPT !.companion = x] : x \in Results}
    \union {[SmoothAnswer EXCEPT !.commits = x] : x \in Results}

\* What may come of a window when something goes wrong: a request fails, or rows do not validate.
Outcomes(kind, spend, extra) ==
  {FetchAllRecords(kind, spend, extra, {}, answer) : answer \in Answers}
    \union {FetchAllRecords(kind, spend, extra, bad, SmoothAnswer) : bad \in SUBSET (spend \union extra)}

Spent(rows) == \E row \in rows : row[2] = "billed"

NextChunk(f) == IF f.todo # <<>> THEN "fetch" ELSE IF f.errors THEN "fail" ELSE "finish"

\* Mutant: a failed companion request does not keep a Cursor sync from replacing the window.
AfterFetchUnchecked(f, kind) ==
  CASE kind = "cursor" -> IF f.todo = <<>> THEN "purge" ELSE "fetch"
    [] kind = "other" /\ Spent(f.got) /\ ~ f.released -> "purge"
    [] kind = "other" /\ (~ Spent(f.got) \/ f.released) -> IF f.rows # {} THEN "reserve" ELSE NextChunk(f)

\* Where a sync goes once a window is in: Cursor collects all windows before it writes.
AfterFetch(f, kind) ==
  CASE kind = "cursor" -> IF NextChunk(f) = "finish" THEN "purge" ELSE NextChunk(f)
    [] kind = "other" /\ Spent(f.got) /\ ~ f.released -> "purge"
    [] kind = "other" /\ (~ Spent(f.got) \/ f.released) -> IF f.rows # {} THEN "reserve" ELSE NextChunk(f)

Fetched(p, rows, errors) ==
  \E g \in {[flow[p] EXCEPT !.got = @ \union rows, !.errors = @ \/ errors, !.todo = Tail(@),
                             !.rows = IF conn[flow[p].c].kind = "cursor" THEN flow[p].got \union rows ELSE rows]} :
    flow' = [flow EXCEPT ![p] = [g EXCEPT !.at = AfterFetch(g, conn[g.c].kind)]]

\* runSyncOrchestrator for the next window.
RunSyncOrchestrator(p) ==
  LET f == flow[p]
      w == Head(f.todo)
      spend == Reported(f.c, w, "spend")
      extra == Reported(f.c, w, "activity")
      kind == conn[f.c].kind
      smooth == FetchAllRecords(kind, spend, extra, {}, SmoothAnswer)
  IN /\ f.at = "fetch"
     /\ UNCHANGED <<today, provider, conn, ledger, stored, leaving, activity, dropped>>
     /\ \E res \in {smooth} \union (IF events < MaxEvents THEN Outcomes(kind, spend, extra) ELSE {}) :
          /\ events' = IF res = smooth THEN events ELSE events + 1
          /\ IF res.code # "none"
               THEN flow' = [flow EXCEPT ![p].at = "fail", ![p].code = res.code]
               ELSE Fetched(p, res.rows, res.errors)

AdoFails(p) ==
  /\ flow[p].at = "ado" /\ events < MaxEvents
  /\ flow' = [flow EXCEPT ![p].at = "fail", ![p].code = "ADO_SYNC_FAILED"]
  /\ events' = events + 1
  /\ UNCHANGED <<today, provider, conn, ledger, stored, leaving, activity, dropped>>

\* purgeProviderApiImports and purgeZeroCostApiImports, over the range of the whole sync.
Purged(f) ==
  {row \in stored : /\ In(row[1].day, Window(f.from, f.to))
                    /\ IF conn[f.c].kind = "cursor" THEN conn[row[1].c].kind = "cursor"
                       ELSE row[2] = "free"}

\* The keys of other connectors' rows are not released.
TakenFromOthers(f, rows) == KeysOf({row \in rows : row[1].c # f.c})

Purge(p) ==
  LET f == flow[p]
  IN /\ f.at = "purge"
     /\ stored' = stored \ Purged(f) /\ leaving' = leaving \union Purged(f)
     /\ dropped' = dropped \union (ledger \intersect TakenFromOthers(f, Purged(f)))
     /\ flow' = [flow EXCEPT ![p].at = "release"]
     /\ UNCHANGED <<today, provider, conn, ledger, activity, events>>

\* Mutant: the keys of the rows just purged are not released.
ReleaseNothing(p) ==
  LET f == flow[p]
      g == [f EXCEPT !.released = TRUE]
  IN /\ f.at = "release"
     /\ flow' = [flow EXCEPT ![p] = [g EXCEPT !.at = IF f.rows # {} THEN "reserve" ELSE NextChunk(f)]]
     /\ UNCHANGED <<today, provider, conn, ledger, dropped, stored, leaving, activity, events>>

Release(p) ==
  LET f == flow[p]
      g == [f EXCEPT !.released = TRUE]
  IN /\ f.at = "release"
     /\ ledger' = ReleasedKeys(f.c)
     /\ dropped' = dropped \intersect ledger'
     /\ flow' = [flow EXCEPT ![p] = [g EXCEPT !.at = IF f.rows # {} THEN "reserve" ELSE NextChunk(f)]]
     /\ UNCHANGED <<today, provider, conn, stored, leaving, activity, events>>

\* importEvents: the transaction that reserves the keys...
Reserve(p) ==
  LET f == flow[p]
  IN /\ f.at = "reserve"
     /\ ledger' = ledger \union KeysOf(f.rows)
     /\ flow' = [flow EXCEPT ![p].at = "insert", ![p].fresh = Won(f.rows)]
     /\ UNCHANGED <<today, provider, conn, stored, leaving, activity, dropped, events>>

\* ... and the inserts, table after table.
Insert(p) ==
  LET f == flow[p]
  IN /\ f.at = "insert"
     /\ stored' = Upserted(f.fresh) /\ leaving' = leaving \union Replaced(f.fresh)
     /\ activity' = AddedActivity(f.fresh)
     /\ flow' = [flow EXCEPT ![p].at = NextChunk(f), ![p].fresh = {}, ![p].rows = {},
                              ![p].imported = @ \/ f.fresh # {}]
     /\ UNCHANGED <<today, provider, conn, ledger, dropped, events>>

InsertFails(p) ==
  LET f == flow[p]
  IN /\ f.at = "insert" /\ f.fresh # {} /\ events < MaxEvents
     /\ \E done \in {{}, SpendRows(f.fresh)} :
          /\ stored' = Upserted(done) /\ leaving' = leaving \union Replaced(done)
          /\ dropped' = dropped \union KeysOf(f.fresh \ done)
     /\ flow' = [flow EXCEPT ![p].at = "fail", ![p].fresh = {}, ![p].code = "SYNC_FAILED"]
     /\ events' = events + 1
     /\ UNCHANGED <<today, provider, conn, ledger, activity>>

\* A statement of the sync fails: a purge may have taken effect all the same, a transaction has not.
StatementFails(p) ==
  LET f == flow[p]
  IN /\ f.at \in {"purge", "release", "reserve"} /\ events < MaxEvents
     /\ \E gone \in {{}, IF f.at = "purge" THEN Purged(f) ELSE {}} :
          /\ stored' = stored \ gone /\ leaving' = leaving \union gone
          /\ dropped' = dropped \union (ledger \intersect KeysOf(gone)) \union
                          (IF f.at = "release" THEN {k \in ledger : k[1].c = f.c /\ ~ IsStored(k)} ELSE {})
     /\ flow' = [flow EXCEPT ![p].at = "fail", ![p].code = "SYNC_FAILED"]
     /\ events' = events + 1
     /\ UNCHANGED <<today, provider, conn, ledger, activity>>

\* The status a successful sync leaves.
HealthOf(f) ==
  CASE f.imported -> "healthy"
    [] ~ f.imported /\ f.got # {} -> "connected"
    [] ~ f.imported /\ f.got = {} -> IF f.was = "healthy" THEN "healthy" ELSE "connected"

\* resolveFirstSyncBaseline
FirstBaseline(f) == IF f.through # 0 THEN f.through + 1 ELSE f.to + 1

\* The config is written back as it was read, with a baseline if it had none.
Finish(p) ==
  LET f == flow[p]
      base == IF f.base = 0 /\ (f.imported \/ Spent(f.got)) THEN FirstBaseline(f) ELSE f.base
  IN /\ f.at = "finish"
     /\ conn' = [conn EXCEPT ![f.c].status = HealthOf(f), ![f.c].age = 0, ![f.c].base = base, ![f.c].through = f.through]
     /\ flow' = [flow EXCEPT ![p] = Idle]
     /\ UNCHANGED <<today, provider, ledger, stored, leaving, activity, dropped, events>>

\* syncAzureDevOpsOutcomes
FinishAdo(p) ==
  /\ flow[p].at = "ado"
  /\ conn' = [conn EXCEPT ![flow[p].c].status = "connected", ![flow[p].c].age = 0]
  /\ flow' = [flow EXCEPT ![p] = Idle]
  /\ UNCHANGED <<today, provider, ledger, stored, leaving, activity, dropped, events>>

FailedStatus(kind, code) ==
  IF kind = "ado" THEN "error"
  ELSE CASE code = "AUTH_FAILED" -> "auth_failed" [] code = "RATE_LIMITED" -> "connected" [] OTHER -> "degraded"

Fail(p) ==
  LET f == flow[p]
  IN /\ f.at = "fail"
     /\ conn' = [conn EXCEPT ![f.c].status = FailedStatus(conn[f.c].kind, f.code), ![f.c].age = 0]
     /\ flow' = [flow EXCEPT ![p] = Idle]
     /\ UNCHANGED <<today, provider, ledger, stored, leaving, activity, dropped, events>>

\* The process restarts: its syncs are gone, what they wrote stays.
Crash ==
  /\ events < MaxEvents /\ \E p \in Procs : flow[p].at # "idle"
  /\ flow' = [p \in Procs |-> Idle]
  /\ dropped' = dropped \union {k \in ledger : ~ IsStored(k)}
  /\ events' = events + 1
  /\ UNCHANGED <<today, provider, conn, ledger, stored, leaving, activity>>

Work(p) ==
  Mark(p) \/ RunSyncOrchestrator(p) \/ Purge(p) \/ Release(p) \/ Reserve(p) \/ Insert(p) \/ Finish(p) \/ FinishAdo(p) \/ Fail(p)

Next ==
  \/ NextDay \/ Crash \/ Expunge
  \/ \E r \in Records : Report(r)
  \/ \E c \in Connectors :
       Older(c) \/ UpdateConnectorHandoff(c) \/ UpdateConnector(c) \/ BeginManual(c) \/ BeginScheduled(c)
  \/ \E p \in Procs : Work(p) \/ AdoFails(p) \/ StatementFails(p) \/ InsertFails(p)

Spec == Init /\ [][Next]_vars

\* A started request goes on, the interval timer keeps firing, and time passes.
FairSpec ==
  /\ Spec
  /\ \A p \in Procs : WF_vars(Work(p))
  /\ \A c \in Connectors : WF_vars(BeginScheduled(c)) /\ WF_vars(Older(c))
-----------------------------------------------------------------------------
(***************************************************************************)
(* Properties.                                                             *)
(***************************************************************************)

\* The ledger never claims a row that is nowhere, however syncs overlap: a reserved key has
\* its row, or a sync of its connector still inserts it or is about to release it, or a fault
\* or the purge of another connector cost it the row.
LedgerBacked ==
  \A k \in ledger :
    \/ IsStored(k) \/ k \in dropped
    \/ \E p \in Procs : k \in KeysOf(flow[p].fresh) \/ (flow[p].at = "release" /\ flow[p].c = k[1].c)

\* Spend already stored is only ordered out by a sync that has fetched all its windows without
\* an error, those of the companion for activity among them: "do not erase prior spend until
\* every range and companion request has fetched and validated" (connectors.service.ts).
ErasedOnlyWhenComplete ==
  [][\A row \in stored : row[2] = "billed" /\ row \notin stored' =>
       \/ \E p \in Procs : flow[p].at = "purge" /\ flow[p].todo = <<>> /\ ~ flow[p].errors
       \/ KeyOf(row) \in KeysOf(stored')]_vars

\* A connector whose sync was cut off by a restart does not stay "syncing": once the
\* process works again the scheduler takes over, unless the baseline lies ahead or the
\* connector was disabled.
StuckSyncRecovered ==
  \A c \in Connectors :
    (conn[c].status = "syncing" /\ conn[c].base <= today)
      ~> (conn[c].status # "syncing" \/ conn[c].base > today \/ ~ conn[c].enabled)

\* Billed usage inside the scheduler's window and on or after the connector's baseline is
\* stored in the end, failed inserts and restarts notwithstanding.
BilledUsageStored ==
  \A r \in {x \in Records : x.what = "spend"} :
    (provider[r] = "billed" /\ conn[r.c].kind # "ado"
       /\ today = MaxDay /\ r.day > MaxDay - IncrementalDays)
      ~> (<<r, "billed">> \in stored \/ conn[r.c].base > r.day \/ ~ conn[r.c].enabled)

\* What a portal import hands over stays with the connector (sync-handoff.ts: "Day after
\* portal coverage ends - API sync should start here").
HandoffKept ==
  [][\A c \in Connectors : conn[c].through # 0 => conn'[c].through >= conn[c].through]_vars

\* Activity is counted once however often its window is synced (import.service.ts: "the
\* idempotency ledger guarantees a re-import never double-counts").
ActivityCountedOnce == \A r \in Records : activity[r] <= 1
=============================================================================
