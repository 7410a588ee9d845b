---------------------------- MODULE CopilotSync -----------------------------
(***************************************************************************)
(* GitHubCopilotSyncService: one sync of a connection is a sequence of     *)
(* requests to GitHub and of transactions on six tables, and nothing keeps *)
(* the sync of the scheduler apart from one a user started. Each step here *)
(* stores what was asked for before and asks for what comes next: between  *)
(* two steps the other sync, GitHub and a crash come in.                   *)
(*                                                                         *)
(* A world is what GitHub answers: [seats, links, reports, lines, users],  *)
(* reports a sequence of sets of usage rows in the order they are asked    *)
(* for, lines the bill of the organisation and users that of each login.   *)
(***************************************************************************)
EXTENDS Copilot, Sequences

CONSTANTS
  Worlds,        \* what GitHub answers, one after another
  MaxFaults,     \* bound: requests and transactions that fail, crashes, rollbacks, updates of the connector
  MaxManual      \* bound: syncs begun for a user after which none is asked for

ASSUME CopilotSyncAssumption == MaxFaults \in Nat /\ MaxManual \in Nat /\ Len(Worlds) > 0

VARIABLES
  world,     \* the index of GitHub's present answers
  conn,      \* the connection's row: "none", "opening" (not committed), "created"
  scheduled, \* "on"; "off", the connector is disabled; "never", its schedule is
  status,    \* connectors.status
  lately,    \* "start": last_sync_started_at is within 15 minutes, while the status is "syncing";
             \* "success": last_success_at is within the schedule's interval
  tables,    \* [seats, links, usage, lines, roi, spend]
  sync,      \* for each sync, where it is and what it holds
  quiet,     \* the syncs that nothing has interfered with so far (for the properties only)
  faults, manual   \* how much of the bounds is used

vars == <<world, conn, scheduled, status, lately, tables, sync, quiet, faults, manual>>

Syncs == {"scheduler", "manual"}     \* runScheduledSync, and syncNow or the one createConnection starts

Idle == [at |-> "idle", got |-> {}]
Running(s) == sync[s].at \notin {"idle", "start"}

Github == Worlds[world]

\* upsert: the new rows replace the stored ones of the same key; rows are never deleted.
Upsert(rows, new, Key(_)) == {r \in rows : \A n \in new : Key(r) # Key(n)} \union new

SeatKey(s) == s.id
LinkKey(l) == <<l.login, l.team>>
UsageKey(u) == <<u.day, u.login, u.team, u.model>>
LineKey(l) == <<l.day, l.login, l.sku>>
RoiKey(r) == <<r.day, r.team>>
SpendKey(r) == <<r.day, r.login, r.team>>

Tables == [seats |-> {}, links |-> {}, usage |-> {}, lines |-> {}, roi |-> {}, spend |-> {}]

Init ==
  /\ world = 1 /\ conn = "none" /\ scheduled = "on" /\ status = "none" /\ lately = {}
  /\ tables = Tables /\ sync = [s \in Syncs |-> Idle] /\ quiet = {} /\ faults = 0 /\ manual = 0

Fault == faults < MaxFaults /\ faults' = faults + 1
-----------------------------------------------------------------------------
(***************************************************************************)
(* The connection. Its first sync is started before its row is committed.  *)
(***************************************************************************)
CreateConnection ==
  /\ conn = "none" /\ conn' = "opening" /\ scheduled' \in {"on", "never"}
  /\ sync' = [sync EXCEPT !["manual"] = [at |-> "start", got |-> {}]]
  /\ UNCHANGED <<world, status, lately, tables, quiet, faults, manual>>

Commit ==
  /\ conn = "opening" /\ conn' = "created" /\ status' = "connected"
  /\ UNCHANGED <<world, scheduled, lately, tables, sync, quiet, faults, manual>>

Rollback ==
  /\ conn = "opening" /\ Fault /\ conn' = "none"
  /\ UNCHANGED <<world, scheduled, status, lately, tables, sync, quiet, manual>>

\* A sync that does not see the connection ends without a trace.
NotFound ==
  /\ sync["manual"].at = "start" /\ conn # "created" /\ sync' = [sync EXCEPT !["manual"] = Idle]
  /\ UNCHANGED <<world, conn, scheduled, status, lately, tables, quiet, faults, manual>>
-----------------------------------------------------------------------------
(***************************************************************************)
(* The steps of a sync s.                                                  *)
(***************************************************************************)
\* fetchAllSeats: an assignment without a user is not stored.
FetchSeats == {n \in Github.seats : n.id # 0 /\ n.login # ""}

\* The syncs that are quiet when s begins: s itself, if no other runs.
QuietWith(s) == IF \E o \in Syncs \ {s} : Running(o) THEN {} ELSE {s}

Begin(s) ==
  /\ conn = "created" /\ status' = "syncing" /\ lately' = lately \union {"start"}
  /\ sync' = [sync EXCEPT ![s] = [at |-> "seats", got |-> FetchSeats]]
  /\ quiet' = QuietWith(s)
  /\ UNCHANGED <<world, conn, scheduled, tables, faults>>

Manual == sync["manual"].at = "start" /\ Begin("manual") /\ manual' = manual + 1

SyncNow ==
  /\ sync["manual"].at = "idle" /\ conn = "created" /\ manual < MaxManual
  /\ sync' = [sync EXCEPT !["manual"].at = "start"]
  /\ UNCHANGED <<world, conn, scheduled, status, lately, tables, quiet, faults, manual>>

\* Mutant: a sync that never ended keeps the connection from being listed.
ListedIdle == scheduled = "on" /\ status # "syncing" /\ "success" \notin lately

\* copilot_scheduled_connections: an enabled one, not while a sync is under way that began within
\* 15 minutes, nor before the interval is over.
Listed == scheduled = "on" /\ ~ (status = "syncing" /\ "start" \in lately) /\ "success" \notin lately

Tick == sync["scheduler"].at = "idle" /\ Listed /\ Begin("scheduler") /\ UNCHANGED manual

\* s stores what it got and asks for the next: got is exact, or less of it after a fault.
Goes(s, next, exact, less) ==
  \/ /\ sync' = [sync EXCEPT ![s] = [at |-> next, got |-> exact]] /\ UNCHANGED <<quiet, faults>>
  \/ /\ Fault /\ quiet' = quiet \ {s}
     /\ \E g \in less \ {exact} : sync' = [sync EXCEPT ![s] = [at |-> next, got |-> g]]

\* fetchTeams and fetchTeamMembers: the members of the teams T that could be fetched; others are skipped.
FetchTeams(T) == {l \in Github.links : l.team \in T}
AllTeams == {l.team : l \in Github.links}

StoreSeats(s) ==
  /\ sync[s].at = "seats"
  /\ tables' = [tables EXCEPT !.seats = Upsert(@, sync[s].got, SeatKey)]
  /\ Goes(s, "teams", FetchTeams(AllTeams), {FetchTeams(T) : T \in SUBSET AllTeams})
  /\ UNCHANGED <<world, conn, scheduled, status, lately, manual>>

\* fetchMetricsReport: the rows of the reports that arrived, the later ones over the earlier.
Merged(reports, arrived) ==
  LET merge[i \in 0 .. Len(reports)] ==
        IF i = 0 THEN {} ELSE IF i \in arrived THEN Upsert(merge[i - 1], reports[i], UsageKey) ELSE merge[i - 1]
  IN merge[Len(reports)]

StoreTeams(s) ==
  LET reports == Github.reports
  IN /\ sync[s].at = "teams"
     /\ tables' = [tables EXCEPT !.links = Upsert(@, sync[s].got, LinkKey)]
     /\ Goes(s, "usage", Merged(reports, DOMAIN reports), {Merged(reports, R) : R \in SUBSET DOMAIN reports})
     /\ UNCHANGED <<world, conn, scheduled, status, lately, manual>>

\* fetchAiCreditUsageForLookback, month by month: the organisation's bill, else that of each active login.
\* lost holds the requests without an answer, <<month, login>> or <<month, "">> for the organisation's.
Months == {Month(l.day) : l \in Github.lines \union Github.users}
ActiveLogins == {r.login : r \in {t \in tables.seats : IsActive(t)}}

FetchAiCreditUsage(month, lost) ==
  LET whole == {l \in Github.lines : Month(l.day) = month /\ <<month, "">> \notin lost}
      own == {l \in Github.users : Month(l.day) = month /\ l.login \in ActiveLogins /\ <<month, l.login>> \notin lost}
  IN IF whole # {} THEN whole ELSE own

FetchAiCreditUsageForLookback(lost) == UNION {FetchAiCreditUsage(month, lost) : month \in Months}

StoreUsage(s) ==
  /\ sync[s].at = "usage"
  /\ tables' = [tables EXCEPT !.usage = Upsert(@, sync[s].got, UsageKey)]
  /\ Goes(s, "billing", FetchAiCreditUsageForLookback({}),
          \* a refusal ends the lookback, any other failure costs that answer
          {{}} \union {FetchAiCreditUsageForLookback({q}) : q \in Months \X ({""} \union ActiveLogins)})
  /\ UNCHANGED <<world, conn, scheduled, status, lately, manual>>

\* computeRoiDaily reads, and writes in a later transaction.
StoreBilling(s) ==
  /\ sync[s].at = "billing"
  /\ UNCHANGED <<world, conn, scheduled, status, lately, quiet, faults, manual>>
  /\ tables' = [tables EXCEPT !.lines = Upsert(@, sync[s].got, LineKey)]
  /\ sync' = [sync EXCEPT ![s] = [at |-> "roi", got |-> RoiOf(tables.seats, tables.usage)]]

\* Mutant: the return and the spend are computed at once.
WriteRoiAtOnce(s) ==
  /\ sync[s].at = "roi"
  /\ tables' = [tables EXCEPT !.roi = Upsert(@, sync[s].got, RoiKey)]
  /\ \E primary \in TeamChoices(tables) :
       sync' = [sync EXCEPT ![s] = [at |-> "spend", got |-> MemberSpendOf(tables, primary)]]
  /\ UNCHANGED <<world, conn, scheduled, status, lately, quiet, faults, manual>>

WriteRoi(s) ==
  /\ sync[s].at = "roi"
  /\ tables' = [tables EXCEPT !.roi = Upsert(@, sync[s].got, RoiKey)]
  /\ sync' = [sync EXCEPT ![s] = [at |-> "read", got |-> {}]]
  /\ UNCHANGED <<world, conn, scheduled, status, lately, quiet, faults, manual>>

\* computeMemberSpendDaily reads the five tables, and writes in a later transaction.
ReadForSpend(s) ==
  /\ sync[s].at = "read"
  /\ UNCHANGED <<world, conn, scheduled, status, lately, tables, quiet, faults, manual>>
  /\ \E primary \in TeamChoices(tables) :
       sync' = [sync EXCEPT ![s] = [at |-> "spend", got |-> MemberSpendOf(tables, primary)]]

Finish(s, outcome) ==
  /\ sync' = [sync EXCEPT ![s] = Idle] /\ quiet' = quiet \ {s} /\ status' = outcome
  /\ lately' = (lately \ {"start"}) \union (IF outcome = "connected" THEN {"success"} ELSE {})

WriteSpend(s) ==
  /\ sync[s].at = "spend"
  /\ tables' = [tables EXCEPT !.spend = Upsert(@, sync[s].got, SpendKey)]
  /\ Finish(s, "connected") /\ UNCHANGED <<world, conn, scheduled, faults, manual>>

\* Seats that cannot be fetched, or a transaction that is rolled back, end the sync.
Fail(s) ==
  /\ Running(s) /\ Fault /\ Finish(s, "error") /\ UNCHANGED <<world, conn, scheduled, tables, manual>>

Step(s) ==
  \/ StoreSeats(s) \/ StoreTeams(s) \/ StoreUsage(s) \/ StoreBilling(s)
  \/ WriteRoi(s) \/ ReadForSpend(s) \/ WriteSpend(s)
-----------------------------------------------------------------------------
(***************************************************************************)
(* Around the syncs.                                                       *)
(***************************************************************************)
GithubChanges ==
  /\ world < Len(Worlds) /\ world' = world + 1 /\ quiet' = {}
  /\ UNCHANGED <<conn, scheduled, status, lately, tables, sync, faults, manual>>

TimePasses(what) ==
  /\ what \in lately /\ lately' = lately \ {what}
  /\ UNCHANGED <<world, conn, scheduled, status, tables, sync, quiet, faults, manual>>

\* ConnectorsService.update disables and enables the connector; a new secret makes it count as connected.
UpdateConnector ==
  /\ conn = "created"
  /\ \/ Fault /\ scheduled' \in (IF scheduled = "on" THEN {"on", "off"} ELSE {scheduled})
     \/ scheduled = "off" /\ scheduled' = "on" /\ UNCHANGED faults
  /\ \E secret \in BOOLEAN :
       /\ status' = (IF secret THEN "connected" ELSE status)
       /\ lately' = (IF secret THEN lately \ {"start"} ELSE lately)
  /\ UNCHANGED <<world, conn, tables, sync, quiet, manual>>

\* The process ends: a connection not committed is gone, the status of one stays as it is.
Crash ==
  /\ Fault /\ sync # [s \in Syncs |-> Idle]
  /\ sync' = [s \in Syncs |-> Idle] /\ quiet' = {}
  /\ conn' = (IF conn = "opening" THEN "none" ELSE conn)
  /\ UNCHANGED <<world, scheduled, status, lately, tables, manual>>

Next ==
  \/ CreateConnection \/ Commit \/ Rollback \/ NotFound
  \/ Manual \/ SyncNow \/ Tick
  \/ \E s \in Syncs : Step(s) \/ Fail(s)
  \/ GithubChanges \/ Crash \/ UpdateConnector \/ \E what \in {"start", "success"} : TimePasses(what)

Spec == Init /\ [][Next]_vars

\* The scheduler ticks, requests are answered, time passes, a user goes on asking for the connection.
FairSpec ==
  /\ Spec /\ WF_vars(CreateConnection) /\ WF_vars(Commit) /\ WF_vars(NotFound) /\ WF_vars(Manual)
  /\ WF_vars(Tick) /\ \A s \in Syncs : WF_vars(Step(s))
  /\ WF_vars(TimePasses("start")) /\ WF_vars(TimePasses("success"))
=============================================================================
