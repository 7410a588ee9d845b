---------------------------- MODULE PortalImport ----------------------------
(***************************************************************************)
(* Billing CSV files of a tenant (api/src/portal-import): files are parsed *)
(* and checked, an upload replaces the spend of the days it covers, tags   *)
(* seats in the directory, hands over to a connector and records a run; a  *)
(* run can be listed and deleted again.  Every await is a step, so two     *)
(* uploads, a deletion and a failing request interleave.                   *)
(***************************************************************************)
EXTENDS Integers, FiniteSets

CONSTANTS
  Batches,      \* sets of CSV files [headers, named, reportTo, picked, lines] uploaded together
  Emails,       \* people that occur in files and in the directory
  Preferred,    \* emails in the preferred domain
  LegacyRows,   \* spend imported before runs were recorded
  LastDay,      \* last day of the calendar; days are counted from 1, and 0 is no day
  MaxUploads,   \* bound on uploads
  MaxEvents     \* bound on seat edits, failing requests and deletions of legacy spend

ASSUME CalendarAssumption ==
  /\ LastDay \in Nat
  /\ \A files \in Batches : \A f \in files :
       f.reportTo \in 0..LastDay /\ \A l \in f.lines : l.day \in 0..LastDay

Nobody == "Unassigned"
OrgUsage == "org"                       \* "(org service usage)"
Providers == {"anthropic", "cursor"}
None == "none"

Runs == 1..MaxUploads
Legacy == 0                             \* the run of rows that carry no import_run_id
-----------------------------------------------------------------------------
(***************************************************************************)
(* Reading a file.  A header stands for the column role it is known by.    *)
(***************************************************************************)

\* detectPortalCsvFormat
DetectPortalCsvFormat(f) ==
  IF {"user_email", "net_spend"} \subseteq f.headers THEN "anthropic_spend_report"
  ELSE IF f.named /\ f.headers \intersect {"user_email", "net_spend"} = {} THEN "non_billing_export"
  ELSE IF "table_name" \in f.headers THEN "non_billing_export"
  ELSE IF {"usage_date", "cost"} \subseteq f.headers THEN "anthropic_console"
  ELSE "unknown"

Billable(f) == DetectPortalCsvFormat(f) # "non_billing_export"

\* resolvePortalProvider: what the user picked, or what the format implies.
ResolvePortalProvider(f) ==
  IF f.picked # None THEN f.picked
  ELSE IF DetectPortalCsvFormat(f) \in {"anthropic_spend_report", "anthropic_console"} THEN "anthropic" ELSE None

\* suggestColumnMapping, mappingFromSuggestion, resolveColumnMapping: a cost column and a day are needed.
HasMapping(f) ==
  /\ f.headers \intersect {"net_spend", "cost"} # {}
  /\ "usage_date" \in f.headers \/ f.reportTo # 0

\* parseGrid: the day of a line, its own or the day the report ends.
DayOf(f, line) ==
  IF "usage_date" \in f.headers /\ DetectPortalCsvFormat(f) # "anthropic_spend_report" THEN line.day ELSE f.reportTo

\* A line counts when it has a day, a cost (zero included) and is not organisation usage.
Usable(f, line) == DayOf(f, line) # 0 /\ line.cost >= 0 /\ line.user # OrgUsage

\* portalRowIdempotencyKey: two lines that agree on these are one row.
RowOf(f, line) ==
  [provider |-> ResolvePortalProvider(f), day |-> DayOf(f, line), user |-> line.user, model |-> line.model,
   cost |-> line.cost]

ParseGrid(f) == {RowOf(f, line) : line \in {l \in f.lines : Usable(f, l)}}

\* detectProviderModelConflicts: a model only Cursor sells in a file of another provider.
DetectProviderModelConflicts(f) ==
  ResolvePortalProvider(f) # "cursor" /\ \E l \in f.lines : Usable(f, l) /\ l.model = "composer"

\* parseAnthropicPortalCsv
ParsedRows(f) ==
  IF Billable(f) /\ HasMapping(f) /\ ResolvePortalProvider(f) # None THEN ParseGrid(f) ELSE {}

\* The files of an upload that are imported; the others are reported back with their reason.
Accepted(f) ==
  /\ ~ (Billable(f) /\ ResolvePortalProvider(f) = None)
  /\ ~ DetectProviderModelConflicts(f)
  /\ ParsedRows(f) # {}

AllRows(files) == UNION {ParsedRows(f) : f \in {g \in files : Accepted(g)}}

ProvidersUsed(rows) == {r.provider : r \in rows}

Days(rows) == {r.day : r \in rows}

Earliest(rows) == CHOOSE d \in Days(rows) : \A e \in Days(rows) : d <= e
Latest(rows) == CHOOSE d \in Days(rows) : \A e \in Days(rows) : d >= e

OfProvider(rows, p) == {r \in rows : r.provider = p}

\* Mutant: the range of a provider is that of one of its files only.
InPurgeWindowOfOneDay(rows, p, day) == p \in ProvidersUsed(rows) /\ day = Earliest(OfProvider(rows, p))

\* purgeByProvider: the days a provider's files cover together.
InPurgeWindow(rows, p, day) ==
  p \in ProvidersUsed(rows) /\ Earliest(OfProvider(rows, p)) <= day /\ day <= Latest(OfProvider(rows, p))
-----------------------------------------------------------------------------
VARIABLES
  calls,      \* llm_calls, source portal_import: rows with the run that wrote them
  doomed,     \* of calls, the rows ClickHouse has been told to delete or to replace, and has not yet
  ledger,     \* import_idempotency
  runs,       \* portal_import_runs: "none", "active", "deleted"
  audits,     \* import audits: the run they name, Legacy for one that names none
  purged,     \* legacy audits with a delete audit
  directory,  \* identities: [email, active, source, aliases]
  tiers,      \* identity_seat_tiers
  handoff,    \* portalImportThrough of the connector
  up,         \* uploads, by run
  del,        \* the deletion in progress
  uploads, events,
  failed,     \* history: uploads that broke off
  overlapped  \* history: two uploads were in progress at once

vars == <<calls, doomed, ledger, runs, audits, purged, directory, tiers, handoff, up, del, uploads, events, failed, overlapped>>

Steps == {"none", "purge", "release", "reserve", "insert", "match", "seats", "handoff", "run", "audit", "done"}

NoUpload == [at |-> "none", rows |-> {}, won |-> {}, conn |-> None, seen |-> {}, made |-> {}]
NoDelete == [at |-> "none", run |-> Legacy, keys |-> {}]

Vendors == {"anthropic"}   \* of Providers, the vendors whose members hold seats
Seats == Emails \X Vendors

Init ==
  /\ calls = {[row |-> r, run |-> Legacy] : r \in LegacyRows} /\ doomed = {}
  /\ ledger = LegacyRows
  /\ runs = [r \in Runs |-> "none"]
  /\ audits = {Legacy} /\ purged = FALSE
  /\ LET e == CHOOSE x \in Emails : TRUE
     IN directory \in {{}, {[email |-> e, active |-> TRUE, source |-> "scim", aliases |-> Emails]}}
  /\ tiers = [s \in Seats |-> None]
  /\ handoff = 0
  /\ up = [r \in Runs |-> NoUpload] /\ del = NoDelete
  /\ uploads = 0 /\ events = 0 /\ failed = {} /\ overlapped = FALSE

InProgress == {r \in Runs : up[r].at \notin {"none", "done"}}

TypeOK ==
  /\ calls \subseteq [row : ledger \union (UNION {ParsedRows(f) : f \in UNION Batches}) \union LegacyRows, run : Runs \union {Legacy}]
  /\ doomed \subseteq calls
  /\ runs \in [Runs -> {"none", "active", "deleted"}]
  /\ \A r \in Runs : up[r].at \in Steps
  /\ tiers \in [Seats -> {None, "basic", "premium"}]

Goto(r, step) == up' = [up EXCEPT ![r].at = step]

\* command: with the ClickHouse store ALTER TABLE ... DELETE only queues a mutation of the rows that
\* are there, and returns; with the Postgres store the rows are gone then, and Mutate follows at once.
Doom(rows) == doomed' = doomed \union rows

\* ClickHouse, in its own time: a mutation, or the merge that keeps the last of the rows of one
\* key, rewrites a part of the table.  The rows of an insert are a part, the older ones another.
Mutate(run) ==
  LET gone == {c \in doomed : c.run = run}
  IN /\ gone # {}
     /\ calls' = calls \ gone /\ doomed' = doomed \ gone
     /\ UNCHANGED <<ledger, runs, audits, purged, directory, tiers, handoff, up, del, uploads, events, failed, overlapped>>

Standing == calls \ doomed
-----------------------------------------------------------------------------
(***************************************************************************)
(* uploadAnthropicBatch.                                                   *)
(***************************************************************************)
Upload(files, conn) ==
  LET r == uploads + 1
  IN /\ uploads < MaxUploads
     /\ AllRows(files) # {}     \* else nothing is importable and the request is refused
     /\ uploads' = r
     /\ up' = [up EXCEPT ![r] = [NoUpload EXCEPT !.at = "purge", !.rows = AllRows(files), 
                                             !.conn = IF "anthropic" \in ProvidersUsed(AllRows(files)) THEN conn ELSE None]]
     /\ overlapped' = (overlapped \/ InProgress # {})
     /\ UNCHANGED <<calls, doomed, ledger, runs, audits, purged, directory, tiers, handoff, del, events, failed>>

\* purgePortalImportWindow for each provider.
Purge(r) ==
  /\ up[r].at = "purge"
  /\ Doom({c \in calls : InPurgeWindow(up[r].rows, c.row.provider, c.row.day)})
  /\ Goto(r, "release")
  /\ UNCHANGED <<calls, ledger, runs, audits, purged, directory, tiers, handoff, del, uploads, events, failed, overlapped>>

\* releaseImportKeys: the keys of the rows about to be written.
ReleaseKeys(r) ==
  /\ up[r].at = "release"
  /\ ledger' = ledger \ up[r].rows
  /\ Goto(r, "reserve")
  /\ UNCHANGED <<calls, doomed, runs, audits, purged, directory, tiers, handoff, del, uploads, events, failed, overlapped>>

\* importEvents
Reserve(r) ==
  /\ up[r].at = "reserve"
  /\ ledger' = ledger \union up[r].rows
  /\ up' = [up EXCEPT ![r].at = "insert", ![r].won = @ \union (up[r].rows \ ledger)]
  /\ UNCHANGED <<calls, doomed, runs, audits, purged, directory, tiers, handoff, del, uploads, events, failed, overlapped>>

\* A row replaces the one of its key, at the next merge of the table.
Insert(r) ==
  /\ up[r].at = "insert"
  /\ calls' = calls \union {[row |-> x, run |-> r] : x \in up[r].won}
  /\ Doom({c \in calls : c.row \in up[r].won})
  /\ Goto(r, "match")
  /\ UNCHANGED <<ledger, runs, audits, purged, directory, tiers, handoff, del, uploads, events, failed, overlapped>>

\* collectIdentityCandidates
Candidates(rows) == {x.user : x \in rows} \intersect Emails

\* seatVendorsFromImportRows
SeatVendors(rows, email) == {x.provider : x \in {y \in rows : y.user = email}} \intersect Vendors

\* resolveCanonicalIdentity: active before inactive, a directory entry before a shell an import
\* made, the preferred domain before others.
EmailRank(e) == IF e \in Preferred THEN 0 ELSE 1

Matches(email) == {i \in directory : email = i.email \/ email \in i.aliases}

Prefer(i, j) ==
  \/ i.active /\ ~ j.active
  \/ i.active = j.active /\ i.source # "portal_import" /\ j.source = "portal_import"
  \/ /\ i.active = j.active /\ (i.source = "portal_import") = (j.source = "portal_import")
     /\ EmailRank(i.email) <= EmailRank(j.email)

ResolveCanonicalIdentity(email) ==
  CHOOSE i \in Matches(email) : \A j \in Matches(email) : Prefer(i, j)

SeatHolder(email) == IF Matches(email) = {} THEN email ELSE ResolveCanonicalIdentity(email).email

\* syncImportedUsersToIdentities reads the roster and the tiers...
MatchIdentities(r) ==
  LET rows == up[r].rows
      wanted == UNION {{<<SeatHolder(e), v>> : v \in SeatVendors(rows, e)} : e \in Candidates(rows)}
      known == {s \in wanted : s[1] \in {i.email : i \in directory} /\ tiers[s] = "premium"}
  IN /\ up[r].at = "match"
     /\ up' = [up EXCEPT ![r].at = "seats", ![r].seen = wanted \ known,
                         ![r].made = {e \in Candidates(rows) : Matches(e) = {}}]
     /\ UNCHANGED <<calls, doomed, ledger, runs, audits, purged, directory, tiers, handoff, del, uploads, events, failed, overlapped>>

NewIdentity(e) == [email |-> e, active |-> TRUE, source |-> "portal_import", aliases |-> {}]

BreakOff(r) ==
  /\ up' = [up EXCEPT ![r] = [NoUpload EXCEPT !.at = "done"]]
  /\ failed' = failed \union {r}

\* ... and writes both in the same transaction; the email of a new identity must still be free.
\* A candidate is its email, so the aliases merged into a match are the ones it was found by.
SyncSeats(r) ==
  LET f == up[r]
      taken == f.made \intersect {i.email : i \in directory} # {}
  IN /\ f.at = "seats"
     /\ \/ taken /\ BreakOff(r) /\ UNCHANGED <<directory, tiers>>
        \/ /\ ~ taken
           /\ directory' = directory \union {NewIdentity(e) : e \in f.made}
           /\ tiers' = [s \in Seats |-> IF s \in f.seen THEN "basic" ELSE tiers[s]]
           /\ Goto(r, "handoff") /\ UNCHANGED failed
     /\ UNCHANGED <<calls, doomed, ledger, runs, audits, purged, handoff, del, uploads, events, overlapped>>

\* updateConnectorHandoff; the connector may not exist.
Handoff(r) ==
  LET f == up[r]
      asked == f.conn # None
  IN /\ f.at = "handoff"
     /\ \/ asked /\ f.conn = "unknown" /\ BreakOff(r) /\ UNCHANGED handoff
        \/ /\ ~ (asked /\ f.conn = "unknown")
           /\ handoff' = IF asked THEN Latest(f.rows) ELSE handoff
           /\ Goto(r, "run") /\ UNCHANGED failed
     /\ UNCHANGED <<calls, doomed, ledger, runs, audits, purged, directory, tiers, del, uploads, events, overlapped>>

\* Mutant: the run is only recorded for a connector.
RecordRunOfConnector(r) ==
  /\ up[r].at = "run"
  /\ runs' = IF up[r].conn = None THEN runs ELSE [runs EXCEPT ![r] = "active"]
  /\ Goto(r, "audit")
  /\ UNCHANGED <<calls, doomed, ledger, audits, purged, directory, tiers, handoff, del, uploads, events, failed, overlapped>>

RecordRun(r) ==
  /\ up[r].at = "run"
  /\ runs' = [runs EXCEPT ![r] = "active"]
  /\ Goto(r, "audit")
  /\ UNCHANGED <<calls, doomed, ledger, audits, purged, directory, tiers, handoff, del, uploads, events, failed, overlapped>>

RecordAudit(r) ==
  /\ up[r].at = "audit"
  /\ audits' = audits \union {r}
  /\ up' = [up EXCEPT ![r] = [NoUpload EXCEPT !.at = "done"]]
  /\ UNCHANGED <<calls, doomed, ledger, runs, purged, directory, tiers, handoff, del, uploads, events, failed, overlapped>>

\* A request to either database fails, or the process stops.
UploadFails(r) ==
  /\ r \in InProgress /\ events < MaxEvents
  /\ BreakOff(r)
  /\ events' = events + 1
  /\ UNCHANGED <<calls, doomed, ledger, runs, audits, purged, directory, tiers, handoff, del, uploads, overlapped>>
-----------------------------------------------------------------------------
(***************************************************************************)
(* listImportRuns and deleteImportRun.                                     *)
(***************************************************************************)

\* Mutant: only active runs are known, as before the ghost entries were fixed.
ShouldSurfaceActiveOnly(a) == ~ (a \in Runs /\ runs[a] = "active") /\ ~ (a = Legacy /\ purged)

\* shouldSurfaceLegacyImportAudit
ShouldSurfaceLegacyImportAudit(a) == ~ (a \in Runs /\ runs[a] # "none") /\ ~ (a = Legacy /\ purged)

\* listImportRuns
Listed ==
  {[id |-> r, legacy |-> FALSE] : r \in {x \in Runs : runs[x] = "active"}}
    \union {[id |-> a, legacy |-> TRUE] : a \in {x \in audits : ShouldSurfaceLegacyImportAudit(x)}}

\* deletePortalImportRun: the rows and keys of the run are looked up...
BeginDelete(r) ==
  /\ del.at = "none" /\ runs[r] = "active"
  /\ del' = [at |-> "rows", run |-> r, keys |-> {c.row : c \in {x \in calls : x.run = r}}]
  /\ UNCHANGED <<calls, doomed, ledger, runs, audits, purged, directory, tiers, handoff, up, uploads, events, failed, overlapped>>

DeleteRows ==
  /\ del.at = "rows"
  /\ Doom({c \in calls : c.run = del.run})
  /\ del' = [del EXCEPT !.at = "keys"]
  /\ UNCHANGED <<calls, ledger, runs, audits, purged, directory, tiers, handoff, up, uploads, events, failed, overlapped>>

DeleteKeys ==
  /\ del.at = "keys"
  /\ ledger' = ledger \ del.keys
  /\ del' = [del EXCEPT !.at = "mark"]
  /\ UNCHANGED <<calls, doomed, runs, audits, purged, directory, tiers, handoff, up, uploads, events, failed, overlapped>>

MarkDeleted ==
  /\ del.at = "mark"
  /\ runs' = [runs EXCEPT ![del.run] = "deleted"]
  /\ del' = NoDelete
  /\ UNCHANGED <<calls, doomed, ledger, audits, purged, directory, tiers, handoff, up, uploads, events, failed, overlapped>>

\* The deletion breaks off; it can be asked for again.
DeleteFails ==
  /\ del.at # "none" /\ events < MaxEvents
  /\ del' = NoDelete
  /\ events' = events + 1
  /\ UNCHANGED <<calls, doomed, ledger, runs, audits, purged, directory, tiers, handoff, up, uploads, failed, overlapped>>

\* A legacy entry is deleted by its window; the keys stay.
DeleteLegacy ==
  /\ events < MaxEvents /\ [id |-> Legacy, legacy |-> TRUE] \in Listed /\ LegacyRows # {}
  /\ Doom({c \in calls : InPurgeWindow(LegacyRows, c.row.provider, c.row.day)})
  /\ purged' = TRUE
  /\ events' = events + 1
  /\ UNCHANGED <<calls, ledger, runs, audits, directory, tiers, handoff, up, del, uploads, failed, overlapped>>

\* patchSeatTiers: an administrator tags somebody's seat, or clears it ("none").
PatchSeatTier(s, tier) ==
  /\ events < MaxEvents /\ s[1] \in {i.email : i \in directory}
  /\ tiers' = [tiers EXCEPT ![s] = tier]
  /\ events' = events + 1
  /\ UNCHANGED <<calls, doomed, ledger, runs, audits, purged, directory, handoff, up, del, uploads, failed, overlapped>>

Next ==
  \/ \E run \in Runs \union {Legacy} : Mutate(run)
  \/ \E files \in Batches, conn \in {None, "known", "unknown"} : Upload(files, conn)
  \/ \E r \in Runs :
       \/ Purge(r) \/ ReleaseKeys(r) \/ Reserve(r) \/ Insert(r) \/ MatchIdentities(r) \/ SyncSeats(r)
       \/ Handoff(r) \/ RecordRun(r) \/ RecordAudit(r) \/ UploadFails(r) \/ BeginDelete(r)
  \/ DeleteRows \/ DeleteKeys \/ MarkDeleted \/ DeleteFails \/ DeleteLegacy
  \/ \E s \in Seats, tier \in {None, "basic", "premium"} : PatchSeatTier(s, tier)

Spec == Init /\ [][Next]_vars
-----------------------------------------------------------------------------
(***************************************************************************)
(* Properties.                                                             *)
(***************************************************************************)

\* An upload replaces: as long as uploads do not overlap, the spend of a provider and a day
\* comes from a single run, whatever failed on the way, but for the rows whose deletion
\* ClickHouse has accepted and not carried out.
OneRunPerDay ==
  ~ overlapped =>
    \A c, d \in Standing : c.row.provider = d.row.provider /\ c.row.day = d.row.day => c.run = d.run

\* Deleted runs are gone: what is left of their spend ClickHouse has been told to delete, and
\* they do not come back to the list as legacy entries.
DeletedRunsGone ==
  \A r \in Runs : runs[r] = "deleted" =>
    /\ \A c \in Standing : c.run # r
    /\ \A x \in Listed : x.id # r

\* Every row that stands can be traced: to an active run, an upload in progress or one that
\* broke off, or it was there before runs were recorded.
RowsTraceable ==
  \A c \in Standing : c.run = Legacy \/ runs[c.run] = "active" \/ c.run \in InProgress \union failed
=============================================================================
