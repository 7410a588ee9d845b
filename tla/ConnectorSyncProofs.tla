------------------------- MODULE ConnectorSyncProofs -------------------------
(***************************************************************************)
(* Proofs, for any number of connectors, records, windows, attempts and    *)
(* faults, that the import ledger never claims a row that got lost         *)
(* unnoticed, and that no sync takes out spend before it has fetched all   *)
(* that replaces it.                                                       *)
(***************************************************************************)
EXTENDS ConnectorSync, FiniteSetTheorems, TLAPS

Keys == Records \X (Prices \union {"any"})
KindOf == [c \in Connectors |-> conn[c].kind]

\* The fields that a connector's row and a sync have.
IsConn(r) == r = [x \in DOMAIN r |-> r[x]] /\ "kind" \in DOMAIN r

Fields == {"at", "c", "todo", "from", "to", "got", "rows", "fresh", "errors", "released", "imported", "base",
           "through", "was", "code"}
IsFlow(f) == f = [x \in DOMAIN f |-> f[x]] /\ Fields \subseteq DOMAIN f

\* What a sync holds at each of its steps.  A Cursor sync reaches its purge only with all
\* windows fetched and no error.
FlowOk(f, kinds) ==
  /\ IsFlow(f)
  /\ f.got \subseteq Rows /\ f.rows \subseteq Rows /\ f.fresh \subseteq Rows
  /\ f.at # "idle" => f.c \in Connectors
  /\ f.at # "insert" => f.fresh = {}
  /\ f.at = "purge" /\ kinds[f.c] = "cursor" => f.todo = <<>> /\ ~ f.errors

ConnTyped == conn = [c \in Connectors |-> conn[c]] /\ \A c \in Connectors : IsConn(conn[c])

Typed ==
  /\ provider \in [Records -> Prices \union {"none"}]
  /\ ConnTyped
  /\ ledger \subseteq Keys /\ stored \subseteq Rows
  /\ activity \in [Records -> 0..MaxCount]
  /\ flow = [p \in Procs |-> flow[p]]

\* What LedgerBacked says of one key.
Backed(k) ==
  \/ IsStored(k) \/ k \in dropped
  \/ \E p \in Procs : k \in KeysOf(flow[p].fresh) \/ (flow[p].at = "release" /\ flow[p].c = k[1].c)

SyncInv ==
  /\ Typed
  /\ \A k \in ledger : Backed(k)
  /\ \A p \in Procs : FlowOk(flow[p], KindOf)
-----------------------------------------------------------------------------
(***************************************************************************)
(* Keys and pages.                                                         *)
(***************************************************************************)
LEMMA RecordFacts ==
  ASSUME NEW r \in Records
  PROVE  r.c \in Connectors /\ r.what \in {"spend", "activity"}
BY ConnectorAssumption

\* A key names the record of its row.
LEMMA KeyNamesRow ==
  ASSUME NEW row \in Rows
  PROVE  KeyOf(row)[1] = row[1] /\ KeyOf(row) \in Keys /\ row[1] \in Records
BY DEF KeyOf, Rows, Keys

\* Kinds of connectors do not change, and neither do keys.
LEMMA KeyStays ==
  ASSUME KindOf' = KindOf
  PROVE  \A row \in Rows : KeyOf(row)' = KeyOf(row)
<1>1. ASSUME NEW row \in Rows PROVE KeyOf(row)' = KeyOf(row)
  <2>1. row[1].c \in Connectors
    BY KeyNamesRow, RecordFacts
  <2>2. KindOf[row[1].c] = conn[row[1].c].kind /\ KindOf'[row[1].c] = conn'[row[1].c].kind
    BY <2>1 DEF KindOf
  <2>3. QED BY <2>2 DEF KeyOf
<1>2. QED BY <1>1

\* A finite set has subsets of every size up to its own.
LEMMA SubsetOfSize ==
  ASSUME NEW S, IsFiniteSet(S), NEW n \in Nat, n <= Cardinality(S)
  PROVE  \E T \in SUBSET S : Cardinality(T) = n
<1>1. Cardinality(S) \in Nat /\ ExistsBijection(1..Cardinality(S), S)
  BY FS_CardinalityType
<1>2. PICK f \in Bijection(1..Cardinality(S), S) : TRUE
  BY <1>1 DEF ExistsBijection
<1> DEFINE T == {f[i] : i \in 1..n}
           g == [i \in 1..n |-> f[i]]
<1>3. 1..n \subseteq 1..Cardinality(S)
  BY <1>1
<1>4. T \subseteq S
  BY <1>2, <1>3 DEF Bijection, Injection
<1>5. g \in Bijection(1..n, T)
  BY <1>2, <1>3 DEF Bijection, Injection, Surjection, IsInjective
<1>6. IsFiniteSet(1..n) /\ Cardinality(1..n) = n
  BY FS_Interval
<1>7. Cardinality(T) = n
  <2>1. ExistsBijection(1..n, T)
    BY <1>5 DEF ExistsBijection
  <2> HIDE DEF T
  <2>2. QED BY <1>6, <2>1, FS_Bijection
<1>8. QED BY <1>4, <1>7

\* Pages bring rows of the window only.
LEMMA PagesAreRows ==
  ASSUME NEW rows, IsFiniteSet(rows), NEW bad
  PROVE  FetchEndpointRecords(rows, bad).rows \subseteq rows
<1>1. CASE Cardinality(rows) <= MaxPages
  BY <1>1 DEF FetchEndpointRecords
<1>2. CASE ~ (Cardinality(rows) <= MaxPages)
  <2>1. Cardinality(rows) \in Nat /\ MaxPages \in Nat /\ MaxPages <= Cardinality(rows)
    BY <1>2, FS_CardinalityType, ConnectorAssumption
  <2>2. \E kept \in SUBSET rows : Cardinality(kept) = MaxPages
    BY <2>1, SubsetOfSize
  <2> DEFINE kept == CHOOSE k \in SUBSET rows : Cardinality(k) = MaxPages
  <2>3. kept \in SUBSET rows
    BY <2>2
  <2>4. FetchEndpointRecords(rows, bad).rows = kept \ bad
    BY <1>2 DEF FetchEndpointRecords
  <2> HIDE DEF kept
  <2>5. QED BY <2>3, <2>4
<1>3. QED BY <1>1, <1>2

LEMMA ReportedAreRows ==
  ASSUME Typed, NEW c, NEW w, NEW what
  PROVE  Reported(c, w, what) \subseteq Rows /\ IsFiniteSet(Reported(c, w, what))
<1> DEFINE R == {x \in Records : x.c = c /\ x.what = what /\ In(x.day, w) /\ x.day <= today /\ provider[x] # "none"}
<1>1. Reported(c, w, what) = {<<r, provider[r]>> : r \in R}
  BY DEF Reported
<1>2. R \subseteq Records /\ \A r \in R : provider[r] \in Prices
  BY DEF Typed
<1>3. IsFiniteSet(R)
  BY <1>2, FS_Subset, ConnectorAssumption
<1> HIDE DEF R
<1>4. IsFiniteSet({<<r, provider[r]>> : r \in R})
  <2> DEFINE f == [r \in R |-> <<r, provider[r]>>]
             T == {<<r, provider[r]>> : r \in R}
  <2>1. f \in Surjection(R, T)
    BY DEF Surjection
  <2> HIDE DEF f, T
  <2>2. IsFiniteSet(T)
    BY <1>3, <2>1, FS_Surjection
  <2>3. QED BY <2>2 DEF T
<1>5. QED BY <1>1, <1>2, <1>4 DEF Rows

LEMMA FetchedAreRows ==
  ASSUME Typed, NEW f, NEW w, NEW bad, NEW answer, NEW kind
  PROVE  FetchAllRecords(kind, Reported(f.c, w, "spend"), Reported(f.c, w, "activity"), bad, answer).rows \subseteq Rows
<1> DEFINE spend == Reported(f.c, w, "spend")
           extra == Reported(f.c, w, "activity")
<1>1. /\ spend \subseteq Rows /\ IsFiniteSet(spend) /\ extra \subseteq Rows /\ IsFiniteSet(extra)
  BY ReportedAreRows
<1> HIDE DEF spend, extra
<1> DEFINE asked == IF kind = "cursor" THEN spend ELSE spend \union extra
<1>2. asked \subseteq Rows /\ IsFiniteSet(asked)
  BY <1>1, FS_Union
<1> HIDE DEF asked
<1>3. /\ FetchEndpointRecords(asked, bad).rows \subseteq Rows /\ FetchEndpointRecords(extra, bad).rows \subseteq Rows
  BY <1>1, <1>2, PagesAreRows
<1>4. \/ FetchAllRecords(kind, spend, extra, bad, answer).rows = {}
      \/ FetchAllRecords(kind, spend, extra, bad, answer).rows \subseteq
           FetchEndpointRecords(asked, bad).rows \union FetchEndpointRecords(extra, bad).rows
  BY DEF FetchAllRecords, asked
<1>5. FetchAllRecords(kind, spend, extra, bad, answer).rows \subseteq Rows
  BY <1>3, <1>4
<1>6. QED BY <1>5 DEF spend, extra
-----------------------------------------------------------------------------
(***************************************************************************)
(* What a step may leave as it was.                                        *)
(***************************************************************************)
\* A row that stays in its table stays the row of its key.
LEMMA StoredStays ==
  ASSUME Typed, KindOf' = KindOf, stored \subseteq stored', stored' \subseteq Rows,
         NEW k \in Keys, IsStored(k), activity[k[1]] > 0 => activity'[k[1]] > 0
  PROVE  IsStored(k)'
<1>1. \A row \in stored : row \in stored' /\ KeyOf(row)' = KeyOf(row)
  BY KeyStays DEF Typed
<1>2. QED BY <1>1 DEF IsStored

LEMMA HeldStays ==
  ASSUME SyncInv, KindOf' = KindOf, NEW p \in Procs, flow'[p].fresh = flow[p].fresh, NEW k
  PROVE  k \in KeysOf(flow[p].fresh) => k \in KeysOf(flow[p].fresh)'
<1>1. flow[p].fresh \subseteq Rows
  BY DEF SyncInv, FlowOk
<1>2. QED BY <1>1, KeyStays DEF KeysOf

\* A step of a sync that neither inserts nor releases, or none of a sync at all.
LEMMA QuietStep ==
  ASSUME SyncInv, UNCHANGED <<ledger, stored, activity, dropped>>,
         provider' \in [Records -> Prices \union {"none"}], ConnTyped', KindOf' = KindOf,
         flow' = [p \in Procs |-> flow'[p]],
         \A p \in Procs : \/ flow'[p] = flow[p]
                          \/ flow[p].at \notin {"insert", "release"} /\ FlowOk(flow'[p], KindOf)
  PROVE  SyncInv'
<1>1. Typed'
  BY DEF SyncInv, Typed
<1>2. \A p \in Procs : FlowOk(flow'[p], KindOf')
  BY DEF SyncInv
<1>3. ASSUME NEW k \in ledger PROVE Backed(k)'
  <2>1. Typed /\ k \in Keys /\ Backed(k)
    BY DEF SyncInv, Typed
  <2>2. CASE IsStored(k)
    <3>1. IsStored(k)'
      BY <2>1, <2>2, StoredStays DEF Typed
    <3>2. QED BY <3>1 DEF Backed
  <2>3. CASE k \in dropped
    BY <2>3 DEF Backed
  <2>4. ASSUME NEW p \in Procs, k \in KeysOf(flow[p].fresh) \/ (flow[p].at = "release" /\ flow[p].c = k[1].c)
        PROVE  Backed(k)'
    <3>1. flow'[p] = flow[p]
      BY <2>4 DEF SyncInv, FlowOk, KeysOf
    <3>2. k \in KeysOf(flow[p].fresh)' \/ (flow'[p].at = "release" /\ flow'[p].c = k[1].c)
      BY <2>4, <3>1, HeldStays
    <3>3. QED BY <3>2 DEF Backed
  <2>5. QED BY <2>1, <2>2, <2>3, <2>4 DEF Backed
<1>4. QED BY <1>1, <1>2, <1>3 DEF SyncInv

\* A change of a connector's row keeps its kind.
LEMMA ConnStep ==
  ASSUME Typed, NEW c \in Connectors, NEW r, IsConn(r), r.kind = conn[c].kind, conn' = [conn EXCEPT ![c] = r]
  PROVE  ConnTyped' /\ KindOf' = KindOf
<1>1. \A d \in Connectors : conn'[d] = IF d = c THEN r ELSE conn[d]
  BY DEF Typed, ConnTyped
<1>2. conn' = [d \in Connectors |-> conn'[d]]
  BY DEF Typed, ConnTyped
<1>3. ConnTyped'
  BY <1>1, <1>2 DEF Typed, ConnTyped
<1>4. \A d \in Connectors : conn'[d].kind = conn[d].kind
  BY <1>1
<1>5. QED BY <1>3, <1>4 DEF KindOf

LEMMA ConnSame ==
  ASSUME Typed, UNCHANGED conn PROVE ConnTyped' /\ KindOf' = KindOf
BY DEF Typed, ConnTyped, KindOf

\* A step of one sync.
LEMMA FlowStep ==
  ASSUME Typed, NEW p \in Procs, NEW f, flow' = [flow EXCEPT ![p] = f]
  PROVE  flow' = [q \in Procs |-> flow'[q]] /\ flow'[p] = f /\ \A q \in Procs : q # p => flow'[q] = flow[q]
BY DEF Typed

LEMMA IdleShape ==
  /\ IsFlow(Idle) /\ Idle.at = "idle" /\ Idle.got = {} /\ Idle.rows = {} /\ Idle.fresh = {}
<1> DEFINE c0 == CHOOSE c \in Connectors : TRUE
           f == Idle
<1>1. f = [at |-> "idle", c |-> c0, todo |-> <<>>, from |-> 1, to |-> 1,
           got |-> {}, rows |-> {}, fresh |-> {}, errors |-> FALSE, released |-> FALSE, imported |-> FALSE,
           base |-> 0, through |-> 0, was |-> "connected", code |-> "none"]
  BY DEF Idle
<1> HIDE DEF c0, f
<1>2. DOMAIN f = Fields
  BY <1>1 DEF Fields
<1>3. f = [x \in DOMAIN f |-> f[x]] /\ f.at = "idle" /\ f.got = {} /\ f.rows = {} /\ f.fresh = {}
  BY <1>1
<1>4. QED BY <1>2, <1>3 DEF f, IsFlow

LEMMA IdleOk == ASSUME NEW kinds PROVE FlowOk(Idle, kinds)
BY IdleShape DEF FlowOk
-----------------------------------------------------------------------------
(***************************************************************************)
(* The world around.                                                       *)
(***************************************************************************)
LEMMA NextDayStep == ASSUME SyncInv, NextDay PROVE SyncInv'
BY QuietStep, ConnSame DEF NextDay, SyncInv, Typed

LEMMA ExpungeStep == ASSUME SyncInv, Expunge PROVE SyncInv'
BY QuietStep, ConnSame DEF Expunge, SyncInv, Typed

LEMMA ReportStep == ASSUME SyncInv, NEW r \in Records, Report(r) PROVE SyncInv'
<1>1. provider' \in [Records -> Prices \union {"none"}]
  BY DEF Report, SyncInv, Typed, Prices
<1>2. QED BY <1>1, QuietStep, ConnSame DEF Report, SyncInv, Typed

LEMMA OlderStep == ASSUME SyncInv, NEW c \in Connectors, Older(c) PROVE SyncInv'
<1> DEFINE r == [conn[c] EXCEPT !.age = @ + 1]
<1>1. IsConn(conn[c]) /\ conn' = [conn EXCEPT ![c] = r]
  BY DEF Older, SyncInv, Typed, ConnTyped
<1>2. IsConn(r) /\ r.kind = conn[c].kind
  BY <1>1 DEF IsConn
<1> HIDE DEF r
<1>3. ConnTyped' /\ KindOf' = KindOf
  BY <1>1, <1>2, ConnStep DEF SyncInv
<1>4. QED BY <1>3, QuietStep DEF Older, SyncInv, Typed

LEMMA HandoffStep == ASSUME SyncInv, NEW c \in Connectors, UpdateConnectorHandoff(c) PROVE SyncInv'
<1> DEFINE b == IF conn[c].base = 0 THEN today ELSE conn[c].base
           r == [conn[c] EXCEPT !.through = today - 1, !.base = b]
<1>1. IsConn(conn[c]) /\ conn' = [conn EXCEPT ![c] = r]
  BY DEF UpdateConnectorHandoff, SyncInv, Typed, ConnTyped, IsConn
<1> HIDE DEF b
<1>2. IsConn(r) /\ r.kind = conn[c].kind
  BY <1>1 DEF IsConn
<1> HIDE DEF r
<1>3. ConnTyped' /\ KindOf' = KindOf
  BY <1>1, <1>2, ConnStep DEF SyncInv
<1>4. QED BY <1>3, QuietStep DEF UpdateConnectorHandoff, SyncInv, Typed

LEMMA UpdateStep == ASSUME SyncInv, NEW c \in Connectors, UpdateConnector(c) PROVE SyncInv'
<1>1. PICK secret \in BOOLEAN, enabled \in BOOLEAN :
         conn' = [conn EXCEPT ![c].enabled = enabled, ![c].status = IF secret THEN "connected" ELSE @,
                              ![c].age = IF secret THEN 0 ELSE @]
  BY DEF UpdateConnector
<1> DEFINE s == IF secret THEN "connected" ELSE conn[c].status
           a == IF secret THEN 0 ELSE conn[c].age
           r == [conn[c] EXCEPT !.enabled = enabled, !.status = s, !.age = a]
<1>2. IsConn(conn[c]) /\ conn' = [conn EXCEPT ![c] = r]
  BY <1>1 DEF SyncInv, Typed, ConnTyped, IsConn
<1> HIDE DEF s, a
<1>3. IsConn(r) /\ r.kind = conn[c].kind
  BY <1>2 DEF IsConn
<1> HIDE DEF r
<1>4. ConnTyped' /\ KindOf' = KindOf
  BY <1>2, <1>3, ConnStep DEF SyncInv
<1>5. QED BY <1>4, QuietStep DEF UpdateConnector, SyncInv, Typed
-----------------------------------------------------------------------------
(***************************************************************************)
(* The steps of a sync that touch neither the ledger nor its tables.       *)
(***************************************************************************)
LEMMA SyncStep ==
  ASSUME SyncInv, UNCHANGED <<provider, ledger, stored, activity, dropped>>, ConnTyped', KindOf' = KindOf,
         NEW p \in Procs, NEW f, flow' = [flow EXCEPT ![p] = f],
         flow[p].at \notin {"insert", "release"}, FlowOk(f, KindOf)
  PROVE  SyncInv'
<1>1. Typed
  BY DEF SyncInv
<1>2. /\ flow' = [q \in Procs |-> flow'[q]] /\ flow'[p] = f
      /\ \A q \in Procs : q # p => flow'[q] = flow[q]
  BY <1>1, FlowStep
<1>3. provider' \in [Records -> Prices \union {"none"}]
  BY <1>1 DEF Typed
<1>4. QED BY <1>2, <1>3, QuietStep

LEMMA BeginStep ==
  ASSUME SyncInv, NEW p \in Procs, NEW c \in Connectors, NEW w, flow[p].at = "idle",
         flow' = [flow EXCEPT ![p] = Started(c, w)],
         UNCHANGED <<provider, conn, ledger, stored, activity, dropped>>
  PROVE  SyncInv'
<1> DEFINE f == Started(c, w)
<1>1. IsFlow(f) /\ f.at = "mark" /\ f.c = c /\ f.got = {} /\ f.rows = {} /\ f.fresh = {}
  <2> DEFINE chunks == ResolveSyncChunks(w)
             from == chunks[1].from
             to == chunks[Len(chunks)].to
             base == conn[c].base
             through == conn[c].through
             was == conn[c].status
             g == [Idle EXCEPT !.at = "mark", !.c = c, !.todo = chunks, !.from = from, !.to = to,
                               !.base = base, !.through = through, !.was = was]
  <2>1. f = g
    BY DEF Started
  <2> HIDE DEF chunks, from, to, base, through, was, f
  <2>2. IsFlow(g) /\ g.at = "mark" /\ g.c = c /\ g.got = {} /\ g.rows = {} /\ g.fresh = {}
    BY IdleShape DEF IsFlow, Fields
  <2>3. QED BY <2>1, <2>2
<1>2. FlowOk(f, KindOf)
  BY <1>1 DEF FlowOk
<1>3. ConnTyped' /\ KindOf' = KindOf
  BY ConnSame DEF SyncInv
<1>4. QED BY <1>2, <1>3, SyncStep

LEMMA BeginsStep ==
  ASSUME SyncInv, NEW c \in Connectors, BeginManual(c) \/ BeginScheduled(c)
  PROVE  SyncInv'
<1>1. CASE BeginManual(c)
  <2>1. \E w : flow' = [flow EXCEPT !["admin"] = Started(c, w)]
    BY <1>1 DEF BeginManual
  <2>2. flow["admin"].at = "idle" /\ UNCHANGED <<provider, conn, ledger, stored, activity, dropped>>
    BY <1>1 DEF BeginManual
  <2>3. QED BY <2>1, <2>2, BeginStep DEF Procs
<1>2. CASE BeginScheduled(c)
  <2>1. \E w : flow' = [flow EXCEPT !["scheduler"] = Started(c, w)]
    BY <1>2 DEF BeginScheduled
  <2>2. flow["scheduler"].at = "idle" /\ UNCHANGED <<provider, conn, ledger, stored, activity, dropped>>
    BY <1>2 DEF BeginScheduled
  <2>3. QED BY <2>1, <2>2, BeginStep DEF Procs
<1>3. QED BY <1>1, <1>2

LEMMA MarkStep == ASSUME SyncInv, NEW p \in Procs, Mark(p) PROVE SyncInv'
<1> DEFINE c == flow[p].c
           at == IF conn[c].kind = "ado" THEN "ado" ELSE "fetch"
           r == [conn[c] EXCEPT !.status = "syncing", !.age = 0]
           f == [flow[p] EXCEPT !.at = at]
<1>1. /\ Typed /\ FlowOk(flow[p], KindOf) /\ c \in Connectors /\ IsConn(conn[c])
      /\ flow[p].at = "mark" /\ UNCHANGED <<provider, ledger, stored, activity, dropped>>
  BY DEF Mark, SyncInv, FlowOk, Typed, ConnTyped
<1>2. conn' = [conn EXCEPT ![c] = r]
  BY <1>1 DEF Mark, Typed, ConnTyped, IsConn
<1>3. flow' = [flow EXCEPT ![p] = f]
  BY DEF Mark
<1>4. at \in {"ado", "fetch"}
  OBVIOUS
<1>5. IsConn(r) /\ r.kind = conn[c].kind
  BY <1>1 DEF IsConn
<1> HIDE DEF at
<1>6. FlowOk(f, KindOf)
  BY <1>1, <1>4 DEF FlowOk, IsFlow, Fields
<1> HIDE DEF r, f, c
<1>7. ConnTyped' /\ KindOf' = KindOf
  BY <1>1, <1>2, <1>5, ConnStep
<1>8. QED BY <1>1, <1>3, <1>6, <1>7, SyncStep

LEMMA AdoFailsStep == ASSUME SyncInv, NEW p \in Procs, AdoFails(p) PROVE SyncInv'
<1> DEFINE f == [flow[p] EXCEPT !.at = "fail", !.code = "ADO_SYNC_FAILED"]
<1>1. flow' = [flow EXCEPT ![p] = f] /\ flow[p].at = "ado" /\ UNCHANGED <<provider, conn, ledger, stored, activity, dropped>>
  BY DEF AdoFails
<1>2. FlowOk(f, KindOf)
  BY <1>1 DEF SyncInv, FlowOk, IsFlow, Fields
<1>3. ConnTyped' /\ KindOf' = KindOf
  BY <1>1, ConnSame DEF SyncInv
<1> HIDE DEF f
<1>4. QED BY <1>1, <1>2, <1>3, SyncStep

LEMMA IdleStep ==
  ASSUME SyncInv, NEW p \in Procs, flow[p].at \notin {"idle", "insert", "release"}, NEW r, IsConn(r),
         r.kind = conn[flow[p].c].kind, conn' = [conn EXCEPT ![flow[p].c] = r],
         flow' = [flow EXCEPT ![p] = Idle], UNCHANGED <<provider, ledger, stored, activity, dropped>>
  PROVE  SyncInv'
<1>1. Typed /\ flow[p].c \in Connectors
  BY DEF SyncInv, FlowOk
<1>2. ConnTyped' /\ KindOf' = KindOf
  BY <1>1, ConnStep
<1>3. QED BY <1>2, IdleOk, SyncStep

LEMMA EndsStep == ASSUME SyncInv, NEW p \in Procs, Finish(p) \/ FinishAdo(p) \/ Fail(p) PROVE SyncInv'
<1>1. Typed /\ FlowOk(flow[p], KindOf) /\ flow[p].at \in {"finish", "ado", "fail"}
  BY DEF SyncInv, Finish, FinishAdo, Fail
<1>2. flow[p].c \in Connectors /\ IsConn(conn[flow[p].c])
  BY <1>1 DEF FlowOk, Typed, ConnTyped
<1> DEFINE f == flow[p]
           q == conn[f.c]
<1>3. CASE Finish(p)
  <2> DEFINE base == IF f.base = 0 /\ (f.imported \/ Spent(f.got)) THEN FirstBaseline(f) ELSE f.base
             health == HealthOf(f)
             r == [q EXCEPT !.status = health, !.age = 0, !.base = base, !.through = f.through]
  <2>1. conn' = [conn EXCEPT ![f.c] = r] /\ flow' = [flow EXCEPT ![p] = Idle]
        /\ UNCHANGED <<provider, ledger, stored, activity, dropped>>
    BY <1>1, <1>2, <1>3 DEF Finish, Typed, ConnTyped, IsConn
  <2> HIDE DEF base, health
  <2>2. IsConn(r) /\ r.kind = q.kind
    BY <1>2 DEF IsConn
  <2> HIDE DEF r
  <2>3. QED BY <1>1, <1>2, <2>1, <2>2, IdleStep
<1>4. CASE FinishAdo(p)
  <2> DEFINE r == [q EXCEPT !.status = "connected", !.age = 0]
  <2>1. conn' = [conn EXCEPT ![f.c] = r] /\ flow' = [flow EXCEPT ![p] = Idle]
        /\ UNCHANGED <<provider, ledger, stored, activity, dropped>>
    BY <1>1, <1>2, <1>4 DEF FinishAdo, Typed, ConnTyped, IsConn
  <2>2. IsConn(r) /\ r.kind = q.kind
    BY <1>2 DEF IsConn
  <2> HIDE DEF r
  <2>3. QED BY <1>1, <1>2, <2>1, <2>2, IdleStep
<1>5. CASE Fail(p)
  <2> DEFINE status == FailedStatus(q.kind, f.code)
             r == [q EXCEPT !.status = status, !.age = 0]
  <2>1. conn' = [conn EXCEPT ![f.c] = r] /\ flow' = [flow EXCEPT ![p] = Idle]
        /\ UNCHANGED <<provider, ledger, stored, activity, dropped>>
    BY <1>1, <1>2, <1>5 DEF Fail, Typed, ConnTyped, IsConn
  <2> HIDE DEF status
  <2>2. IsConn(r) /\ r.kind = q.kind
    BY <1>2 DEF IsConn
  <2> HIDE DEF r
  <2>3. QED BY <1>1, <1>2, <2>1, <2>2, IdleStep
<1>6. QED BY <1>3, <1>4, <1>5

\* A window that is in: what is collected are rows, and a Cursor sync purges after the
\* last window only, and only without errors.
LEMMA FetchStep == ASSUME SyncInv, NEW p \in Procs, RunSyncOrchestrator(p) PROVE SyncInv'
<1> DEFINE f == flow[p]
           kind == conn[f.c].kind
<1>1. /\ Typed /\ FlowOk(f, KindOf) /\ f.at = "fetch" /\ f.c \in Connectors
      /\ UNCHANGED <<provider, conn, ledger, stored, activity, dropped>>
  BY DEF SyncInv, RunSyncOrchestrator, FlowOk
<1>2. KindOf[f.c] = kind /\ ConnTyped' /\ KindOf' = KindOf
  BY <1>1, ConnSame DEF KindOf
<1>3. \E res :
        /\ res.rows \subseteq Rows
        /\ IF res.code # "none"
             THEN flow' = [flow EXCEPT ![p].at = "fail", ![p].code = res.code]
             ELSE Fetched(p, res.rows, res.errors)
  <2> DEFINE w == Head(f.todo)
             spend == Reported(f.c, w, "spend")
             extra == Reported(f.c, w, "activity")
             smooth == FetchAllRecords(kind, spend, extra, {}, SmoothAnswer)
  <2>1. PICK res \in {smooth} \union (IF events < MaxEvents THEN Outcomes(kind, spend, extra) ELSE {}) :
          IF res.code # "none"
            THEN flow' = [flow EXCEPT ![p].at = "fail", ![p].code = res.code]
            ELSE Fetched(p, res.rows, res.errors)
    BY DEF RunSyncOrchestrator
  <2>2. CASE res = smooth
    <3>1. smooth.rows \subseteq Rows
      BY <1>1, FetchedAreRows
    <3> HIDE DEF smooth
    <3>2. QED BY <2>1, <2>2, <3>1
  <2>3. CASE res \in Outcomes(kind, spend, extra)
    <3>1. \E answer, bad : res = FetchAllRecords(kind, spend, extra, bad, answer)
      BY <2>3 DEF Outcomes
    <3>2. PICK answer, bad : res = FetchAllRecords(kind, spend, extra, bad, answer)
      BY <3>1
    <3>3. FetchAllRecords(kind, spend, extra, bad, answer).rows \subseteq Rows
      BY <1>1, FetchedAreRows
    <3>4. res.rows \subseteq Rows
      BY <3>2, <3>3
    <3> HIDE DEF spend, extra, kind
    <3>5. QED BY <2>1, <3>4
  <2> HIDE DEF smooth, spend, extra, kind
  <2>4. QED BY <2>1, <2>2, <2>3
<1>4. PICK res : /\ res.rows \subseteq Rows
                 /\ IF res.code # "none"
                      THEN flow' = [flow EXCEPT ![p].at = "fail", ![p].code = res.code]
                      ELSE Fetched(p, res.rows, res.errors)
  BY <1>3
<1>5. CASE res.code # "none"
  <2> DEFINE code == res.code
             g == [f EXCEPT !.at = "fail", !.code = code]
  <2> HIDE DEF code
  <2>1. FlowOk(g, KindOf)
    BY <1>1 DEF FlowOk, IsFlow, Fields
  <2>2. flow' = [flow EXCEPT ![p] = g]
    BY <1>4, <1>5 DEF code
  <2> HIDE DEF g
  <2>3. QED BY <1>1, <1>2, <2>1, <2>2, SyncStep
<1>6. CASE res.code = "none"
  <2> DEFINE new == IF kind = "cursor" THEN f.got \union res.rows ELSE res.rows
             got == f.got \union res.rows
             errors == f.errors \/ res.errors
             todo == Tail(f.todo)
             g == [f EXCEPT !.got = got, !.errors = errors, !.todo = todo, !.rows = new]
             at == AfterFetch(g, kind)
             h == [g EXCEPT !.at = at]
  <2>1. flow' = [flow EXCEPT ![p] = h]
    BY <1>4, <1>6 DEF Fetched
  <2>2. new \subseteq Rows /\ got \subseteq Rows
    BY <1>1, <1>4 DEF FlowOk
  <2> HIDE DEF new, got, errors, todo
  <2>3. /\ IsFlow(g) /\ g.c = f.c /\ g.got = got /\ g.rows = new /\ g.fresh = {} /\ g.errors = errors /\ g.todo = todo
    BY <1>1 DEF FlowOk, IsFlow, Fields
  <2> HIDE DEF g
  <2>4. at = "purge" /\ kind = "cursor" => g.todo = <<>> /\ ~ g.errors
    BY DEF AfterFetch, NextChunk
  <2> HIDE DEF at
  <2>5. FlowOk(h, KindOf)
    BY <1>1, <1>2, <2>2, <2>3, <2>4 DEF FlowOk, IsFlow, Fields
  <2> HIDE DEF h
  <2>6. QED BY <1>1, <1>2, <2>1, <2>5, SyncStep
<1>7. QED BY <1>5, <1>6
-----------------------------------------------------------------------------
(***************************************************************************)
(* The steps that move keys and rows.                                      *)
(***************************************************************************)
\* After a step of sync p a key that sync p does not answer for is backed as before.
LEMMA OthersBack ==
  ASSUME SyncInv, KindOf' = KindOf, NEW p \in Procs, \A q \in Procs : q # p => flow'[q] = flow[q], NEW k,
         NEW q \in Procs, q # p, k \in KeysOf(flow[q].fresh) \/ (flow[q].at = "release" /\ flow[q].c = k[1].c)
  PROVE  Backed(k)'
<1>1. flow'[q] = flow[q] /\ (k \in KeysOf(flow[q].fresh) => k \in KeysOf(flow[q].fresh)')
  BY HeldStays
<1>2. QED BY <1>1 DEF Backed

\* What every step of a sync has in common.
LEMMA Parts ==
  ASSUME SyncInv, NEW p \in Procs, NEW f, flow' = [flow EXCEPT ![p] = f], FlowOk(f, KindOf),
         UNCHANGED <<provider, conn>>, ledger' \subseteq Keys, stored' \subseteq Rows,
         activity' \in [Records -> 0..MaxCount],
         \A k \in ledger' : Backed(k)'
  PROVE  SyncInv'
<1>1. Typed
  BY DEF SyncInv
<1>2. /\ flow' = [q \in Procs |-> flow'[q]] /\ flow'[p] = f /\ \A q \in Procs : q # p => flow'[q] = flow[q]
  BY <1>1, FlowStep
<1>3. ConnTyped' /\ KindOf' = KindOf
  BY <1>1, ConnSame
<1>4. Typed'
  BY <1>1, <1>2, <1>3 DEF Typed
<1>5. \A q \in Procs : FlowOk(flow'[q], KindOf')
  BY <1>2, <1>3 DEF SyncInv
<1>6. QED BY <1>4, <1>5 DEF SyncInv

\* A purge leaves the keys of its own connector to the release that follows, and the keys
\* of other connectors without their rows.
LEMMA PurgeStep == ASSUME SyncInv, NEW p \in Procs, Purge(p) PROVE SyncInv'
<1> DEFINE f == flow[p]
           g == [f EXCEPT !.at = "release"]
<1>1. /\ Typed /\ FlowOk(f, KindOf) /\ f.at = "purge"
      /\ stored' = stored \ Purged(f) /\ flow' = [flow EXCEPT ![p] = g]
      /\ dropped' = dropped \union (ledger \intersect TakenFromOthers(f, Purged(f)))
      /\ UNCHANGED <<provider, conn, ledger, activity>>
  BY DEF Purge, SyncInv
<1>2. FlowOk(g, KindOf) /\ g.at = "release" /\ g.c = f.c /\ f.fresh = {}
  BY <1>1 DEF FlowOk, IsFlow, Fields
<1> HIDE DEF g
<1>3. flow'[p] = g /\ (\A q \in Procs : q # p => flow'[q] = flow[q]) /\ KindOf' = KindOf
  BY <1>1, FlowStep, ConnSame
<1>4. ledger' \subseteq Keys /\ stored' \subseteq Rows /\ activity' \in [Records -> 0..MaxCount]
  BY <1>1 DEF Typed
<1>5. ASSUME NEW k \in ledger' PROVE Backed(k)'
  <2>1. k \in ledger /\ Backed(k)
    BY <1>1 DEF SyncInv
  <2>2. CASE IsStored(k)
    <3>1. CASE k[1].what = "activity"
      BY <1>1, <2>2, <3>1 DEF IsStored, Backed
    <3>2. CASE k[1].what # "activity"
      <4>1. PICK row \in stored : KeyOf(row) = k
        BY <2>2, <3>2 DEF IsStored
      <4>2. row \in Rows /\ k[1] = row[1] /\ KeyOf(row)' = k
        BY <1>1, <1>3, <4>1, KeyStays, KeyNamesRow DEF Typed
      <4>3. CASE row \notin Purged(f)
        BY <1>1, <3>2, <4>1, <4>2, <4>3 DEF IsStored, Backed
      <4>4. CASE row[1].c = f.c
        BY <1>2, <1>3, <4>2, <4>4 DEF Backed
      <4>5. CASE row \in Purged(f) /\ row[1].c # f.c
        <5>1. k \in TakenFromOthers(f, Purged(f))
          BY <4>1, <4>5 DEF TakenFromOthers, KeysOf
        <5>2. QED BY <1>1, <2>1, <5>1 DEF Backed
      <4>6. QED BY <4>3, <4>4, <4>5
    <3>3. QED BY <3>1, <3>2
  <2>3. CASE k \in dropped
    BY <1>1, <2>3 DEF Backed
  <2>4. ASSUME NEW q \in Procs, k \in KeysOf(flow[q].fresh) \/ (flow[q].at = "release" /\ flow[q].c = k[1].c)
        PROVE  Backed(k)'
    <3>1. q # p
      BY <1>1, <1>2, <2>4 DEF KeysOf
    <3>2. QED BY <1>3, <2>4, <3>1, OthersBack
  <2>5. QED BY <2>1, <2>2, <2>3, <2>4 DEF Backed
<1>6. QED BY <1>1, <1>2, <1>4, <1>5, Parts

LEMMA ReleaseStep == ASSUME SyncInv, NEW p \in Procs, Release(p) PROVE SyncInv'
<1> DEFINE f == flow[p]
           at == IF f.rows # {} THEN "reserve" ELSE NextChunk(f)
           g == [[f EXCEPT !.released = TRUE] EXCEPT !.at = at]
<1>1. /\ Typed /\ FlowOk(f, KindOf) /\ f.at = "release" /\ flow' = [flow EXCEPT ![p] = g]
      /\ ledger' = {k \in ledger : k[1].c # f.c} /\ dropped' = dropped \intersect ledger'
      /\ UNCHANGED <<provider, conn, stored, activity>>
  BY DEF Release, SyncInv, ReleasedKeys
<1>2. at # "purge"
  BY DEF NextChunk
<1> HIDE DEF at
<1>3. FlowOk(g, KindOf) /\ f.fresh = {}
  BY <1>1, <1>2 DEF FlowOk, IsFlow, Fields
<1> HIDE DEF g
<1>4. flow'[p] = g /\ (\A q \in Procs : q # p => flow'[q] = flow[q]) /\ KindOf' = KindOf
  BY <1>1, FlowStep, ConnSame
<1>5. ledger' \subseteq Keys /\ stored' \subseteq Rows /\ activity' \in [Records -> 0..MaxCount]
  BY <1>1 DEF Typed
<1>6. ASSUME NEW k \in ledger' PROVE Backed(k)'
  <2>1. k \in ledger /\ k \in Keys /\ k[1].c # f.c /\ Backed(k)
    BY <1>1 DEF SyncInv, Typed
  <2>2. CASE IsStored(k)
    <3>1. IsStored(k)'
      BY <1>1, <1>4, <2>1, <2>2, StoredStays DEF Typed
    <3>2. QED BY <3>1 DEF Backed
  <2>3. CASE k \in dropped
    BY <1>1, <2>3 DEF Backed
  <2>4. ASSUME NEW q \in Procs, k \in KeysOf(flow[q].fresh) \/ (flow[q].at = "release" /\ flow[q].c = k[1].c)
        PROVE  Backed(k)'
    <3>1. q # p
      BY <1>3, <2>1, <2>4 DEF KeysOf
    <3>2. QED BY <1>4, <2>4, <3>1, OthersBack
  <2>5. QED BY <2>1, <2>2, <2>3, <2>4 DEF Backed
<1>7. QED BY <1>1, <1>3, <1>5, <1>6, Parts

\* The rows whose keys a reservation won are its sync's to insert.
LEMMA ReserveStep == ASSUME SyncInv, NEW p \in Procs, Reserve(p) PROVE SyncInv'
<1> DEFINE f == flow[p]
           won == Won(f.rows)
           g == [f EXCEPT !.at = "insert", !.fresh = won]
<1>1. /\ Typed /\ FlowOk(f, KindOf) /\ f.at = "reserve" /\ flow' = [flow EXCEPT ![p] = g]
      /\ ledger' = ledger \union KeysOf(f.rows) /\ UNCHANGED <<provider, conn, stored, activity, dropped>>
  BY DEF Reserve, SyncInv
<1>2. won \subseteq f.rows
  BY DEF Won
<1> HIDE DEF won
<1>3. FlowOk(g, KindOf) /\ f.fresh = {} /\ g.fresh = won
  BY <1>1, <1>2 DEF FlowOk, IsFlow, Fields
<1> HIDE DEF g
<1>4. flow'[p] = g /\ (\A q \in Procs : q # p => flow'[q] = flow[q]) /\ KindOf' = KindOf
  BY <1>1, FlowStep, ConnSame
<1>5. ledger' \subseteq Keys /\ stored' \subseteq Rows /\ activity' \in [Records -> 0..MaxCount]
  BY <1>1, KeyNamesRow DEF Typed, KeysOf, FlowOk
<1>6. ASSUME NEW k \in ledger' PROVE Backed(k)'
  <2>1. CASE k \in ledger
    <3>1. k \in Keys /\ Backed(k)
      BY <1>1, <2>1 DEF SyncInv, Typed
    <3>2. CASE IsStored(k)
      <4>1. IsStored(k)'
        BY <1>1, <1>4, <3>1, <3>2, StoredStays DEF Typed
      <4>2. QED BY <4>1 DEF Backed
    <3>3. CASE k \in dropped
      BY <1>1, <3>3 DEF Backed
    <3>4. ASSUME NEW q \in Procs, k \in KeysOf(flow[q].fresh) \/ (flow[q].at = "release" /\ flow[q].c = k[1].c)
          PROVE  Backed(k)'
      <4>1. q # p
        BY <1>1, <1>3, <3>4 DEF KeysOf
      <4>2. QED BY <1>4, <3>4, <4>1, OthersBack
    <3>5. QED BY <3>1, <3>2, <3>3, <3>4 DEF Backed
  <2>2. CASE k \notin ledger
    <3>1. PICK row \in f.rows : k = KeyOf(row)
      BY <1>1, <2>2 DEF KeysOf
    <3>2. row \in won /\ KeyOf(row)' = k
      BY <1>1, <1>4, <2>2, <3>1, KeyStays DEF won, Won, FlowOk
    <3>3. k \in KeysOf(flow[p].fresh)'
      BY <1>3, <1>4, <3>2 DEF KeysOf
    <3>4. QED BY <3>3 DEF Backed
  <2>3. QED BY <2>1, <2>2
<1>7. QED BY <1>1, <1>3, <1>5, <1>6, Parts

\* An upsert keeps every key that has a row, and adds the keys of its rows.
LEMMA UpsertKeeps ==
  ASSUME Typed, KindOf' = KindOf, NEW done \in SUBSET Rows, stored' = Upserted(done),
         NEW k \in Keys, k[1].what # "activity", IsStored(k) \/ k \in KeysOf(done)
  PROVE  IsStored(k)'
<1>1. SpendRows(done) \subseteq Rows /\ SpendRows(done) \subseteq stored' /\ stored \subseteq Rows
  BY DEF Upserted, SpendRows, Typed
<1>2. CASE k \in KeysOf(SpendRows(done))
  <2>1. PICK row \in SpendRows(done) : KeyOf(row) = k
    BY <1>2 DEF KeysOf
  <2>2. row \in stored' /\ KeyOf(row)' = k
    BY <1>1, <2>1, KeyStays
  <2>3. QED BY <2>2 DEF IsStored
<1>3. CASE k \notin KeysOf(SpendRows(done)) /\ IsStored(k)
  <2>1. PICK row \in stored : KeyOf(row) = k
    BY <1>3 DEF IsStored
  <2>2. row \in stored' /\ KeyOf(row)' = k
    BY <1>1, <1>3, <2>1, KeyStays DEF Upserted
  <2>3. QED BY <2>2 DEF IsStored
<1>4. CASE k \in KeysOf(done)
  <2>1. PICK row \in done : KeyOf(row) = k
    BY <1>4 DEF KeysOf
  <2>2. row[1] \in Records /\ k[1] = row[1]
    BY <2>1, KeyNamesRow
  <2>3. row[1].what = "spend"
    BY <2>2, RecordFacts
  <2>4. row \in SpendRows(done)
    BY <2>1, <2>3 DEF SpendRows
  <2>5. QED BY <1>2, <2>1, <2>4 DEF KeysOf
<1>5. QED BY <1>2, <1>3, <1>4

LEMMA UpsertedRows == ASSUME Typed, NEW done \in SUBSET Rows PROVE Upserted(done) \subseteq Rows
BY DEF Typed, Upserted, SpendRows

LEMMA ActivityGrows ==
  ASSUME Typed, NEW done \in SUBSET Rows, activity' = AddedActivity(done)
  PROVE  /\ activity' \in [Records -> 0..MaxCount]
         /\ \A k \in Keys : k[1].what = "activity" /\ (IsStored(k) \/ k \in KeysOf(done)) => activity'[k[1]] > 0
<1>1. activity \in [Records -> 0..MaxCount] /\ MaxCount \in Nat \ {0}
  BY ConnectorAssumption DEF Typed
<1>2. \A r \in Records : activity'[r] = IF r.what = "activity" /\ \E row \in done : row[1] = r
                                          THEN Min2(MaxCount, activity[r] + 1) ELSE activity[r]
  BY DEF AddedActivity
<1>3. \A r \in Records : Min2(MaxCount, activity[r] + 1) \in 1..MaxCount
  BY <1>1 DEF Min2
<1>4. activity' \in [Records -> 0..MaxCount]
  <2>1. \A r \in Records : activity'[r] \in 0..MaxCount
    BY <1>1, <1>2, <1>3
  <2>2. QED BY <2>1 DEF AddedActivity
<1>5. ASSUME NEW k \in Keys, k[1].what = "activity", IsStored(k) \/ k \in KeysOf(done)
      PROVE  activity'[k[1]] > 0
  <2>1. k[1] \in Records
    BY DEF Keys
  <2>2. CASE IsStored(k)
    BY <1>1, <1>2, <1>3, <1>5, <2>1, <2>2 DEF IsStored
  <2>3. CASE k \in KeysOf(done)
    <3>1. PICK row \in done : KeyOf(row) = k
      BY <2>3 DEF KeysOf
    <3>2. row[1] = k[1]
      BY <3>1, KeyNamesRow
    <3>3. QED BY <1>1, <1>2, <1>3, <1>5, <2>1, <3>1, <3>2
  <2>4. QED BY <1>5, <2>2, <2>3
<1>6. QED BY <1>4, <1>5

\* Once its rows are in, a sync answers for no key any more.
LEMMA InsertStep == ASSUME SyncInv, NEW p \in Procs, Insert(p) PROVE SyncInv'
<1> DEFINE f == flow[p]
           at == NextChunk(f)
           imported == f.imported \/ f.fresh # {}
           g == [f EXCEPT !.at = at, !.fresh = {}, !.rows = {}, !.imported = imported]
<1>1. /\ Typed /\ FlowOk(f, KindOf) /\ f.at = "insert" /\ flow' = [flow EXCEPT ![p] = g]
      /\ stored' = Upserted(f.fresh) /\ activity' = AddedActivity(f.fresh)
      /\ UNCHANGED <<provider, conn, ledger, dropped>>
  BY DEF Insert, SyncInv
<1>2. at # "purge"
  BY DEF NextChunk
<1> HIDE DEF at, imported
<1>3. FlowOk(g, KindOf) /\ f.fresh \in SUBSET Rows
  BY <1>1, <1>2 DEF FlowOk, IsFlow, Fields
<1> HIDE DEF g
<1>4. flow'[p] = g /\ (\A q \in Procs : q # p => flow'[q] = flow[q]) /\ KindOf' = KindOf
  BY <1>1, FlowStep, ConnSame
<1>5. ledger' \subseteq Keys /\ stored' \subseteq Rows /\ activity' \in [Records -> 0..MaxCount]
  BY <1>1, <1>3, UpsertedRows, ActivityGrows DEF Typed
<1>6. ASSUME NEW k \in ledger' PROVE Backed(k)'
  <2>1. k \in ledger /\ k \in Keys /\ Backed(k)
    BY <1>1 DEF SyncInv, Typed
  <2>2. CASE IsStored(k) \/ k \in KeysOf(f.fresh)
    <3>1. CASE k[1].what = "activity"
      <4>1. activity'[k[1]] > 0
        BY <1>1, <1>3, <2>1, <2>2, <3>1, ActivityGrows
      <4>2. QED BY <3>1, <4>1 DEF IsStored, Backed
    <3>2. CASE k[1].what # "activity"
      <4>1. IsStored(k)'
        BY <1>1, <1>3, <1>4, <2>1, <2>2, <3>2, UpsertKeeps
      <4>2. QED BY <4>1 DEF Backed
    <3>3. QED BY <3>1, <3>2
  <2>3. CASE k \in dropped
    BY <1>1, <2>3 DEF Backed
  <2>4. ASSUME NEW q \in Procs, q # p,
               k \in KeysOf(flow[q].fresh) \/ (flow[q].at = "release" /\ flow[q].c = k[1].c)
        PROVE  Backed(k)'
    BY <1>4, <2>4, OthersBack
  <2>5. QED BY <1>1, <2>1, <2>2, <2>3, <2>4 DEF Backed
<1>7. QED BY <1>1, <1>3, <1>5, <1>6, Parts

\* An insert that fails has put in one table's rows or none; the other keys are dropped.
LEMMA InsertFailsStep == ASSUME SyncInv, NEW p \in Procs, InsertFails(p) PROVE SyncInv'
<1> DEFINE f == flow[p]
           g == [f EXCEPT !.at = "fail", !.fresh = {}, !.code = "SYNC_FAILED"]
<1>1. /\ Typed /\ FlowOk(f, KindOf) /\ f.at = "insert" /\ flow' = [flow EXCEPT ![p] = g]
      /\ UNCHANGED <<provider, conn, ledger, activity>>
  BY DEF InsertFails, SyncInv
<1>2. PICK done \in {{}, SpendRows(f.fresh)} :
        stored' = Upserted(done) /\ dropped' = dropped \union KeysOf(f.fresh \ done)
  BY DEF InsertFails
<1>3. FlowOk(g, KindOf) /\ f.fresh \in SUBSET Rows
  BY <1>1 DEF FlowOk, IsFlow, Fields
<1> HIDE DEF g
<1>4. flow'[p] = g /\ (\A q \in Procs : q # p => flow'[q] = flow[q]) /\ KindOf' = KindOf
  BY <1>1, FlowStep, ConnSame
<1>5. done \in SUBSET f.fresh /\ done \in SUBSET Rows
  BY <1>2, <1>3 DEF SpendRows
<1>6. ledger' \subseteq Keys /\ stored' \subseteq Rows /\ activity' \in [Records -> 0..MaxCount]
  BY <1>1, <1>2, <1>5, UpsertedRows DEF Typed
<1>7. ASSUME NEW k \in ledger' PROVE Backed(k)'
  <2>1. k \in ledger /\ k \in Keys /\ Backed(k)
    BY <1>1 DEF SyncInv, Typed
  <2>2. CASE k[1].what = "activity" /\ IsStored(k)
    BY <1>1, <2>2 DEF IsStored, Backed
  <2>3. CASE k[1].what # "activity" /\ (IsStored(k) \/ k \in KeysOf(done))
    <3>1. IsStored(k)'
      BY <1>1, <1>2, <1>4, <1>5, <2>1, <2>3, UpsertKeeps
    <3>2. QED BY <3>1 DEF Backed
  <2>4. CASE k[1].what = "activity" /\ k \in KeysOf(done)
    <3>1. PICK row \in done : k = KeyOf(row)
      BY <2>4 DEF KeysOf
    <3>2. done = SpendRows(f.fresh)
      BY <1>2, <3>1
    <3>3. row[1].what = "spend" /\ k[1] = row[1]
      BY <1>5, <3>1, <3>2, KeyNamesRow DEF SpendRows
    <3>4. QED BY <2>4, <3>3
  <2>5. CASE k \in KeysOf(f.fresh) /\ k \notin KeysOf(done)
    <3>1. k \in KeysOf(f.fresh \ done)
      BY <2>5 DEF KeysOf
    <3>2. QED BY <1>2, <3>1 DEF Backed
  <2>6. CASE k \in dropped
    BY <1>2, <2>6 DEF Backed
  <2>7. ASSUME NEW q \in Procs, q # p,
               k \in KeysOf(flow[q].fresh) \/ (flow[q].at = "release" /\ flow[q].c = k[1].c)
        PROVE  Backed(k)'
    BY <1>4, <2>7, OthersBack
  <2>8. QED BY <1>1, <2>1, <2>2, <2>3, <2>4, <2>5, <2>6, <2>7 DEF Backed
<1>8. QED BY <1>1, <1>3, <1>6, <1>7, Parts

\* A statement that fails drops what it may have purged, and what a release was to set right.
LEMMA StatementFailsStep == ASSUME SyncInv, NEW p \in Procs, StatementFails(p) PROVE SyncInv'
<1> DEFINE f == flow[p]
           g == [f EXCEPT !.at = "fail", !.code = "SYNC_FAILED"]
           due == IF f.at = "release" THEN {k \in ledger : k[1].c = f.c /\ ~ IsStored(k)} ELSE {}
<1>1. /\ Typed /\ FlowOk(f, KindOf) /\ f.at \in {"purge", "release", "reserve"}
      /\ flow' = [flow EXCEPT ![p] = g] /\ UNCHANGED <<provider, conn, ledger, activity>>
  BY DEF StatementFails, SyncInv
<1>2. PICK gone \in {{}, IF f.at = "purge" THEN Purged(f) ELSE {}} :
        stored' = stored \ gone /\ dropped' = dropped \union (ledger \intersect KeysOf(gone)) \union due
  BY DEF StatementFails
<1> HIDE DEF due
<1>3. FlowOk(g, KindOf) /\ f.fresh = {}
  BY <1>1 DEF FlowOk, IsFlow, Fields
<1> HIDE DEF g
<1>4. flow'[p] = g /\ (\A q \in Procs : q # p => flow'[q] = flow[q]) /\ KindOf' = KindOf
  BY <1>1, FlowStep, ConnSame
<1>5. ledger' \subseteq Keys /\ stored' \subseteq Rows /\ activity' \in [Records -> 0..MaxCount]
  BY <1>1, <1>2 DEF Typed
<1>6. ASSUME NEW k \in ledger' PROVE Backed(k)'
  <2>1. k \in ledger /\ Backed(k)
    BY <1>1 DEF SyncInv
  <2>2. CASE IsStored(k)
    <3>1. CASE k[1].what = "activity"
      BY <1>1, <2>2, <3>1 DEF IsStored, Backed
    <3>2. CASE k[1].what # "activity"
      <4>1. PICK row \in stored : KeyOf(row) = k
        BY <2>2, <3>2 DEF IsStored
      <4>2. KeyOf(row)' = k
        BY <1>1, <1>4, <4>1, KeyStays DEF Typed
      <4>3. CASE row \notin gone
        BY <1>2, <3>2, <4>1, <4>2, <4>3 DEF IsStored, Backed
      <4>4. CASE row \in gone
        BY <1>2, <2>1, <4>1, <4>4 DEF KeysOf, Backed
      <4>5. QED BY <4>3, <4>4
    <3>3. QED BY <3>1, <3>2
  <2>3. CASE k \in dropped
    BY <1>2, <2>3 DEF Backed
  <2>4. CASE f.at = "release" /\ f.c = k[1].c /\ ~ IsStored(k)
    <3>1. k \in due
      BY <2>1, <2>4 DEF due
    <3>2. QED BY <1>2, <3>1 DEF Backed
  <2>5. ASSUME NEW q \in Procs, q # p,
               k \in KeysOf(flow[q].fresh) \/ (flow[q].at = "release" /\ flow[q].c = k[1].c)
        PROVE  Backed(k)'
    BY <1>4, <2>5, OthersBack
  <2>6. k \notin KeysOf(f.fresh)
    BY <1>3 DEF KeysOf
  <2>7. QED BY <2>1, <2>2, <2>3, <2>4, <2>5, <2>6 DEF Backed
<1>7. QED BY <1>1, <1>3, <1>5, <1>6, Parts

\* A restart drops the keys whose rows are not in.
LEMMA CrashStep == ASSUME SyncInv, Crash PROVE SyncInv'
<1>1. /\ Typed /\ flow' = [p \in Procs |-> Idle] /\ dropped' = dropped \union {k \in ledger : ~ IsStored(k)}
      /\ UNCHANGED <<provider, conn, ledger, stored, activity>>
  BY DEF Crash, SyncInv
<1>2. ConnTyped' /\ KindOf' = KindOf
  BY <1>1, ConnSame
<1>3. flow' = [p \in Procs |-> flow'[p]]
  BY <1>1
<1>4. Typed'
  BY <1>1, <1>2, <1>3 DEF Typed
<1>5. \A p \in Procs : FlowOk(flow'[p], KindOf')
  BY <1>1, IdleOk
<1>6. ASSUME NEW k \in ledger' PROVE Backed(k)'
  <2>1. CASE IsStored(k)
    <3>1. IsStored(k)'
      BY <1>1, <1>2, <2>1, StoredStays DEF Typed
    <3>2. QED BY <3>1 DEF Backed
  <2>2. CASE ~ IsStored(k)
    BY <1>1, <2>2 DEF Backed
  <2>3. QED BY <2>1, <2>2
<1>7. QED BY <1>4, <1>5, <1>6 DEF SyncInv
-----------------------------------------------------------------------------
(***************************************************************************)
(* The theorems.                                                           *)
(***************************************************************************)
LEMMA InitInv == Init => SyncInv
<1> SUFFICES ASSUME Init PROVE SyncInv
  OBVIOUS
<1>1. /\ ledger = {} /\ stored = {} /\ flow = [p \in Procs |-> Idle]
      /\ activity = [r \in Records |-> 0]
      /\ provider = [r \in Records |-> IF r.what = "spend" THEN "none" ELSE "free"]
  BY DEF Init
<1>2. provider \in [Records -> Prices \union {"none"}] /\ activity \in [Records -> 0..MaxCount]
  BY <1>1, ConnectorAssumption DEF Prices
<1>3. ConnTyped
  <2>1. conn \in [Connectors -> [kind : Kinds, status : {"connected"}, age : {0}, enabled : {TRUE},
                                 base : {0}, through : {0}]]
    BY DEF Init
  <2>2. \A c \in Connectors : IsConn(conn[c])
    BY <2>1 DEF IsConn
  <2>3. conn = [c \in Connectors |-> conn[c]]
    BY <2>1
  <2>4. QED BY <2>2, <2>3 DEF ConnTyped
<1>4. flow = [p \in Procs |-> flow[p]] /\ \A p \in Procs : FlowOk(flow[p], KindOf)
  BY <1>1, IdleOk
<1>5. QED BY <1>1, <1>2, <1>3, <1>4 DEF SyncInv, Typed

LEMMA NextInv == SyncInv /\ [Next]_vars => SyncInv'
<1> SUFFICES ASSUME SyncInv, [Next]_vars PROVE SyncInv'
  OBVIOUS
<1>1. CASE NextDay \/ Expunge
  BY <1>1, NextDayStep, ExpungeStep
<1>2. CASE Crash
  BY <1>2, CrashStep
<1>3. CASE \E r \in Records : Report(r)
  BY <1>3, ReportStep
<1>4. ASSUME NEW c \in Connectors,
             Older(c) \/ UpdateConnectorHandoff(c) \/ UpdateConnector(c) \/ BeginManual(c) \/ BeginScheduled(c)
      PROVE  SyncInv'
  BY <1>4, OlderStep, HandoffStep, UpdateStep, BeginsStep
<1>5. ASSUME NEW p \in Procs, Work(p) \/ AdoFails(p) \/ StatementFails(p) \/ InsertFails(p)
      PROVE  SyncInv'
  BY <1>5, MarkStep, FetchStep, PurgeStep, ReleaseStep, ReserveStep, InsertStep, EndsStep,
     AdoFailsStep, StatementFailsStep, InsertFailsStep DEF Work
<1>6. CASE UNCHANGED vars
  <2>1. ConnTyped' /\ KindOf' = KindOf
    BY <1>6, ConnSame DEF SyncInv, vars
  <2>2. QED BY <1>6, <2>1, QuietStep DEF SyncInv, Typed, vars
<1>7. QED BY <1>1, <1>2, <1>3, <1>4, <1>5, <1>6 DEF Next

THEOREM SyncInvariant == Spec => []SyncInv
<1>1. QED BY InitInv, NextInv, PTL DEF Spec

\* However syncs, purges, failing statements and restarts interleave, for any number of
\* connectors: every key the import ledger holds has its row, or a sync of its connector
\* answers for it, or what cost it the row is on record.
THEOREM LedgerIsBacked == Spec => []LedgerBacked
<1>1. SyncInv => LedgerBacked
  BY DEF SyncInv, LedgerBacked, Backed
<1>2. QED BY <1>1, SyncInvariant, PTL

\* Billed spend is given up only for a row of the same key, or in the purge of a sync that has
\* fetched all its windows, the companion for activity included, without an error
\* (connectors.service.ts, connector-engine.ts).
THEOREM PriorSpendKept == Spec => ErasedOnlyWhenComplete
<1> DEFINE Kept == \A row \in stored : row[2] = "billed" /\ row \notin stored' =>
                     \/ \E p \in Procs : flow[p].at = "purge" /\ flow[p].todo = <<>> /\ ~ flow[p].errors
                     \/ KeyOf(row) \in KeysOf(stored')
<1>1. ASSUME SyncInv, [Next]_vars PROVE Kept
  <2>1. CASE UNCHANGED stored
    BY <2>1
  <2>2. ASSUME NEW p \in Procs, NEW done, stored' = Upserted(done) PROVE Kept
    BY <2>2 DEF Upserted, KeysOf
  <2>3. ASSUME NEW p \in Procs, flow[p].at = "purge", stored \ Purged(flow[p]) \subseteq stored' PROVE Kept
    <3>1. FlowOk(flow[p], KindOf) /\ flow[p].c \in Connectors
      BY <1>1, <2>3 DEF SyncInv, FlowOk
    <3>2. CASE conn[flow[p].c].kind = "cursor"
      BY <2>3, <3>1, <3>2 DEF FlowOk, KindOf
    <3>3. CASE conn[flow[p].c].kind # "cursor"
      <4>1. \A row \in stored : row[2] = "billed" => row \notin Purged(flow[p])
        BY <3>3 DEF Purged
      <4>2. QED BY <2>3, <4>1
    <3>4. QED BY <3>2, <3>3
  <2>4. ASSUME NEW p \in Procs, Work(p) \/ AdoFails(p) \/ StatementFails(p) \/ InsertFails(p) PROVE Kept
    <3>1. CASE Purge(p)
      BY <2>3, <3>1 DEF Purge
    <3>2. CASE Insert(p)
      BY <2>2, <3>2 DEF Insert
    <3>3. CASE InsertFails(p)
      BY <2>2, <3>3 DEF InsertFails
    <3>4. CASE StatementFails(p)
      <4>1. PICK gone \in {{}, IF flow[p].at = "purge" THEN Purged(flow[p]) ELSE {}} : stored' = stored \ gone
        BY <3>4 DEF StatementFails
      <4>2. CASE gone = {}
        BY <2>1, <4>1, <4>2
      <4>3. CASE gone # {}
        BY <2>3, <4>1, <4>3
      <4>4. QED BY <4>2, <4>3
    <3>5. CASE Mark(p) \/ RunSyncOrchestrator(p) \/ Release(p) \/ Reserve(p) \/ Finish(p) \/ FinishAdo(p)
               \/ Fail(p) \/ AdoFails(p)
      BY <2>1, <3>5 DEF Mark, RunSyncOrchestrator, Release, Reserve, Finish, FinishAdo, Fail, AdoFails
    <3>6. QED BY <2>4, <3>1, <3>2, <3>3, <3>4, <3>5 DEF Work
  <2>5. CASE NextDay \/ Crash \/ Expunge \/ \E r \in Records : Report(r)
    BY <2>1, <2>5 DEF NextDay, Crash, Expunge, Report
  <2>6. CASE \E c \in Connectors : Older(c) \/ UpdateConnectorHandoff(c) \/ UpdateConnector(c)
                                    \/ BeginManual(c) \/ BeginScheduled(c)
    BY <2>1, <2>6 DEF Older, UpdateConnectorHandoff, UpdateConnector, BeginManual, BeginScheduled
  <2>7. CASE UNCHANGED vars
    BY <2>1, <2>7 DEF vars
  <2> HIDE DEF Kept
  <2>8. QED BY <1>1, <2>4, <2>5, <2>6, <2>7 DEF Next
<1>2. QED BY <1>1, SyncInvariant, PTL DEF Spec, ErasedOnlyWhenComplete
=============================================================================
