-------------------------- MODULE PortalImportProofs --------------------------
(***************************************************************************)
(* Proofs, for any files, people, uploads and failures, that an upload     *)
(* replaces the spend of its days, that stored spend can be traced to its  *)
(* run, and that deleted runs leave nothing behind.                        *)
(***************************************************************************)
EXTENDS ApiServices, SumsProofs

ImportableRows == UNION {AllRows(files) : files \in Batches}

\* An upload is a record of these fields.
Fields(u) == u = [at |-> u.at, rows |-> u.rows, won |-> u.won, conn |-> u.conn, seen |-> u.seen, made |-> u.made]

UploadOk(r) ==
  /\ Fields(up[r]) /\ up[r].at \in Steps
  /\ up[r].rows \subseteq ImportableRows
  \* Only rows of its own files are written.
  /\ up[r].won \subseteq up[r].rows
  /\ r > uploads => up[r].at = "none"
  \* A run is recorded after its rows are in: none of them arrives later.
  /\ runs[r] # "none" => up[r].at \in {"audit", "done"}
  /\ up[r].at = "audit" => runs[r] # "none"

Typed ==
  /\ uploads \in 0..MaxUploads
  /\ DOMAIN up = Runs
  /\ runs \in [Runs -> {"none", "active", "deleted"}]
  /\ calls \subseteq [row : ImportableRows \union LegacyRows, run : Runs \union {Legacy}]
  /\ doomed \subseteq calls
  /\ tiers \in [Seats -> {None, "basic", "premium"}]

\* The rows of a run that is being deleted stay away: its upload is over.
DeletionOk ==
  /\ DOMAIN del = {"at", "run", "keys"}
  /\ del.at \in {"none", "rows", "keys", "mark"}
  /\ del.at # "none" => del.run \in Runs /\ runs[del.run] # "none"
  /\ del.at \in {"keys", "mark"} => \A c \in Standing : c.run # del.run

NoneOfDeleted == \A c \in Standing : c.run \in Runs => runs[c.run] # "deleted"

\* What Purge took away stays away until the upload has inserted its own rows.
Purged ==
  ~ overlapped =>
    \A r \in Runs :
      /\ \A s \in Runs : r \in InProgress /\ s \in InProgress => r = s
      /\ up[r].at \in {"release", "reserve", "insert"} =>
           \A c \in Standing : ~ InPurgeWindow(up[r].rows, c.row.provider, c.row.day)

IInv ==
  /\ Typed /\ (\A r \in Runs : UploadOk(r)) /\ DeletionOk
  /\ NoneOfDeleted /\ Purged /\ OneRunPerDay /\ RowsTraceable
-----------------------------------------------------------------------------
(***************************************************************************)
(* The days of a row, and the window of days that an upload purges.        *)
(***************************************************************************)
LEMMA RowDay ==
  ASSUME NEW x \in ImportableRows
  PROVE  x.day \in 0..LastDay
<1>1. PICK files \in Batches : x \in AllRows(files)
  BY DEF ImportableRows
<1>2. PICK f \in files : x \in ParsedRows(f)
  BY <1>1 DEF AllRows
<1>3. PICK line \in f.lines : x = RowOf(f, line)
  BY <1>2 DEF ParsedRows, ParseGrid
<1>4. x.day = DayOf(f, line)
  BY <1>3 DEF RowOf
<1>5. f.reportTo \in 0..LastDay /\ line.day \in 0..LastDay
  BY <1>1, <1>2, <1>3, CalendarAssumption
<1>6. QED BY <1>4, <1>5 DEF DayOf

\* A set of days of the calendar has a first and a last one.
LEMMA FirstAndLast ==
  ASSUME NEW T \in SUBSET (0..LastDay), T # {}
  PROVE  /\ \E d \in T : \A e \in T : d <= e
         /\ \E d \in T : \A e \in T : d >= e
<1>1. LastDay \in Nat /\ T \in SUBSET Nat
  BY CalendarAssumption
<1>2. \E d \in T : \A e \in T : d <= e
  BY <1>1, LeastElement
<1>3. \E d \in T : \A e \in T : d >= e
  <2> DEFINE U == {LastDay - d : d \in T}
  <2>1. U \in SUBSET Nat /\ U # {}
    <3>1. \A d \in T : LastDay - d \in Nat
      BY <1>1
    <3>2. PICK d : d \in T
      OBVIOUS
    <3>3. LastDay - d \in U
      BY <3>2
    <3>4. QED BY <3>1, <3>3
  <2>2. PICK u \in U : \A v \in U : u <= v
    BY <2>1, LeastElement
  <2>3. PICK d \in T : u = LastDay - d
    OBVIOUS
  <2>4. ASSUME NEW e \in T PROVE d >= e
    <3>1. LastDay - e \in U /\ d \in Nat /\ e \in Nat
      BY <1>1
    <3>2. LastDay - d <= LastDay - e
      BY <2>2, <2>3, <3>1
    <3>3. QED BY <1>1, <3>1, <3>2
  <2>5. QED BY <2>4
<1>4. QED BY <1>2, <1>3

\* The window of an upload covers every row it is about to write.
LEMMA WindowCovers ==
  ASSUME NEW rows \in SUBSET ImportableRows, NEW x \in rows
  PROVE  InPurgeWindow(rows, x.provider, x.day)
<1>1. PICK own : own = OfProvider(rows, x.provider)
  OBVIOUS
<1>2. x \in own /\ own \subseteq ImportableRows
  BY <1>1 DEF OfProvider
<1>3. Days(own) \in SUBSET (0..LastDay) /\ x.day \in Days(own)
  BY <1>2, RowDay DEF Days
<1>4. /\ \E d \in Days(own) : \A e \in Days(own) : d <= e
      /\ \E d \in Days(own) : \A e \in Days(own) : d >= e
  BY <1>3, FirstAndLast
<1>5. Earliest(own) \in Days(own) /\ \A e \in Days(own) : Earliest(own) <= e
  BY <1>4 DEF Earliest
<1>6. Latest(own) \in Days(own) /\ \A e \in Days(own) : Latest(own) >= e
  BY <1>4 DEF Latest
<1>7. Earliest(own) <= x.day /\ x.day <= Latest(own)
  BY <1>3, <1>5, <1>6
<1>8. x.provider \in ProvidersUsed(rows)
  BY DEF ProvidersUsed
<1>9. QED BY <1>1, <1>7, <1>8 DEF InPurgeWindow
-----------------------------------------------------------------------------
(***************************************************************************)
(* Uploads.                                                                *)
(***************************************************************************)
\* An upload with one field changed.
LEMMA SetStep ==
  ASSUME NEW u, Fields(u), NEW v, NEW w, w = [u EXCEPT !.at = v]
  PROVE  Fields(w) /\ w.at = v /\ w.rows = u.rows /\ w.won = u.won
BY DEF Fields

LEMMA SetRows ==
  ASSUME NEW u, Fields(u), NEW v, NEW w, w = [u EXCEPT !.rows = v]
  PROVE  Fields(w) /\ w.at = u.at /\ w.rows = v /\ w.won = u.won
BY DEF Fields

LEMMA SetWon ==
  ASSUME NEW u, Fields(u), NEW v, NEW w, w = [u EXCEPT !.won = v]
  PROVE  Fields(w) /\ w.at = u.at /\ w.rows = u.rows /\ w.won = v
BY DEF Fields

LEMMA SetOther ==
  ASSUME NEW u, Fields(u), NEW v, NEW w,
         w = [u EXCEPT !.conn = v] \/ w = [u EXCEPT !.seen = v] \/ w = [u EXCEPT !.made = v]
  PROVE  Fields(w) /\ w.at = u.at /\ w.rows = u.rows /\ w.won = u.won
BY DEF Fields

LEMMA EmptyUpload == Fields(NoUpload) /\ NoUpload.at = "none" /\ NoUpload.rows = {} /\ NoUpload.won = {}
BY DEF Fields, NoUpload

\* What is known of an upload in progress.
LEMMA UploadFacts ==
  ASSUME IInv, NEW r \in Runs
  PROVE  /\ Fields(up[r]) /\ up[r].at \in Steps /\ up[r].rows \subseteq ImportableRows
         /\ up[r].won \subseteq up[r].rows
         /\ (r > uploads => up[r].at = "none")
         /\ (runs[r] # "none" => up[r].at \in {"audit", "done"})
         /\ (up[r].at = "audit" => runs[r] # "none")
BY DEF IInv, UploadOk

\* One upload goes on, or ends; the others stay.
LEMMA OneUpload ==
  ASSUME IInv, NEW r \in Runs, NEW w, up' = [up EXCEPT ![r] = w],
         Fields(w), w.at \in Steps, w.rows \subseteq ImportableRows, w.won \subseteq w.rows,
         up[r].at # "none", UNCHANGED uploads,
         runs'[r] # "none" => w.at \in {"audit", "done"}, w.at = "audit" => runs'[r] # "none",
         \A s \in Runs : s # r => runs'[s] = runs[s]
  PROVE  /\ DOMAIN up' = Runs /\ up'[r] = w /\ (\A s \in Runs : s # r => up'[s] = up[s])
         /\ \A s \in Runs : UploadOk(s)'
<1>1. /\ DOMAIN up' = Runs /\ up'[r] = w /\ (\A s \in Runs : s # r => up'[s] = up[s])
  BY DEF IInv, Typed
<1>2. ~ (r > uploads)
  BY UploadFacts
<1>3. UploadOk(r)'
  BY <1>1, <1>2 DEF UploadOk
<1>4. ASSUME NEW s \in Runs, s # r PROVE UploadOk(s)'
  BY <1>1, <1>4 DEF IInv, UploadOk
<1>5. QED BY <1>1, <1>3, <1>4

\* A step of upload r that stores nothing and records no run: it gets on to the next step, or breaks off.
LEMMA UploadQuiet ==
  ASSUME IInv, NEW r \in InProgress, NEW w, up' = [up EXCEPT ![r] = w],
         Fields(w), w.rows \subseteq ImportableRows, w.won \subseteq w.rows,
         \/ /\ up[r].at # "audit" /\ w.at \in Steps \ {"none", "audit", "done"} /\ failed' = failed
            /\ w.at \in {"release", "reserve", "insert"} => up[r].at \in {"release", "reserve"} /\ w.rows = up[r].rows
         \/ w.at = "done" /\ failed' = failed \union {r},
         UNCHANGED <<calls, doomed, Standing, runs, del, uploads, overlapped>>, tiers' \in [Seats -> {None, "basic", "premium"}]
  PROVE  IInv'
<1>1. r \in Runs /\ up[r].at \notin {"none", "done"}
  BY DEF InProgress
<1>2. w.at \in Steps /\ w.at \notin {"none", "audit"}
  BY DEF Steps
<1>3. runs[r] # "none" => w.at = "done"
  BY <1>1, UploadFacts
<1>4. /\ DOMAIN up' = Runs /\ up'[r] = w /\ (\A s \in Runs : s # r => up'[s] = up[s])
      /\ \A s \in Runs : UploadOk(s)'
  BY <1>1, <1>2, <1>3, OneUpload
<1>5. Typed' /\ DeletionOk' /\ NoneOfDeleted' /\ OneRunPerDay'
  BY <1>4 DEF IInv, Typed, DeletionOk, NoneOfDeleted, OneRunPerDay
<1>6. InProgress' \subseteq InProgress /\ InProgress \subseteq InProgress' \union failed' /\ failed \subseteq failed'
  BY <1>1, <1>2, <1>4 DEF InProgress
<1>7. RowsTraceable'
  BY <1>6 DEF IInv, RowsTraceable
<1>8. ASSUME NEW s \in Runs, up'[s].at \in {"release", "reserve", "insert"}
      PROVE  up[s].at \in {"release", "reserve", "insert"} /\ up'[s].rows = up[s].rows
  BY <1>4, <1>8
<1>9. Purged'
  BY <1>6, <1>8 DEF IInv, Purged
<1>10. QED BY <1>4, <1>5, <1>7, <1>9 DEF IInv
-----------------------------------------------------------------------------
(***************************************************************************)
(* The steps of an upload.                                                 *)
(***************************************************************************)
\* What a step that only moves an upload on makes of it.
LEMMA Moves ==
  ASSUME IInv, NEW r \in Runs, NEW step, Goto(r, step)
  PROVE  \E w : /\ up' = [up EXCEPT ![r] = w]
                /\ Fields(w) /\ w.at = step /\ w.rows = up[r].rows /\ w.won = up[r].won
<1>1. PICK u : u = up[r]
  OBVIOUS
<1>2. PICK w : w = [u EXCEPT !.at = step]
  OBVIOUS
<1>3. up' = [up EXCEPT ![r] = w]
  BY <1>1, <1>2 DEF Goto
<1>4. Fields(w) /\ w.at = step /\ w.rows = up[r].rows /\ w.won = up[r].won
  BY <1>1, <1>2, UploadFacts, SetStep
<1>5. QED BY <1>3, <1>4

\* An upload that ends, well or not, is forgotten.
LEMMA Ends ==
  ASSUME NEW r \in Runs, up' = [up EXCEPT ![r] = [NoUpload EXCEPT !.at = "done"]]
  PROVE  \E w : /\ up' = [up EXCEPT ![r] = w]
                /\ Fields(w) /\ w.at = "done" /\ w.rows = {} /\ w.won = {}
<1>1. PICK u : u = NoUpload
  OBVIOUS
<1>2. PICK w : w = [u EXCEPT !.at = "done"]
  OBVIOUS
<1>3. up' = [up EXCEPT ![r] = w]
  BY <1>1, <1>2
<1>4. Fields(w) /\ w.at = "done" /\ w.rows = {} /\ w.won = {}
  BY <1>1, <1>2, EmptyUpload, SetStep
<1>5. QED BY <1>3, <1>4

LEMMA TiersTyped == ASSUME IInv PROVE tiers \in [Seats -> {None, "basic", "premium"}]
BY DEF IInv, Typed

\* A step that breaks off.
LEMMA BreakOffStep ==
  ASSUME IInv, NEW r \in InProgress, BreakOff(r), UNCHANGED <<calls, doomed, Standing, runs, del, uploads, overlapped, tiers>>
  PROVE  IInv'
<1>1. r \in Runs
  BY DEF InProgress
<1>2. PICK w : up' = [up EXCEPT ![r] = w] /\ Fields(w) /\ w.at = "done" /\ w.rows = {} /\ w.won = {}
  BY <1>1, Ends DEF BreakOff
<1>3. failed' = failed \union {r}
  BY DEF BreakOff
<1>4. tiers' \in [Seats -> {None, "basic", "premium"}]
  BY TiersTyped
<1>5. QED BY <1>2, <1>3, <1>4, UploadQuiet

\* A step that moves on without storing spend.
LEMMA GotoStep ==
  ASSUME IInv, NEW r \in Runs, NEW step \in {"reserve", "handoff", "run"}, Goto(r, step),
         up[r].at \in Steps \ {"none", "audit", "done"}, step = "reserve" => up[r].at = "release",
         UNCHANGED <<calls, doomed, Standing, runs, del, uploads, overlapped, failed>>, tiers' \in [Seats -> {None, "basic", "premium"}]
  PROVE  IInv'
<1>1. PICK w : /\ up' = [up EXCEPT ![r] = w]
               /\ Fields(w) /\ w.at = step /\ w.rows = up[r].rows /\ w.won = up[r].won
  BY Moves
<1>2. w.rows \subseteq ImportableRows /\ w.won \subseteq w.rows /\ r \in InProgress
  BY <1>1, UploadFacts DEF InProgress
<1>3. /\ up[r].at # "audit" /\ w.at \in Steps \ {"none", "audit", "done"} /\ failed' = failed
      /\ w.at \in {"release", "reserve", "insert"} => up[r].at \in {"release", "reserve"} /\ w.rows = up[r].rows
  BY <1>1 DEF Steps
<1>4. QED BY <1>1, <1>2, <1>3, UploadQuiet

LEMMA QuietSteps ==
  ASSUME IInv, NEW r \in Runs, ReleaseKeys(r) \/ SyncSeats(r) \/ Handoff(r) \/ UploadFails(r)
  PROVE  IInv'
<1>1. CASE ReleaseKeys(r)
  <2>1. /\ up[r].at = "release" /\ Goto(r, "reserve") /\ tiers' = tiers
        /\ UNCHANGED <<calls, doomed, Standing, runs, del, uploads, overlapped, failed>>
    BY <1>1 DEF ReleaseKeys, Standing
  <2>2. PICK step : step = "reserve"
    OBVIOUS
  <2>3. QED BY <2>1, <2>2, TiersTyped, GotoStep DEF Steps
<1>2. CASE SyncSeats(r)
  <2>1. /\ up[r].at = "seats" /\ UNCHANGED <<calls, doomed, Standing, runs, del, uploads, overlapped>>
        /\ \/ BreakOff(r) /\ UNCHANGED tiers
           \/ /\ tiers' = [s \in Seats |-> IF s \in up[r].seen THEN "basic" ELSE tiers[s]]
              /\ Goto(r, "handoff") /\ UNCHANGED failed
    BY <1>2 DEF SyncSeats, Standing
  <2>2. r \in InProgress
    BY <2>1 DEF InProgress
  <2>3. CASE BreakOff(r) /\ UNCHANGED tiers
    BY <2>1, <2>2, <2>3, BreakOffStep
  <2>4. CASE /\ tiers' = [s \in Seats |-> IF s \in up[r].seen THEN "basic" ELSE tiers[s]]
             /\ Goto(r, "handoff") /\ UNCHANGED failed
    <3>1. tiers' \in [Seats -> {None, "basic", "premium"}]
      BY <2>4, TiersTyped
    <3>2. PICK step : step = "handoff"
      OBVIOUS
    <3>3. QED BY <2>1, <2>4, <3>1, <3>2, GotoStep DEF Steps
  <2>5. QED BY <2>1, <2>3, <2>4
<1>3. CASE Handoff(r)
  <2>1. /\ up[r].at = "handoff" /\ UNCHANGED <<calls, doomed, Standing, runs, del, uploads, overlapped, tiers>>
        /\ BreakOff(r) \/ (Goto(r, "run") /\ UNCHANGED failed)
    BY <1>3 DEF Handoff, Standing
  <2>2. r \in InProgress
    BY <2>1 DEF InProgress
  <2>3. CASE BreakOff(r)
    BY <2>1, <2>2, <2>3, BreakOffStep
  <2>4. CASE Goto(r, "run") /\ UNCHANGED failed
    <3>1. PICK step : step = "run"
      OBVIOUS
    <3>2. tiers' \in [Seats -> {None, "basic", "premium"}]
      BY <2>1, TiersTyped
    <3>3. QED BY <2>1, <2>4, <3>1, <3>2, GotoStep DEF Steps
  <2>5. QED BY <2>1, <2>3, <2>4
<1>4. CASE UploadFails(r)
  BY <1>4, BreakOffStep DEF UploadFails, Standing
<1>5. QED BY <1>1, <1>2, <1>3, <1>4

LEMMA ReserveStep == ASSUME IInv, NEW r \in Runs, Reserve(r) PROVE IInv'
<1>1. /\ up[r].at = "reserve" /\ UNCHANGED <<calls, doomed, Standing, runs, del, uploads, overlapped, failed, tiers>>
      /\ up' = [up EXCEPT ![r].at = "insert", ![r].won = @ \union (up[r].rows \ ledger)]
  BY DEF Reserve, Standing
<1>2. PICK u : u = up[r]
  OBVIOUS
<1>3. PICK v : v = [u EXCEPT !.at = "insert"]
  OBVIOUS
<1>4. PICK w : w = [v EXCEPT !.won = u.won \union (u.rows \ ledger)]
  OBVIOUS
<1>5. Fields(v) /\ v.at = "insert" /\ v.rows = u.rows /\ v.won = u.won
  BY <1>2, <1>3, UploadFacts, SetStep
<1>6. Fields(w) /\ w.at = "insert" /\ w.rows = u.rows /\ w.won = u.won \union (u.rows \ ledger)
  BY <1>4, <1>5, SetWon
<1>7. up' = [up EXCEPT ![r] = w]
  BY <1>1, <1>2, <1>3, <1>4, <1>5
<1>8. w.rows \subseteq ImportableRows /\ w.won \subseteq w.rows /\ r \in InProgress
  BY <1>1, <1>2, <1>6, UploadFacts DEF InProgress
<1>9. /\ up[r].at # "audit" /\ w.at \in Steps \ {"none", "audit", "done"} /\ failed' = failed
      /\ w.at \in {"release", "reserve", "insert"} => up[r].at \in {"release", "reserve"} /\ w.rows = up[r].rows
  BY <1>1, <1>2, <1>6 DEF Steps
<1>10. QED BY <1>1, <1>6, <1>7, <1>8, <1>9, UploadQuiet, TiersTyped

LEMMA MatchStep == ASSUME IInv, NEW r \in Runs, MatchIdentities(r) PROVE IInv'
<1>1. /\ up[r].at = "match" /\ UNCHANGED <<calls, doomed, Standing, runs, del, uploads, overlapped, failed, tiers>>
      /\ \E a, b : up' = [up EXCEPT ![r].at = "seats", ![r].seen = a, ![r].made = b]
  BY DEF MatchIdentities, Standing
<1>2. PICK a, b : up' = [up EXCEPT ![r].at = "seats", ![r].seen = a, ![r].made = b]
  BY <1>1
<1>3. PICK u : u = up[r]
  OBVIOUS
<1>4. PICK v : v = [u EXCEPT !.at = "seats"]
  OBVIOUS
<1>5. PICK x : x = [v EXCEPT !.seen = a]
  OBVIOUS
<1>6. PICK w : w = [x EXCEPT !.made = b]
  OBVIOUS
<1>7. Fields(v) /\ v.at = "seats" /\ v.rows = u.rows /\ v.won = u.won
  BY <1>3, <1>4, UploadFacts, SetStep
<1>8. Fields(x) /\ x.at = "seats" /\ x.rows = u.rows /\ x.won = u.won
  BY <1>5, <1>7, SetOther
<1>9. Fields(w) /\ w.at = "seats" /\ w.rows = u.rows /\ w.won = u.won
  BY <1>6, <1>8, SetOther
<1>10. up' = [up EXCEPT ![r] = w]
  BY <1>2, <1>3, <1>4, <1>5, <1>6
<1>11. w.rows \subseteq ImportableRows /\ w.won \subseteq w.rows /\ r \in InProgress
  BY <1>1, <1>3, <1>9, UploadFacts DEF InProgress
<1>12. /\ up[r].at # "audit" /\ w.at \in Steps \ {"none", "audit", "done"} /\ failed' = failed
       /\ w.at \in {"release", "reserve", "insert"} => up[r].at \in {"release", "reserve"} /\ w.rows = up[r].rows
  BY <1>1, <1>9 DEF Steps
<1>13. QED BY <1>1, <1>9, <1>10, <1>11, <1>12, UploadQuiet, TiersTyped

\* The spend of the days that the upload covers is taken away.
LEMMA PurgeStep == ASSUME IInv, NEW r \in Runs, Purge(r) PROVE IInv'
<1>1. /\ up[r].at = "purge" /\ Goto(r, "release")
      /\ calls' = calls /\ doomed' \subseteq doomed \union calls
      /\ Standing' = {c \in Standing : ~ InPurgeWindow(up[r].rows, c.row.provider, c.row.day)}
      /\ UNCHANGED <<runs, del, uploads, overlapped, failed, tiers>>
  BY DEF Purge, Doom, Standing
<1>2. PICK w : /\ up' = [up EXCEPT ![r] = w]
               /\ Fields(w) /\ w.at = "release" /\ w.rows = up[r].rows /\ w.won = up[r].won
  <2>1. PICK step : step = "release"
    OBVIOUS
  <2>2. QED BY <1>1, <2>1, Moves
<1>3. runs[r] = "none"
  BY <1>1, UploadFacts
<1>4. /\ DOMAIN up' = Runs /\ up'[r] = w /\ (\A s \in Runs : s # r => up'[s] = up[s])
      /\ \A s \in Runs : UploadOk(s)'
  <2>1. w.at \in Steps /\ w.rows \subseteq ImportableRows /\ w.won \subseteq w.rows
    BY <1>2, UploadFacts DEF Steps
  <2>2. up[r].at # "none" /\ (runs'[r] # "none" => w.at \in {"audit", "done"}) /\ (w.at = "audit" => runs'[r] # "none")
    BY <1>1, <1>2, <1>3
  <2>3. \A s \in Runs : s # r => runs'[s] = runs[s]
    BY <1>1
  <2>4. QED BY <1>1, <1>2, <2>1, <2>2, <2>3, OneUpload
<1>5. Typed' /\ DeletionOk' /\ NoneOfDeleted' /\ OneRunPerDay'
  BY <1>1, <1>4 DEF IInv, Typed, DeletionOk, NoneOfDeleted, OneRunPerDay
<1>6. InProgress' = InProgress /\ r \in InProgress
  BY <1>1, <1>2, <1>4 DEF InProgress
<1>7. RowsTraceable'
  BY <1>1, <1>6 DEF IInv, RowsTraceable
<1>8. Purged'
  <2>1. ASSUME ~ overlapped, NEW s \in Runs, up'[s].at \in {"release", "reserve", "insert"}, NEW c \in Standing'
        PROVE  ~ InPurgeWindow(up'[s].rows, c.row.provider, c.row.day)
    <3>1. s = r
      BY <1>2, <1>4, <1>6, <2>1 DEF IInv, Purged, InProgress
    <3>2. QED BY <1>1, <1>2, <1>4, <2>1, <3>1
  <2>2. QED BY <1>1, <1>6, <2>1 DEF IInv, Purged
<1>9. QED BY <1>4, <1>5, <1>7, <1>8 DEF IInv

\* The rows are written: whatever else has their days has been purged, unless uploads overlap.
LEMMA InsertStep == ASSUME IInv, NEW r \in Runs, Insert(r) PROVE IInv'
<1> DEFINE old == {c \in Standing : c.row \notin up[r].won}
           new == {[row |-> x, run |-> r] : x \in up[r].won}
<1>1. /\ up[r].at = "insert" /\ Goto(r, "match")
      /\ calls' = calls \union new /\ doomed' \subseteq doomed \union calls
      /\ Standing' \subseteq old \union new
      /\ UNCHANGED <<runs, del, uploads, overlapped, failed, tiers>>
  BY DEF Insert, Doom, Standing
<1>2. PICK w : /\ up' = [up EXCEPT ![r] = w]
               /\ Fields(w) /\ w.at = "match" /\ w.rows = up[r].rows /\ w.won = up[r].won
  <2>1. PICK step : step = "match"
    OBVIOUS
  <2>2. QED BY <1>1, <2>1, Moves
<1>3. runs[r] = "none" /\ up[r].won \subseteq up[r].rows /\ up[r].rows \subseteq ImportableRows
  BY <1>1, UploadFacts
<1>4. /\ DOMAIN up' = Runs /\ up'[r] = w /\ (\A s \in Runs : s # r => up'[s] = up[s])
      /\ \A s \in Runs : UploadOk(s)'
  <2>1. w.at \in Steps /\ w.rows \subseteq ImportableRows /\ w.won \subseteq w.rows
    BY <1>2, <1>3 DEF Steps
  <2>2. up[r].at # "none" /\ (runs'[r] # "none" => w.at \in {"audit", "done"}) /\ (w.at = "audit" => runs'[r] # "none")
    BY <1>1, <1>2, <1>3
  <2>3. \A s \in Runs : s # r => runs'[s] = runs[s]
    BY <1>1
  <2>4. QED BY <1>1, <1>2, <2>1, <2>2, <2>3, OneUpload
<1>5. InProgress' = InProgress /\ r \in InProgress
  BY <1>1, <1>2, <1>4 DEF InProgress
<1>6. \A c \in new : c.run = r /\ c.row \in up[r].rows
  BY <1>3
<1> HIDE DEF old, new
<1>7. old \subseteq Standing
  BY DEF old
<1>8. Typed'
  <2>1. new \subseteq [row : ImportableRows \union LegacyRows, run : Runs \union {Legacy}]
    BY <1>3 DEF new
  <2>2. QED BY <1>1, <1>4, <1>7, <2>1 DEF IInv, Typed
<1>9. NoneOfDeleted' /\ RowsTraceable'
  BY <1>1, <1>3, <1>5, <1>6, <1>7 DEF IInv, NoneOfDeleted, RowsTraceable
<1>10. DeletionOk'
  BY <1>1, <1>3, <1>6, <1>7 DEF IInv, DeletionOk
<1>11. OneRunPerDay'
  <2>1. ASSUME ~ overlapped, NEW c \in old, NEW d \in new, c.row.provider = d.row.provider, c.row.day = d.row.day
        PROVE  FALSE
    <3>1. InPurgeWindow(up[r].rows, d.row.provider, d.row.day)
      BY <1>3, <1>6, WindowCovers
    <3>2. ~ InPurgeWindow(up[r].rows, c.row.provider, c.row.day)
      BY <1>1, <1>7, <2>1 DEF IInv, Purged
    <3>3. QED BY <2>1, <3>1, <3>2
  <2>2. ASSUME ~ overlapped, NEW c \in Standing', NEW d \in Standing', c.row.provider = d.row.provider, c.row.day = d.row.day
        PROVE  c.run = d.run
    <3>1. (c \in old \/ c \in new) /\ (d \in old \/ d \in new)
      BY <1>1, <2>2
    <3>2. CASE c \in old /\ d \in old
      BY <1>7, <2>2, <3>2 DEF IInv, OneRunPerDay
    <3>3. CASE c \in new /\ d \in new
      BY <1>6, <3>3
    <3>4. QED BY <2>1, <2>2, <3>1, <3>2, <3>3
  <2>3. QED BY <1>1, <2>2 DEF OneRunPerDay
<1>12. Purged'
  <2>1. ASSUME ~ overlapped, NEW s \in Runs PROVE up'[s].at \notin {"release", "reserve", "insert"}
    <3>1. CASE s = r
      BY <1>2, <1>4, <3>1
    <3>2. CASE s # r
      BY <1>4, <1>5, <2>1, <3>2 DEF IInv, Purged, InProgress
    <3>3. QED BY <3>1, <3>2
  <2>2. QED BY <1>1, <1>5, <2>1 DEF IInv, Purged
<1>13. QED BY <1>4, <1>8, <1>9, <1>10, <1>11, <1>12 DEF IInv

\* The run is recorded.
LEMMA RecordRunStep == ASSUME IInv, NEW r \in Runs, RecordRun(r) PROVE IInv'
<1>1. /\ up[r].at = "run" /\ Goto(r, "audit") /\ runs' = [runs EXCEPT ![r] = "active"]
      /\ UNCHANGED <<calls, doomed, Standing, del, uploads, overlapped, failed, tiers>>
  BY DEF RecordRun, Standing
<1>2. PICK w : /\ up' = [up EXCEPT ![r] = w]
               /\ Fields(w) /\ w.at = "audit" /\ w.rows = up[r].rows /\ w.won = up[r].won
  <2>1. PICK step : step = "audit"
    OBVIOUS
  <2>2. QED BY <1>1, <2>1, Moves
<1>3. /\ runs' \in [Runs -> {"none", "active", "deleted"}] /\ runs'[r] = "active"
      /\ \A s \in Runs : s # r => runs'[s] = runs[s]
  BY <1>1 DEF IInv, Typed
<1>4. /\ DOMAIN up' = Runs /\ up'[r] = w /\ (\A s \in Runs : s # r => up'[s] = up[s])
      /\ \A s \in Runs : UploadOk(s)'
  <2>1. w.at \in Steps /\ w.rows \subseteq ImportableRows /\ w.won \subseteq w.rows
    BY <1>2, UploadFacts DEF Steps
  <2>2. up[r].at # "none" /\ (runs'[r] # "none" => w.at \in {"audit", "done"}) /\ (w.at = "audit" => runs'[r] # "none")
    BY <1>1, <1>2, <1>3
  <2>3. QED BY <1>1, <1>2, <1>3, <2>1, <2>2, OneUpload
<1>5. InProgress' = InProgress
  BY <1>1, <1>2, <1>4 DEF InProgress
<1>6. Typed' /\ OneRunPerDay'
  BY <1>1, <1>3, <1>4 DEF IInv, Typed, OneRunPerDay
<1>7. DeletionOk'
  <2>1. del.at # "none" => runs'[del.run] # "none"
    BY <1>3 DEF IInv, DeletionOk
  <2>2. QED BY <1>1, <2>1 DEF IInv, DeletionOk
<1>8. NoneOfDeleted' /\ RowsTraceable'
  BY <1>1, <1>3, <1>5 DEF IInv, NoneOfDeleted, RowsTraceable, Typed
<1>9. Purged'
  <2>1. \A s \in Runs : up'[s].at \in {"release", "reserve", "insert"} => up'[s] = up[s]
    BY <1>2, <1>4
  <2>2. QED BY <1>1, <1>5, <2>1 DEF IInv, Purged
<1>10. QED BY <1>4, <1>6, <1>7, <1>8, <1>9 DEF IInv

\* The upload is over: its run has been recorded.
LEMMA RecordAuditStep == ASSUME IInv, NEW r \in Runs, RecordAudit(r) PROVE IInv'
<1>1. /\ up[r].at = "audit" /\ UNCHANGED <<calls, doomed, Standing, runs, del, uploads, overlapped, failed, tiers>>
      /\ up' = [up EXCEPT ![r] = [NoUpload EXCEPT !.at = "done"]]
  BY DEF RecordAudit, Standing
<1>2. PICK w : /\ up' = [up EXCEPT ![r] = w]
               /\ Fields(w) /\ w.at = "done" /\ w.rows = {} /\ w.won = {}
  BY <1>1, Ends
<1>3. runs[r] # "none"
  BY <1>1, UploadFacts
<1>4. /\ DOMAIN up' = Runs /\ up'[r] = w /\ (\A s \in Runs : s # r => up'[s] = up[s])
      /\ \A s \in Runs : UploadOk(s)'
  <2>1. w.at \in Steps /\ w.rows \subseteq ImportableRows /\ w.won \subseteq w.rows
    BY <1>2 DEF Steps
  <2>2. up[r].at # "none" /\ (runs'[r] # "none" => w.at \in {"audit", "done"}) /\ (w.at = "audit" => runs'[r] # "none")
    BY <1>1, <1>2, <1>3
  <2>3. \A s \in Runs : s # r => runs'[s] = runs[s]
    BY <1>1
  <2>4. QED BY <1>1, <1>2, <2>1, <2>2, <2>3, OneUpload
<1>5. InProgress' = InProgress \ {r}
  BY <1>1, <1>2, <1>4 DEF InProgress
<1>6. Typed' /\ DeletionOk' /\ NoneOfDeleted' /\ OneRunPerDay'
  BY <1>1, <1>4 DEF IInv, Typed, DeletionOk, NoneOfDeleted, OneRunPerDay
<1>7. RowsTraceable'
  <2>1. ASSUME NEW c \in Standing, c.run = r PROVE runs[r] = "active"
    <3>1. runs[r] # "deleted" /\ runs[r] \in {"none", "active", "deleted"}
      BY <2>1 DEF IInv, NoneOfDeleted, Typed
    <3>2. QED BY <1>3, <3>1
  <2>2. QED BY <1>1, <1>5, <2>1 DEF IInv, RowsTraceable
<1>8. Purged'
  <2>1. \A s \in Runs : up'[s].at \in {"release", "reserve", "insert"} => up'[s] = up[s]
    BY <1>2, <1>4
  <2>2. QED BY <1>1, <1>5, <2>1 DEF IInv, Purged
<1>9. QED BY <1>4, <1>6, <1>7, <1>8 DEF IInv

\* A new upload.
LEMMA UploadStep == ASSUME IInv, NEW files \in Batches, NEW conn, Upload(files, conn) PROVE IInv'
<1>1. /\ uploads < MaxUploads /\ uploads' = uploads + 1
      /\ overlapped' = (overlapped \/ InProgress # {})
      /\ UNCHANGED <<calls, doomed, Standing, runs, del, failed, tiers>>
  BY DEF Upload, Standing
<1>2. PICK r : r = uploads + 1
  OBVIOUS
<1>3. PICK n : n = NoUpload
  OBVIOUS
<1>4. PICK k : up' = [up EXCEPT ![r] = [n EXCEPT !.at = "purge", !.rows = AllRows(files), !.conn = k]]
  <2>1. PICK k : k = IF "anthropic" \in ProvidersUsed(AllRows(files)) THEN conn ELSE None
    OBVIOUS
  <2>2. up' = [up EXCEPT ![r] = [n EXCEPT !.at = "purge", !.rows = AllRows(files), !.conn = k]]
    BY <1>2, <1>3, <2>1 DEF Upload
  <2>3. QED BY <2>2
<1>5. PICK a : a = [n EXCEPT !.at = "purge"]
  OBVIOUS
<1>6. PICK b : b = [a EXCEPT !.rows = AllRows(files)]
  OBVIOUS
<1>7. PICK w : w = [b EXCEPT !.conn = k]
  OBVIOUS
<1>8. Fields(w) /\ w.at = "purge" /\ w.rows = AllRows(files) /\ w.won = {}
  <2>1. Fields(a) /\ a.at = "purge" /\ a.won = {}
    BY <1>3, <1>5, EmptyUpload, SetStep
  <2>2. Fields(b) /\ b.at = "purge" /\ b.rows = AllRows(files) /\ b.won = {}
    BY <1>6, <2>1, SetRows
  <2>3. QED BY <1>7, <2>2, SetOther
<1>9. up' = [up EXCEPT ![r] = w]
  BY <1>4, <1>5, <1>6, <1>7
<1>10. r \in Runs /\ uploads \in Nat /\ uploads' \in 0..MaxUploads /\ r > uploads
  BY <1>1, <1>2, ServicesAssumption DEF Runs, IInv, Typed
<1>11. up[r].at = "none" /\ runs[r] = "none"
  BY <1>10, UploadFacts
<1>12. DOMAIN up' = Runs /\ up'[r] = w /\ (\A s \in Runs : s # r => up'[s] = up[s])
  BY <1>9, <1>10 DEF IInv, Typed
<1>13. \A s \in Runs : UploadOk(s)'
  <2>1. UploadOk(r)'
    <3>1. w.rows \subseteq ImportableRows
      BY <1>8 DEF ImportableRows
    <3>2. ~ (r > uploads')
      BY <1>1, <1>2, <1>10
    <3>3. QED BY <1>1, <1>8, <1>11, <1>12, <3>1, <3>2 DEF UploadOk, Steps
  <2>2. ASSUME NEW s \in Runs, s # r PROVE UploadOk(s)'
    <3>1. s > uploads' => s > uploads
      BY <1>1, <1>10, <2>2 DEF Runs
    <3>2. QED BY <1>1, <1>12, <2>2, <3>1 DEF IInv, UploadOk
  <2>3. QED BY <2>1, <2>2
<1>14. Typed' /\ DeletionOk' /\ NoneOfDeleted' /\ OneRunPerDay'
  BY <1>1, <1>10, <1>12 DEF IInv, Typed, DeletionOk, NoneOfDeleted, OneRunPerDay
<1>15. InProgress' = InProgress \union {r}
  BY <1>8, <1>10, <1>12 DEF InProgress
<1>16. RowsTraceable'
  BY <1>1, <1>15 DEF IInv, RowsTraceable
<1>17. Purged'
  <2>1. ASSUME ~ overlapped' PROVE InProgress' = {r} /\ ~ overlapped
    BY <1>1, <1>15, <2>1
  <2>2. \A s \in Runs : up'[s].at \in {"release", "reserve", "insert"} => up'[s] = up[s]
    BY <1>8, <1>12
  <2>3. QED BY <1>1, <2>1, <2>2 DEF IInv, Purged
<1>18. QED BY <1>13, <1>14, <1>16, <1>17 DEF IInv
-----------------------------------------------------------------------------
(***************************************************************************)
(* Deletions and seat edits.                                               *)
(***************************************************************************)
\* A step that adds no row, brings none back and leaves uploads and runs alone.
LEMMA RowsLeave ==
  ASSUME IInv, calls' \subseteq calls, doomed' \subseteq calls', Standing' \subseteq Standing,
         UNCHANGED <<runs, up, uploads, overlapped, failed>>, DeletionOk', tiers' \in [Seats -> {None, "basic", "premium"}]
  PROVE  IInv'
<1>1. Typed' /\ NoneOfDeleted' /\ OneRunPerDay'
  BY DEF IInv, Typed, NoneOfDeleted, OneRunPerDay
<1>2. \A r \in Runs : UploadOk(r)'
  BY DEF IInv, UploadOk
<1>3. InProgress' = InProgress
  BY DEF InProgress
<1>4. RowsTraceable' /\ Purged'
  BY <1>3 DEF IInv, RowsTraceable, Purged
<1>5. QED BY <1>1, <1>2, <1>4 DEF IInv

LEMMA NoDeleteOk == ASSUME IInv, UNCHANGED runs, del' = NoDelete PROVE DeletionOk'
BY DEF DeletionOk, NoDelete

\* A step that leaves the rows as they are, or dooms some.
LEMMA RowsDoomed ==
  ASSUME IInv, calls' = calls, doomed \subseteq doomed', doomed' \subseteq doomed \union calls
  PROVE  calls' \subseteq calls /\ doomed' \subseteq calls' /\ Standing' \subseteq Standing
BY DEF IInv, Typed, Standing

\* ClickHouse carries out what it was told: nothing that stands goes.
LEMMA MutateStep == ASSUME IInv, NEW run, Mutate(run) PROVE IInv'
<1>1. PICK gone : gone = {c \in doomed : c.run = run}
  OBVIOUS
<1>2. /\ calls' = calls \ gone /\ doomed' = doomed \ gone
      /\ UNCHANGED <<runs, up, del, uploads, overlapped, failed, tiers>>
  BY <1>1 DEF Mutate
<1>3. calls' \subseteq calls /\ doomed' \subseteq calls' /\ Standing' \subseteq Standing
  BY <1>2 DEF IInv, Typed, Standing
<1>4. DeletionOk'
  BY <1>2, <1>3 DEF IInv, DeletionOk
<1>5. QED BY <1>2, <1>3, <1>4, TiersTyped, RowsLeave

LEMMA DeletionSteps ==
  ASSUME IInv, (\E r \in Runs : BeginDelete(r)) \/ DeleteRows \/ DeleteKeys \/ DeleteFails \/ DeleteLegacy
  PROVE  IInv'
<1>1. tiers' \in [Seats -> {None, "basic", "premium"}] /\ UNCHANGED <<runs, up, uploads, overlapped, failed>>
  BY TiersTyped DEF BeginDelete, DeleteRows, DeleteKeys, DeleteFails, DeleteLegacy
<1>2. DeletionOk
  BY DEF IInv
<1>3. calls' = calls /\ doomed \subseteq doomed' /\ doomed' \subseteq doomed \union calls
  BY DEF BeginDelete, DeleteRows, DeleteKeys, DeleteFails, DeleteLegacy, Doom
<1>4. calls' \subseteq calls /\ doomed' \subseteq calls' /\ Standing' \subseteq Standing
  BY <1>3, RowsDoomed
<1>5. DeletionOk'
  <2>1. CASE \E r \in Runs : BeginDelete(r)
    <3>1. PICK r \in Runs : BeginDelete(r)
      BY <2>1
    <3>2. runs[r] = "active" /\ \E ks : del' = [at |-> "rows", run |-> r, keys |-> ks]
      BY <3>1 DEF BeginDelete
    <3>3. QED BY <1>1, <3>2 DEF DeletionOk
  <2>2. CASE DeleteRows
    <3>1. del.at = "rows" /\ del' = [del EXCEPT !.at = "keys"] /\ \A c \in Standing' : c.run # del.run
      BY <2>2 DEF DeleteRows, Doom, Standing
    <3>2. DOMAIN del' = {"at", "run", "keys"} /\ del'.at = "keys" /\ del'.run = del.run
      BY <1>2, <3>1 DEF DeletionOk
    <3>3. QED BY <1>1, <1>2, <3>1, <3>2 DEF DeletionOk
  <2>3. CASE DeleteKeys
    <3>1. del.at = "keys" /\ del' = [del EXCEPT !.at = "mark"]
      BY <2>3 DEF DeleteKeys
    <3>2. DOMAIN del' = {"at", "run", "keys"} /\ del'.at = "mark" /\ del'.run = del.run
      BY <1>2, <3>1 DEF DeletionOk
    <3>3. QED BY <1>1, <1>2, <1>4, <3>1, <3>2 DEF DeletionOk
  <2>4. CASE DeleteFails
    BY <1>1, <2>4, NoDeleteOk DEF DeleteFails
  <2>5. CASE DeleteLegacy
    <3>1. del' = del
      BY <2>5 DEF DeleteLegacy
    <3>2. QED BY <1>1, <1>2, <1>4, <3>1 DEF DeletionOk
  <2>6. QED BY <2>1, <2>2, <2>3, <2>4, <2>5
<1>6. QED BY <1>1, <1>4, <1>5, RowsLeave

\* The run is marked once its rows are doomed, and its upload is over.
LEMMA MarkDeletedStep == ASSUME IInv, MarkDeleted PROVE IInv'
<1>1. /\ del.at = "mark" /\ runs' = [runs EXCEPT ![del.run] = "deleted"] /\ del' = NoDelete
      /\ UNCHANGED <<calls, doomed, Standing, up, uploads, overlapped, failed, tiers>>
  BY DEF MarkDeleted, Standing
<1>2. PICK r \in Runs : r = del.run /\ runs[r] # "none" /\ \A c \in Standing : c.run # r
  BY <1>1 DEF IInv, DeletionOk
<1>3. /\ runs' \in [Runs -> {"none", "active", "deleted"}] /\ runs'[r] = "deleted"
      /\ \A s \in Runs : s # r => runs'[s] = runs[s]
  BY <1>1, <1>2 DEF IInv, Typed
<1>4. Typed' /\ OneRunPerDay'
  BY <1>1, <1>3 DEF IInv, Typed, OneRunPerDay
<1>5. \A s \in Runs : UploadOk(s)'
  BY <1>1, <1>2, <1>3 DEF IInv, UploadOk
<1>6. DeletionOk'
  BY <1>1 DEF DeletionOk, NoDelete
<1>7. InProgress' = InProgress
  BY <1>1 DEF InProgress
<1>8. NoneOfDeleted' /\ RowsTraceable' /\ Purged'
  BY <1>1, <1>2, <1>3, <1>7 DEF IInv, NoneOfDeleted, RowsTraceable, Purged, Typed
<1>9. QED BY <1>4, <1>5, <1>6, <1>8 DEF IInv

LEMMA PatchStep ==
  ASSUME IInv, NEW s \in Seats, NEW tier \in {None, "basic", "premium"}, PatchSeatTier(s, tier)
  PROVE  IInv'
<1>1. /\ tiers' = [tiers EXCEPT ![s] = tier]
      /\ UNCHANGED <<calls, doomed, Standing, runs, up, del, uploads, overlapped, failed>>
  BY DEF PatchSeatTier, Standing
<1>2. tiers' \in [Seats -> {None, "basic", "premium"}]
  BY <1>1, TiersTyped
<1>3. DeletionOk'
  BY <1>1 DEF IInv, DeletionOk
<1>4. calls' \subseteq calls /\ doomed' \subseteq calls' /\ Standing' \subseteq Standing
  BY <1>1, RowsDoomed
<1>5. QED BY <1>1, <1>2, <1>3, <1>4, RowsLeave
-----------------------------------------------------------------------------
(***************************************************************************)
(* The invariant.                                                          *)
(***************************************************************************)
LEMMA InitIInv == Init => IInv
<1> SUFFICES ASSUME Init PROVE IInv
  OBVIOUS
<1>1. /\ calls = {[row |-> x, run |-> Legacy] : x \in LegacyRows}
      /\ doomed = {} /\ runs = [r \in Runs |-> "none"] /\ tiers = [s \in Seats |-> None]
      /\ up = [r \in Runs |-> NoUpload] /\ del = NoDelete /\ uploads = 0
  BY DEF Init
<1>2. \A r \in Runs : up[r] = NoUpload /\ runs[r] = "none"
  BY <1>1
<1>3. \A c \in Standing : c.run = Legacy /\ c.run \notin Runs
  BY <1>1, ServicesAssumption DEF Legacy, Runs, Standing
<1>4. Typed
  BY <1>1, ServicesAssumption DEF Typed, None
<1>5. \A r \in Runs : UploadOk(r)
  BY <1>2, EmptyUpload DEF UploadOk, Steps
<1>6. DeletionOk
  BY <1>1 DEF DeletionOk, NoDelete
<1>7. NoneOfDeleted /\ OneRunPerDay /\ RowsTraceable
  BY <1>3 DEF NoneOfDeleted, OneRunPerDay, RowsTraceable
<1>8. Purged
  BY <1>2, EmptyUpload DEF Purged, InProgress
<1>9. QED BY <1>4, <1>5, <1>6, <1>7, <1>8 DEF IInv

LEMMA StepIInv == IInv /\ [Next]_vars => IInv'
<1> SUFFICES ASSUME IInv, [Next]_vars PROVE IInv'
  OBVIOUS
<1>1. ASSUME NEW files \in Batches, NEW conn \in {None, "known", "unknown"}, Upload(files, conn) PROVE IInv'
  BY <1>1, UploadStep
<1>2. ASSUME NEW r \in Runs, Purge(r) PROVE IInv'
  BY <1>2, PurgeStep
<1>3. ASSUME NEW r \in Runs, ReleaseKeys(r) \/ SyncSeats(r) \/ Handoff(r) \/ UploadFails(r) PROVE IInv'
  BY <1>3, QuietSteps
<1>4. ASSUME NEW r \in Runs, Reserve(r) PROVE IInv'
  BY <1>4, ReserveStep
<1>5. ASSUME NEW r \in Runs, Insert(r) PROVE IInv'
  BY <1>5, InsertStep
<1>6. ASSUME NEW r \in Runs, MatchIdentities(r) PROVE IInv'
  BY <1>6, MatchStep
<1>7. ASSUME NEW r \in Runs, RecordRun(r) PROVE IInv'
  BY <1>7, RecordRunStep
<1>8. ASSUME NEW r \in Runs, RecordAudit(r) PROVE IInv'
  BY <1>8, RecordAuditStep
<1>9. CASE (\E r \in Runs : BeginDelete(r)) \/ DeleteRows \/ DeleteKeys \/ DeleteFails \/ DeleteLegacy
  BY <1>9, DeletionSteps
<1>10. CASE MarkDeleted
  BY <1>10, MarkDeletedStep
<1>11. ASSUME NEW s \in Seats, NEW tier \in {None, "basic", "premium"}, PatchSeatTier(s, tier) PROVE IInv'
  BY <1>11, PatchStep
<1>12. CASE UNCHANGED vars
  <2>1. UNCHANGED <<calls, doomed, Standing, runs, tiers, up, del, uploads, failed, overlapped>>
    BY <1>12 DEF vars, Standing
  <2>2. DeletionOk'
    BY <2>1 DEF IInv, DeletionOk
  <2>3. calls' \subseteq calls /\ doomed' \subseteq calls' /\ Standing' \subseteq Standing
    BY <2>1, RowsDoomed
  <2>4. QED BY <2>1, <2>2, <2>3, TiersTyped, RowsLeave
<1>13. ASSUME NEW run \in Runs \union {Legacy}, Mutate(run) PROVE IInv'
  BY <1>13, MutateStep
<1>14. QED
  BY <1>1, <1>2, <1>3, <1>4, <1>5, <1>6, <1>7, <1>8, <1>9, <1>10, <1>11, <1>12, <1>13 DEF Next

\* The imports of the API process are those of the module, or stand still while the directory is in use.
LEMMA ServicesImport == ServicesSpec => Spec
<1>1. ServicesInit => Init
  BY DEF ServicesInit
<1>2. [ServicesNext]_<<provisioning, vars, scimVars>> => [Next]_vars
  BY DEF ServicesNext
<1>3. QED BY <1>1, <1>2, PTL DEF ServicesSpec, Spec

LEMMA AlwaysIInv == ServicesSpec => []IInv
BY InitIInv, StepIInv, ServicesImport, PTL DEF Spec
-----------------------------------------------------------------------------
(***************************************************************************)
(* The theorems.                                                           *)
(***************************************************************************)
\* The tables of the import keep their types: spend is written under a run that exists or none,
\* runs and seat tiers take the values their columns allow.
THEOREM ImportTypeCorrect == ServicesSpec => []TypeOK
<1> DEFINE FileRows == UNION {ParsedRows(f) : f \in UNION Batches}
<1>1. ImportableRows \subseteq FileRows
  <2>1. ASSUME NEW x \in ImportableRows PROVE x \in FileRows
    <3>1. PICK files \in Batches : x \in AllRows(files)
      BY DEF ImportableRows
    <3>2. PICK f \in files : x \in ParsedRows(f)
      BY <3>1 DEF AllRows
    <3>3. f \in UNION Batches
      BY <3>1, <3>2
    <3>4. QED BY <3>2, <3>3
  <2>2. QED BY <2>1
<1> HIDE DEF FileRows
<1>2. IInv => TypeOK
  <2> SUFFICES ASSUME IInv PROVE TypeOK
    OBVIOUS
  <2>1. ASSUME NEW c \in calls
        PROVE  c \in [row : ledger \union FileRows \union LegacyRows,
                      run : Runs \union {Legacy}]
    <3>1. c \in [row : ImportableRows \union LegacyRows, run : Runs \union {Legacy}]
      BY DEF IInv, Typed
    <3>2. ImportableRows \union LegacyRows
            \subseteq ledger \union FileRows \union LegacyRows
      BY <1>1
    <3>3. QED BY <3>1, <3>2
  <2>2. /\ runs \in [Runs -> {"none", "active", "deleted"}] /\ tiers \in [Seats -> {None, "basic", "premium"}]
        /\ \A r \in Runs : up[r].at \in Steps
    BY UploadFacts DEF IInv, Typed
  <2>6. doomed \subseteq calls
    BY DEF IInv, Typed
  <2>3. calls \subseteq [row : ledger \union FileRows \union LegacyRows, run : Runs \union {Legacy}]
    BY <2>1, Zenon
  <2>4. calls \subseteq [row : ledger \union (UNION {ParsedRows(f) : f \in UNION Batches}) \union LegacyRows,
                       run : Runs \union {Legacy}]
    BY <2>3, Zenon DEF FileRows
  <2>5. QED BY <2>2, <2>4, <2>6, Zenon DEF TypeOK
<1>3. QED BY <1>2, AlwaysIInv, PTL

\* An upload of import.service.ts replaces ("Drop portal CSV rows in a date window before a fresh
\* billing import"): as long as uploads do not overlap, the spend of a provider and a day comes
\* from a single run, whatever broke off on the way, once ClickHouse has carried out the
\* deletions it accepted: of the rows it has not been told to remove, it is so at any moment.
THEOREM UploadReplaces == ServicesSpec => []OneRunPerDay
<1>1. IInv => OneRunPerDay
  BY DEF IInv
<1>2. QED BY <1>1, AlwaysIInv, PTL

\* Of a run that deleteImportRun has marked deleted, ClickHouse has been told to delete every row
\* that is left, whatever uploads and failures came between; and the run does not come back to
\* listImportRuns as a legacy entry.
THEOREM DeletionIsComplete == ServicesSpec => []DeletedRunsGone
<1>1. IInv => DeletedRunsGone
  <2> SUFFICES ASSUME IInv, NEW r \in Runs, runs[r] = "deleted"
               PROVE  (\A c \in Standing : c.run # r) /\ (\A x \in Listed : x.id # r)
    BY DEF DeletedRunsGone
  <2>1. \A c \in Standing : c.run # r
    BY DEF IInv, NoneOfDeleted
  <2>2. ~ ShouldSurfaceLegacyImportAudit(r)
    BY DEF ShouldSurfaceLegacyImportAudit
  <2>3. \A x \in Listed : x.id # r
    BY <2>2 DEF Listed
  <2>4. QED BY <2>1, <2>3
<1>2. QED BY <1>1, AlwaysIInv, PTL

\* Every row of portal_import spend that ClickHouse has not been told to delete belongs to a
\* recorded run, to an upload still in progress, to one that broke off after its insert, or was
\* there before runs were recorded.
THEOREM SpendIsTraceable == ServicesSpec => []RowsTraceable
<1>1. IInv => RowsTraceable
  BY DEF IInv
<1>2. QED BY <1>1, AlwaysIInv, PTL
=============================================================================
