---------------------------- MODULE ChInsertProofs ----------------------------
(***************************************************************************)
(* Proofs, for any log, number of partitions, tables, retries and faults,  *)
(* of what the ClickHouse writer may lose.                                 *)
(***************************************************************************)
EXTENDS ChInsert, FiniteSetTheorems, TLAPS

Positions == [Partitions -> 0..MaxOffset]
Zero == [p \in Partitions |-> 0]

Typed ==
  /\ at \in {"poll", "route", "pick", "insert", "isolate", "dead", "commit"}
  /\ pos \in Positions /\ committed \in Positions
  /\ batch \subseteq Messages /\ todo \subseteq batch /\ failed \subseteq batch
  /\ tables \subseteq Tables /\ table \in Tables \cup {"none"} /\ attempt \in 0..Retries
  /\ inserted \in [Messages -> 0..MaxCopies] /\ dlq \in [Messages -> 0..MaxCopies]
  /\ faults \in 0..MaxFaults
  /\ unlettered \subseteq Messages /\ discarded \subseteq Messages

\* The fetch position is between the committed offset and the end of the log, and the
\* batch is not committed yet.
Ordered ==
  /\ \A p \in Partitions : committed[p] <= pos[p] /\ pos[p] <= End[p]
  /\ batch \subseteq Between(committed, End)

\* What holds at the steps of Run and Process.
Stage ==
  /\ at = "poll" => batch = {} /\ tables = {}
  /\ at \in {"route", "pick", "insert", "dead", "commit"} => failed = {}
  /\ at \in {"pick", "insert", "commit"} => todo = {}
  /\ at = "commit" => tables = {}
  /\ at = "route" => \A m \in todo : Kind[m] \notin Tables
  /\ at \in {"insert", "isolate"} => table \in Tables
  /\ at = "isolate" => todo \cup failed \subseteq Rows(table)

Explained(m) == Settled(m) \/ m \in unlettered \cup discarded

\* What the worker still has to do for a message of its batch.
Pending(m) ==
  \/ Kind[m] \in tables
  \/ at = "route" /\ m \in todo
  \/ at = "insert" /\ Kind[m] = table
  \/ at = "isolate" /\ m \in todo \cup failed
  \/ at = "dead" /\ m \in todo

\* LossesExplained is not inductive by itself: what was fetched and not committed yet
\* must be explained or still pending, since the next commit covers it.
FetchedExplained == \A m \in Between(Zero, pos) : Explained(m) \/ (m \in batch /\ Pending(m))

\* The good rows that went, or are about to go, into events.dlq.
Good(m) == Kind[m] \in Tables /\ m \notin Poison
Misjudged == {m \in Messages : Good(m) /\ (dlq[m] > 0 \/ m \in failed \/ (at = "dead" /\ m \in todo))}

PipelineInv ==
  /\ Typed /\ Ordered /\ Stage
  /\ FetchedExplained
  /\ Cardinality(Misjudged) <= faults
  /\ faults = 0 => unlettered = {} /\ discarded = {}
-----------------------------------------------------------------------------
(***************************************************************************)
(* What the calls of the pipeline do.                                      *)
(***************************************************************************)
LEMMA OneMoreCounts ==
  ASSUME NEW f \in [Messages -> 0..MaxCopies], NEW ms
  PROVE  /\ OneMore(f, ms) \in [Messages -> 0..MaxCopies]
         /\ \A m \in Messages : /\ f[m] <= OneMore(f, ms)[m]
                                /\ m \in ms => OneMore(f, ms)[m] > 0
                                /\ m \notin ms => OneMore(f, ms)[m] = f[m]
<1>1. MaxCopies \in Nat \ {0}
  BY PipelineAssumption
<1>2. ASSUME NEW m \in Messages
      PROVE  /\ OneMore(f, ms)[m] = IF m \in ms /\ f[m] < MaxCopies THEN f[m] + 1 ELSE f[m]
             /\ f[m] \in 0..MaxCopies
  BY DEF OneMore
<1>3. ASSUME NEW m \in Messages
      PROVE  /\ OneMore(f, ms)[m] \in 0..MaxCopies /\ f[m] <= OneMore(f, ms)[m]
             /\ m \in ms => OneMore(f, ms)[m] > 0
             /\ m \notin ms => OneMore(f, ms)[m] = f[m]
  BY <1>1, <1>2
<1>4. OneMore(f, ms) = [m \in Messages |-> OneMore(f, ms)[m]]
  BY DEF OneMore
<1>5. QED BY <1>3, <1>4

\* A dead-letter call records the message or notes that it may not have.
LEMMA DeadLetterDoes ==
  ASSUME Typed, NEW m \in Messages, DeadLetter(m)
  PROVE  /\ dlq' \in [Messages -> 0..MaxCopies] /\ faults' \in 0..MaxFaults /\ faults <= faults'
         /\ \A x \in Messages : dlq[x] <= dlq'[x] /\ (x # m => dlq'[x] = dlq[x])
         /\ unlettered \subseteq unlettered' /\ unlettered' \subseteq Messages
         /\ dlq'[m] > 0 \/ m \in unlettered'
         /\ faults' = 0 => faults = 0 /\ unlettered' = unlettered
<1>1. /\ dlq \in [Messages -> 0..MaxCopies] /\ faults \in 0..MaxFaults /\ unlettered \subseteq Messages
      /\ MaxFaults \in Nat
  BY PipelineAssumption DEF Typed
<1>2. /\ OneMore(dlq, {m}) \in [Messages -> 0..MaxCopies] /\ OneMore(dlq, {m})[m] > 0
      /\ \A x \in Messages : dlq[x] <= OneMore(dlq, {m})[x] /\ (x # m => OneMore(dlq, {m})[x] = dlq[x])
  BY <1>1, OneMoreCounts
<1>3. CASE NoFault /\ dlq' = OneMore(dlq, {m}) /\ UNCHANGED unlettered
  <2>1. faults' = faults /\ unlettered' = unlettered /\ faults \in Nat
    BY <1>1, <1>3 DEF NoFault
  <2>2. /\ dlq' \in [Messages -> 0..MaxCopies] /\ dlq'[m] > 0
        /\ \A x \in Messages : dlq[x] <= dlq'[x] /\ (x # m => dlq'[x] = dlq[x])
    BY <1>2, <1>3, Zenon
  <2>3. faults <= faults' /\ faults' \in 0..MaxFaults /\ unlettered \subseteq unlettered' /\ unlettered' \subseteq Messages
    BY <1>1, <2>1
  <2>4. QED BY <2>1, <2>2, <2>3
<1>4. CASE Fault /\ dlq' \in {dlq, OneMore(dlq, {m})} /\ unlettered' = unlettered \cup {m}
  <2>1. faults' = faults + 1 /\ faults' \in 0..MaxFaults
    BY <1>1, <1>4 DEF Fault
  <2>2. \A x \in Messages : dlq[x] <= dlq[x]
    BY <1>1
  <2>3. QED BY <1>1, <1>2, <1>4, <2>1, <2>2
<1>5. QED BY <1>3, <1>4 DEF DeadLetter

\* An insert loses no row, and refuses rows without poison only at the price of a fault.
LEMMA InsertDoes ==
  ASSUME Typed, NEW rows \in SUBSET Messages, InsertWorks(rows) \/ InsertFails(rows)
  PROVE  /\ inserted' \in [Messages -> 0..MaxCopies] /\ faults' \in 0..MaxFaults /\ faults <= faults'
         /\ \A x \in Messages : inserted[x] <= inserted'[x]
         /\ InsertWorks(rows) => \A x \in rows : inserted'[x] > 0
         /\ InsertFails(rows) /\ rows \cap Poison = {} => faults' = faults + 1
<1>1. /\ inserted \in [Messages -> 0..MaxCopies] /\ faults \in 0..MaxFaults /\ MaxFaults \in Nat
      /\ \A x \in Messages : inserted[x] <= inserted[x]
  BY PipelineAssumption DEF Typed
<1>2. /\ OneMore(inserted, rows) \in [Messages -> 0..MaxCopies]
      /\ \A x \in Messages : inserted[x] <= OneMore(inserted, rows)[x]
      /\ \A x \in rows : OneMore(inserted, rows)[x] > 0
  BY <1>1, OneMoreCounts
<1>3. CASE InsertWorks(rows)
  <2>1. inserted' = OneMore(inserted, rows) /\ faults' = faults
    BY <1>3 DEF InsertWorks, NoFault
  <2>2. InsertFails(rows) /\ rows \cap Poison = {} => faults' = faults + 1
    BY <1>1, <2>1 DEF InsertFails, Fault
  <2>3. QED BY <1>1, <1>2, <2>1, <2>2
<1>4. CASE InsertFails(rows)
  <2>1. inserted' = inserted \/ inserted' = OneMore(inserted, rows)
    BY <1>4 DEF InsertFails
  <2>2. faults' = faults \/ (faults' = faults + 1 /\ faults < MaxFaults)
    BY <1>4 DEF InsertFails, Fault, NoFault
  <2>3. rows \cap Poison = {} => faults' = faults + 1
    BY <1>4 DEF InsertFails, Fault
  <2>4. InsertWorks(rows) => inserted' = OneMore(inserted, rows)
    BY DEF InsertWorks
  <2>5. QED BY <1>1, <1>2, <2>1, <2>2, <2>3, <2>4
<1>5. QED BY <1>3, <1>4
-----------------------------------------------------------------------------
(***************************************************************************)
(* What the parts of the invariant need of a step.                         *)
(***************************************************************************)
LEMMA InBetween ==
  ASSUME NEW from, NEW to, NEW m
  PROVE  m \in Between(from, to) <=> \E p \in Partitions : \E i \in (from[p] + 1)..to[p] : m = Log[p][i]
BY DEF Between

\* The good rows that are dead-lettered stay within the faults.
LEMMA MisjudgedWithin ==
  ASSUME Typed, Cardinality(Misjudged) <= faults, faults' \in Nat,
         \/ Misjudged' \subseteq Misjudged /\ faults <= faults'
         \/ (\E m \in Messages : Misjudged' \subseteq Misjudged \cup {m}) /\ faults' = faults + 1
  PROVE  Cardinality(Misjudged)' <= faults'
<1>1. IsFiniteSet(Misjudged) /\ Cardinality(Misjudged) \in Nat /\ faults \in Nat
  <2>1. IsFiniteSet(Messages) /\ Misjudged \subseteq Messages /\ faults \in Nat
    BY PipelineAssumption DEF Misjudged, Typed
  <2>2. QED BY <2>1, FS_Subset, FS_CardinalityType
<1>2. CASE Misjudged' \subseteq Misjudged /\ faults <= faults'
  <2>1. Cardinality(Misjudged') <= Cardinality(Misjudged) /\ Cardinality(Misjudged') \in Nat
    BY <1>1, <1>2, FS_Subset, FS_CardinalityType
  <2>2. QED BY <1>1, <1>2, <2>1
<1>3. CASE (\E m \in Messages : Misjudged' \subseteq Misjudged \cup {m}) /\ faults' = faults + 1
  <2>1. PICK m \in Messages : Misjudged' \subseteq Misjudged \cup {m}
    BY <1>3
  <2>2. /\ IsFiniteSet(Misjudged \cup {m})
        /\ Cardinality(Misjudged \cup {m}) \in {Cardinality(Misjudged), Cardinality(Misjudged) + 1}
    BY <1>1, FS_AddElement
  <2>3. Cardinality(Misjudged') <= Cardinality(Misjudged \cup {m}) /\ Cardinality(Misjudged') \in Nat
    BY <2>1, <2>2, FS_Subset, FS_CardinalityType
  <2>4. QED BY <1>1, <1>3, <2>2, <2>3
<1>4. QED BY <1>2, <1>3

\* A step that stays at the fetch position explains what it no longer does.
LEMMA FetchedStays ==
  ASSUME PipelineInv, UNCHANGED <<pos, batch, discarded>>, inserted' \in [Messages -> 0..MaxCopies],
         dlq' \in [Messages -> 0..MaxCopies], unlettered \subseteq unlettered',
         \A m \in Messages : inserted[m] <= inserted'[m] /\ dlq[m] <= dlq'[m],
         \A m \in batch : Pending(m) => Explained(m)' \/ Pending(m)'
  PROVE  FetchedExplained'
<1>1. ASSUME NEW m \in Between(Zero, pos) PROVE Explained(m)' \/ (m \in batch' /\ Pending(m)')
  <2>1. Explained(m) \/ (m \in batch /\ Pending(m))
    BY DEF PipelineInv, FetchedExplained
  <2>2. m \in Messages
    <3>0. PICK p \in Partitions : \E i \in (Zero[p] + 1)..pos[p] : m = Log[p][i]
      BY InBetween
    <3>1. PICK i \in (Zero[p] + 1)..pos[p] : m = Log[p][i]
      BY <3>0
    <3>2. i \in 1..Len(Log[p]) /\ Log[p] \in Seq(Messages)
      <4>1. pos[p] \in 0..MaxOffset /\ pos[p] <= Len(Log[p]) /\ Log[p] \in Seq(Messages) /\ Zero[p] = 0
        BY PipelineAssumption DEF PipelineInv, Typed, Ordered, Positions, End, Zero
      <4>2. QED BY <3>1, <4>1
    <3>3. QED BY <3>1, <3>2
  <2>3. CASE Explained(m)
    <3>1. /\ inserted[m] \in Nat /\ inserted'[m] \in Nat /\ dlq[m] \in Nat /\ dlq'[m] \in Nat
          /\ inserted[m] <= inserted'[m] /\ dlq[m] <= dlq'[m]
      BY <2>2 DEF PipelineInv, Typed
    <3>2. QED BY <2>3, <3>1 DEF Explained, Settled
  <2>4. CASE m \in batch /\ Pending(m)
    BY <2>4
  <2>5. QED BY <2>1, <2>3, <2>4
<1>2. Between(Zero, pos)' = Between(Zero, pos)
  BY DEF Between
<1>3. QED BY <1>1, <1>2 DEF FetchedExplained
-----------------------------------------------------------------------------
(***************************************************************************)
(* The steps.                                                              *)
(***************************************************************************)
LEMMA RouteDeadLetterStep ==
  ASSUME PipelineInv, RouteDeadLetter PROVE PipelineInv'
<1>0. Typed /\ Ordered /\ Stage /\ Cardinality(Misjudged) <= faults
  BY DEF PipelineInv
<1>1. PICK m \in todo : DeadLetter(m) /\ todo' = todo \ {m}
  BY DEF RouteDeadLetter
<1>2. at = "route" /\ UNCHANGED <<at, pos, committed, batch, tables, table, attempt, failed, inserted, discarded>>
  BY DEF RouteDeadLetter
<1>3. m \in Messages /\ m \in batch /\ Kind[m] \notin Tables
  BY <1>0, <1>1, <1>2 DEF Typed, Stage
<1>4. /\ dlq' \in [Messages -> 0..MaxCopies] /\ faults' \in 0..MaxFaults /\ faults <= faults'
      /\ \A x \in Messages : dlq[x] <= dlq'[x] /\ (x # m => dlq'[x] = dlq[x])
      /\ unlettered \subseteq unlettered' /\ unlettered' \subseteq Messages
      /\ dlq'[m] > 0 \/ m \in unlettered'
      /\ faults' = 0 => faults = 0 /\ unlettered' = unlettered
  BY <1>0, <1>1, <1>3, DeadLetterDoes
<1>5. Typed'
  BY <1>0, <1>1, <1>2, <1>4 DEF Typed
<1>6. Ordered' /\ Stage'
  BY <1>0, <1>1, <1>2 DEF Ordered, Between, Stage, Rows
<1>7. FetchedExplained'
  <2>1. \A x \in Messages : inserted[x] <= inserted'[x]
    BY <1>0, <1>2 DEF Typed
  <2>2. ASSUME NEW x \in batch, Pending(x) PROVE Explained(x)' \/ Pending(x)'
    <3>1. CASE x = m
      BY <1>4, <3>1 DEF Explained, Settled
    <3>2. CASE x # m
      BY <1>1, <1>2, <2>2, <3>2 DEF Pending
    <3>3. QED BY <3>1, <3>2
  <2>3. QED BY <1>0, <1>2, <1>4, <1>5, <2>1, <2>2, FetchedStays DEF Typed
<1>8. Cardinality(Misjudged)' <= faults'
  <2>1. Misjudged' \subseteq Misjudged
    BY <1>2, <1>3, <1>4 DEF Misjudged, Good
  <2>2. QED BY <1>0, <1>4, <2>1, MisjudgedWithin
<1>9. QED BY <1>2, <1>4, <1>5, <1>6, <1>7, <1>8 DEF PipelineInv

LEMMA PickTableStep ==
  ASSUME PipelineInv, PickTable PROVE PipelineInv'
<1>0. Typed /\ Ordered /\ Stage /\ Cardinality(Misjudged) <= faults
  BY DEF PipelineInv
<1>1. PICK t \in tables : table' = t /\ tables' = tables \ {t}
  BY DEF PickTable
<1>2. /\ at \in {"route", "pick"} /\ todo = {} /\ at' = "insert" /\ attempt' = 0
      /\ UNCHANGED <<pos, committed, batch, todo, failed, inserted, dlq, history>>
  BY DEF PickTable
<1>3. UNCHANGED <<faults, unlettered, discarded>>
  BY <1>2 DEF history
<1>4. Typed'
  BY <1>0, <1>1, <1>2, <1>3, PipelineAssumption DEF Typed
<1>5. Ordered' /\ Stage'
  BY <1>0, <1>1, <1>2 DEF Ordered, Between, Stage, Typed
<1>6. FetchedExplained'
  <2>1. \A x \in Messages : inserted[x] <= inserted'[x] /\ dlq[x] <= dlq'[x]
    BY <1>0, <1>2 DEF Typed
  <2>2. ASSUME NEW x \in batch, Pending(x) PROVE Pending(x)'
    BY <1>1, <1>2, <2>2 DEF Pending
  <2>3. QED BY <1>2, <1>3, <1>4, <2>1, <2>2, FetchedStays DEF Typed
<1>7. Cardinality(Misjudged)' <= faults'
  <2>1. Misjudged' \subseteq Misjudged /\ faults' = faults /\ faults \in Nat
    BY <1>0, <1>2, <1>3 DEF Misjudged, Good, Typed
  <2>2. QED BY <1>0, <2>1, MisjudgedWithin
<1>8. QED BY <1>2, <1>3, <1>4, <1>5, <1>6, <1>7 DEF PipelineInv

LEMMA ProcessReturnsStep ==
  ASSUME PipelineInv, ProcessReturns PROVE PipelineInv'
<1>0. Typed /\ Ordered /\ Stage /\ Cardinality(Misjudged) <= faults
  BY DEF PipelineInv
<1>1. /\ at \in {"route", "pick"} /\ todo = {} /\ tables = {} /\ at' = "commit"
      /\ UNCHANGED <<pos, committed, batch, todo, tables, table, attempt, failed, inserted, dlq, faults, unlettered,
                     discarded>>
  BY DEF ProcessReturns, work, history
<1>2. Typed'
  BY <1>0, <1>1 DEF Typed
<1>3. Ordered' /\ Stage'
  BY <1>0, <1>1 DEF Ordered, Between, Stage
<1>4. FetchedExplained'
  <2>1. \A x \in Messages : inserted[x] <= inserted'[x] /\ dlq[x] <= dlq'[x]
    BY <1>0, <1>1 DEF Typed
  <2>2. ASSUME NEW x \in batch, Pending(x) PROVE Pending(x)'
    BY <1>1, <2>2 DEF Pending
  <2>3. QED BY <1>1, <1>2, <2>1, <2>2, FetchedStays DEF Typed
<1>5. Cardinality(Misjudged)' <= faults'
  <2>1. Misjudged' \subseteq Misjudged /\ faults' = faults /\ faults \in Nat
    BY <1>0, <1>1 DEF Misjudged, Good, Typed
  <2>2. QED BY <1>0, <2>1, MisjudgedWithin
<1>6. QED BY <1>1, <1>2, <1>3, <1>4, <1>5 DEF PipelineInv

LEMMA InsertBatchStep ==
  ASSUME PipelineInv, InsertBatch PROVE PipelineInv'
<1>0. Typed /\ Ordered /\ Stage /\ Cardinality(Misjudged) <= faults
  BY DEF PipelineInv
<1>1. /\ at = "insert" /\ UNCHANGED <<pos, committed, batch, tables, table, failed, dlq, unlettered, discarded>>
      /\ InsertWorks(Rows(table)) \/ InsertFails(Rows(table))
  BY DEF InsertBatch
<1>2. Rows(table) \in SUBSET Messages /\ Rows(table) \subseteq batch
  BY <1>0 DEF Rows, Typed
<1>3. /\ inserted' \in [Messages -> 0..MaxCopies] /\ faults' \in 0..MaxFaults /\ faults <= faults'
      /\ \A x \in Messages : inserted[x] <= inserted'[x]
      /\ InsertWorks(Rows(table)) => \A x \in Rows(table) : inserted'[x] > 0
  BY <1>0, <1>1, <1>2, InsertDoes
<1>4. \/ InsertWorks(Rows(table)) /\ at' = "pick" /\ todo' = todo /\ attempt' = attempt
      \/ attempt < Retries /\ attempt' = attempt + 1 /\ at' = at /\ todo' = todo
      \/ at' = "isolate" /\ todo' = Rows(table) /\ attempt' = attempt
  BY DEF InsertBatch
<1>5. Typed'
  <2>1. attempt \in 0..Retries /\ Retries \in Nat
    BY <1>0, PipelineAssumption DEF Typed
  <2>2. attempt' \in 0..Retries
    BY <1>4, <2>1
  <2>3. at' \in {"pick", "insert", "isolate"} /\ todo' \subseteq batch
    BY <1>0, <1>1, <1>2, <1>4 DEF Typed
  <2>4. QED BY <1>0, <1>1, <1>3, <2>2, <2>3 DEF Typed
<1>6. Ordered' /\ Stage'
  <2>1. todo = {} /\ failed = {} /\ table \in Tables
    BY <1>0, <1>1 DEF Stage
  <2>2. Stage'
    BY <1>1, <1>4, <2>1 DEF Stage, Rows
  <2>3. QED BY <1>0, <1>1, <2>2 DEF Ordered, Between
<1>7. FetchedExplained'
  <2>1. \A x \in Messages : dlq[x] <= dlq'[x]
    BY <1>0, <1>1 DEF Typed
  <2>2. ASSUME NEW x \in batch, Pending(x) PROVE Explained(x)' \/ Pending(x)'
    <3>1. Kind[x] \in tables \/ x \in Rows(table)
      BY <1>1, <2>2 DEF Pending, Rows
    <3>2. CASE Kind[x] \in tables
      BY <1>1, <3>2 DEF Pending
    <3>3. CASE x \in Rows(table) /\ InsertWorks(Rows(table))
      BY <1>3, <3>3 DEF Explained, Settled
    <3>4. CASE x \in Rows(table) /\ at' = at
      BY <1>1, <3>4 DEF Pending, Rows
    <3>5. CASE x \in Rows(table) /\ at' = "isolate" /\ todo' = Rows(table)
      BY <1>1, <3>5 DEF Pending
    <3>6. QED BY <1>4, <3>1, <3>2, <3>3, <3>4, <3>5
  <2>3. QED BY <1>0, <1>1, <1>3, <1>5, <2>1, <2>2, FetchedStays DEF Typed
<1>8. Cardinality(Misjudged)' <= faults'
  <2>1. Misjudged' \subseteq Misjudged /\ faults' \in Nat
    BY <1>0, <1>1, <1>3, <1>4 DEF Misjudged, Good, Typed
  <2>2. QED BY <1>0, <1>3, <2>1, MisjudgedWithin
<1>9. faults' = 0 => unlettered' = {} /\ discarded' = {}
  <2>1. faults \in Nat /\ (faults = 0 => unlettered = {} /\ discarded = {})
    BY DEF PipelineInv, Typed
  <2>2. QED BY <1>1, <1>3, <2>1
<1>10. QED BY <1>5, <1>6, <1>7, <1>8, <1>9 DEF PipelineInv

LEMMA InsertRowStep ==
  ASSUME PipelineInv, InsertRow PROVE PipelineInv'
<1>0. Typed /\ Ordered /\ Stage /\ Cardinality(Misjudged) <= faults
  BY DEF PipelineInv
<1>1. /\ at = "isolate"
      /\ UNCHANGED <<at, pos, committed, batch, tables, table, attempt, dlq, unlettered, discarded>>
  BY DEF InsertRow
<1>2. PICK m \in todo :
         /\ todo' = todo \ {m}
         /\ (InsertWorks({m}) /\ failed' = failed) \/ (InsertFails({m}) /\ failed' = failed \cup {m})
  BY DEF InsertRow
<1>3. m \in batch /\ m \in Messages /\ m \in Rows(table) /\ {m} \in SUBSET Messages
  BY <1>0, <1>1 DEF Typed, Stage
<1>4. /\ inserted' \in [Messages -> 0..MaxCopies] /\ faults' \in 0..MaxFaults /\ faults <= faults'
      /\ \A x \in Messages : inserted[x] <= inserted'[x]
      /\ InsertWorks({m}) => inserted'[m] > 0
      /\ InsertFails({m}) /\ m \notin Poison => faults' = faults + 1
  <2>1. /\ inserted' \in [Messages -> 0..MaxCopies] /\ faults' \in 0..MaxFaults /\ faults <= faults'
        /\ \A x \in Messages : inserted[x] <= inserted'[x]
        /\ InsertWorks({m}) => \A x \in {m} : inserted'[x] > 0
        /\ InsertFails({m}) /\ {m} \cap Poison = {} => faults' = faults + 1
    BY <1>0, <1>2, <1>3, InsertDoes
  <2>2. QED BY <2>1
<1>5. Typed'
  BY <1>0, <1>1, <1>2, <1>3, <1>4 DEF Typed
<1>6. Ordered' /\ Stage'
  <2>1. todo \cup failed \subseteq Rows(table) /\ table \in Tables /\ Rows(table)' = Rows(table)
    BY <1>0, <1>1 DEF Stage, Rows
  <2>2. todo' \cup failed' \subseteq Rows(table)'
    BY <1>2, <1>3, <2>1
  <2>3. Stage'
    BY <1>1, <2>1, <2>2 DEF Stage
  <2>4. QED BY <1>0, <1>1, <2>3 DEF Ordered, Between
<1>7. FetchedExplained'
  <2>1. \A x \in Messages : dlq[x] <= dlq'[x]
    BY <1>0, <1>1 DEF Typed
  <2>2. ASSUME NEW x \in batch, Pending(x) PROVE Explained(x)' \/ Pending(x)'
    <3>1. CASE Kind[x] \in tables
      BY <1>1, <3>1 DEF Pending
    <3>2. CASE x \in todo \cup failed /\ x # m
      BY <1>1, <1>2, <3>2 DEF Pending
    <3>3. CASE x = m /\ InsertWorks({m})
      BY <1>4, <3>3 DEF Explained, Settled
    <3>4. CASE x = m /\ failed' = failed \cup {m}
      BY <1>1, <3>4 DEF Pending
    <3>5. QED BY <1>1, <1>2, <2>2, <3>1, <3>2, <3>3, <3>4 DEF Pending
  <2>3. QED BY <1>0, <1>1, <1>4, <1>5, <2>1, <2>2, FetchedStays DEF Typed
<1>8. Cardinality(Misjudged)' <= faults'
  <2>1. CASE failed' = failed \/ m \in Poison
    <3>1. Misjudged' \subseteq Misjudged /\ faults' \in Nat
      BY <1>1, <1>2, <1>4, <2>1 DEF Misjudged, Good
    <3>2. QED BY <1>0, <1>4, <3>1, MisjudgedWithin
  <2>2. CASE InsertFails({m}) /\ failed' = failed \cup {m} /\ m \notin Poison
    <3>1. Misjudged' \subseteq Misjudged \cup {m} /\ faults' = faults + 1 /\ faults' \in Nat
      BY <1>1, <1>4, <2>2 DEF Misjudged, Good
    <3>2. QED BY <1>0, <1>3, <3>1, MisjudgedWithin
  <2>3. QED BY <1>2, <2>1, <2>2
<1>9. faults' = 0 => unlettered' = {} /\ discarded' = {}
  <2>1. faults \in Nat /\ (faults = 0 => unlettered = {} /\ discarded = {})
    BY DEF PipelineInv, Typed
  <2>2. QED BY <1>1, <1>4, <2>1
<1>10. QED BY <1>5, <1>6, <1>7, <1>8, <1>9 DEF PipelineInv

LEMMA RowDeadLetterStep ==
  ASSUME PipelineInv, RowDeadLetter PROVE PipelineInv'
<1>0. Typed /\ Ordered /\ Stage /\ Cardinality(Misjudged) <= faults
  BY DEF PipelineInv
<1>1. PICK m \in todo : DeadLetter(m) /\ todo' = todo \ {m} /\ at' = IF todo' = {} THEN "pick" ELSE "dead"
  BY DEF RowDeadLetter
<1>2. at = "dead" /\ UNCHANGED <<pos, committed, batch, tables, table, attempt, failed, inserted, discarded>>
  BY DEF RowDeadLetter
<1>3. m \in Messages /\ m \in batch /\ failed = {}
  BY <1>0, <1>1, <1>2 DEF Typed, Stage
<1>4. /\ dlq' \in [Messages -> 0..MaxCopies] /\ faults' \in 0..MaxFaults /\ faults <= faults'
      /\ \A x \in Messages : dlq[x] <= dlq'[x] /\ (x # m => dlq'[x] = dlq[x])
      /\ unlettered \subseteq unlettered' /\ unlettered' \subseteq Messages
      /\ dlq'[m] > 0 \/ m \in unlettered'
      /\ faults' = 0 => faults = 0 /\ unlettered' = unlettered
  BY <1>0, <1>1, <1>3, DeadLetterDoes
<1>5. Typed'
  BY <1>0, <1>1, <1>2, <1>4 DEF Typed
<1>6. Ordered' /\ Stage'
  BY <1>0, <1>1, <1>2, <1>3 DEF Ordered, Between, Stage
<1>7. FetchedExplained'
  <2>1. \A x \in Messages : inserted[x] <= inserted'[x]
    BY <1>0, <1>2 DEF Typed
  <2>2. ASSUME NEW x \in batch, Pending(x) PROVE Explained(x)' \/ Pending(x)'
    <3>1. CASE x = m
      BY <1>4, <3>1 DEF Explained, Settled
    <3>2. CASE x # m
      BY <1>1, <1>2, <2>2, <3>2 DEF Pending
    <3>3. QED BY <3>1, <3>2
  <2>3. QED BY <1>0, <1>2, <1>4, <1>5, <2>1, <2>2, FetchedStays DEF Typed
<1>8. Cardinality(Misjudged)' <= faults'
  <2>1. Misjudged' \subseteq Misjudged
    BY <1>1, <1>2, <1>3, <1>4 DEF Misjudged, Good
  <2>2. QED BY <1>0, <1>4, <2>1, MisjudgedWithin
<1>9. QED BY <1>2, <1>4, <1>5, <1>6, <1>7, <1>8 DEF PipelineInv

\* A batch that starts over owes everything again.
LEMMA StartedOwesAll ==
  ASSUME NEW msgs, StartProcess(msgs) PROVE \A m \in msgs : Pending(m)'
BY DEF StartProcess, Pending

LEMMA IsolatedStep ==
  ASSUME PipelineInv, Isolated PROVE PipelineInv'
<1>0. Typed /\ Ordered /\ Stage /\ Cardinality(Misjudged) <= faults
  BY DEF PipelineInv
<1>1. /\ at = "isolate" /\ todo = {}
      /\ UNCHANGED <<pos, committed, inserted, dlq, faults, unlettered, discarded>>
      /\ failed \subseteq batch
  BY <1>0 DEF Isolated, history, Typed
<1>2. /\ batch' = batch /\ todo' \subseteq batch /\ failed' = {} /\ tables' \subseteq Tables
      /\ table' \in Tables \cup {"none"} /\ attempt' \in 0..Retries
      /\ \/ StartProcess(batch)
         \/ failed = {} /\ at' = "pick" /\ todo' = {} /\ tables' = tables
         \/ failed # {} /\ at' = "dead" /\ todo' = failed /\ tables' = tables
  <2>1. CASE failed = Rows(table)
    BY <1>0, <2>1, PipelineAssumption DEF Isolated, StartProcess
  <2>2. CASE failed # Rows(table)
    <3>1. /\ at' = IF failed = {} THEN "pick" ELSE "dead"
          /\ todo' = failed /\ failed' = {} /\ UNCHANGED <<batch, tables, table, attempt>>
      BY <2>2 DEF Isolated
    <3>2. QED BY <1>0, <1>1, <3>1 DEF Typed
  <2>3. QED BY <2>1, <2>2
<1>3. at' \in {"route", "pick", "dead"}
  BY <1>2 DEF StartProcess
<1>4. Typed'
  BY <1>0, <1>1, <1>2, <1>3 DEF Typed
<1>5. Ordered' /\ Stage'
  <2>1. at' = "route" => \A m \in todo' : Kind[m] \notin Tables
    BY <1>2, <1>3 DEF StartProcess
  <2>2. at' = "pick" => todo' = {}
    BY <1>2, <1>3 DEF StartProcess
  <2>3. QED BY <1>0, <1>1, <1>2, <1>3, <2>1, <2>2 DEF Ordered, Between, Stage
<1>6. FetchedExplained'
  <2>1. \A x \in Messages : inserted[x] <= inserted'[x] /\ dlq[x] <= dlq'[x]
    BY <1>0, <1>1 DEF Typed
  <2>2. ASSUME NEW x \in batch, Pending(x) PROVE Explained(x)' \/ Pending(x)'
    <3>1. CASE StartProcess(batch)
      BY <3>1, StartedOwesAll
    <3>2. CASE failed = {} /\ at' = "pick" /\ tables' = tables
      BY <1>1, <2>2, <3>2 DEF Pending
    <3>3. CASE at' = "dead" /\ todo' = failed /\ tables' = tables
      BY <1>1, <2>2, <3>3 DEF Pending
    <3>4. QED BY <1>2, <3>1, <3>2, <3>3
  <2>3. QED BY <1>1, <1>2, <1>4, <2>1, <2>2, FetchedStays DEF Typed
<1>7. Cardinality(Misjudged)' <= faults'
  <2>1. at' = "dead" => todo' \subseteq failed
    BY <1>2, <1>3 DEF StartProcess
  <2>2. Misjudged' \subseteq Misjudged /\ faults' = faults /\ faults \in Nat
    BY <1>0, <1>1, <1>2, <2>1 DEF Misjudged, Good, Typed
  <2>3. QED BY <1>0, <2>2, MisjudgedWithin
<1>8. QED BY <1>1, <1>4, <1>5, <1>6, <1>7 DEF PipelineInv

\* Positions in the log hold messages, and different positions different ones.
LEMMA InLog ==
  ASSUME NEW from \in Positions, NEW to \in Positions, \A p \in Partitions : to[p] <= End[p],
         NEW m \in Between(from, to)
  PROVE  \E p \in Partitions : \E i \in 1..Len(Log[p]) :
           m = Log[p][i] /\ m \in Messages /\ from[p] < i /\ i <= to[p]
<1>1. PICK p \in Partitions : \E i \in (from[p] + 1)..to[p] : m = Log[p][i]
  BY InBetween
<1>2. PICK i \in (from[p] + 1)..to[p] : m = Log[p][i]
  BY <1>1
<1>3. /\ from[p] \in 0..MaxOffset /\ to[p] \in 0..MaxOffset /\ to[p] <= Len(Log[p])
      /\ Log[p] \in Seq(Messages) /\ Len(Log[p]) \in Nat /\ MaxOffset \in Nat
  BY PipelineAssumption DEF Positions, End
<1>4. i \in 1..Len(Log[p]) /\ from[p] < i /\ i <= to[p]
  BY <1>2, <1>3
<1>5. m \in Messages
  BY <1>2, <1>3, <1>4
<1>6. QED BY <1>2, <1>4, <1>5

LEMMA OnlyOnce ==
  ASSUME NEW a \in Positions, NEW b \in Positions, NEW c \in Positions, NEW d \in Positions,
         \A p \in Partitions : b[p] <= c[p] /\ b[p] <= End[p] /\ d[p] <= End[p]
  PROVE  Between(a, b) \cap Between(c, d) = {}
<1>1. SUFFICES ASSUME NEW m \in Between(a, b), m \in Between(c, d) PROVE FALSE
  OBVIOUS
<1>2. PICK p \in Partitions : \E i \in 1..Len(Log[p]) : m = Log[p][i] /\ i <= b[p]
  BY InLog
<1>3. PICK i \in 1..Len(Log[p]) : m = Log[p][i] /\ i <= b[p]
  BY <1>2
<1>4. PICK q \in Partitions : \E j \in 1..Len(Log[q]) : m = Log[q][j] /\ c[q] < j
  BY <1>1, InLog
<1>5. PICK j \in 1..Len(Log[q]) : m = Log[q][j] /\ c[q] < j
  BY <1>4
<1>6. p = q /\ i = j
  BY <1>3, <1>5, PipelineAssumption
<1>7. b[p] \in Nat /\ c[p] \in Nat /\ b[p] <= c[p] /\ Len(Log[p]) \in Nat
  BY PipelineAssumption DEF Positions
<1>8. QED BY <1>3, <1>5, <1>6, <1>7

LEMMA LogPositions ==
  /\ Zero \in Positions /\ End \in Positions /\ End = [p \in Partitions |-> Len(Log[p])]
  /\ \A p \in Partitions : Zero[p] = 0 /\ End[p] \in Nat
BY PipelineAssumption DEF Zero, End, Positions

\* A commit covers only what has been explained.
LEMMA CommitStep ==
  ASSUME PipelineInv, Commit PROVE PipelineInv'
<1>0. Typed /\ Ordered /\ Stage /\ Cardinality(Misjudged) <= faults
  BY DEF PipelineInv
<1>1. /\ at = "commit" /\ at' = "poll" /\ batch' = {} /\ todo' = {} /\ tables' = {} /\ table' = "none"
      /\ attempt' = 0 /\ failed' = {} /\ UNCHANGED <<pos, inserted, dlq, unlettered, discarded>>
      /\ todo = {} /\ tables = {} /\ failed = {}
  BY <1>0 DEF Commit, Idle, Stage
<1>2. committed' \in {committed, CommittedTo}
  BY DEF Commit
<1>3. faults' \in 0..MaxFaults /\ faults <= faults' /\ faults \in Nat
  <2>1. faults \in 0..MaxFaults /\ MaxFaults \in Nat
    BY <1>0, PipelineAssumption DEF Typed
  <2>2. faults' = faults \/ (faults < MaxFaults /\ faults' = faults + 1)
    BY DEF Commit, Fault, NoFault
  <2>3. QED BY <2>1, <2>2
<1>4. committed' \in Positions /\ \A p \in Partitions : committed'[p] <= pos[p]
  <2>1. /\ committed \in Positions /\ pos \in Positions
        /\ \A p \in Partitions : pos[p] \in Nat /\ committed[p] <= pos[p]
    BY <1>0, PipelineAssumption DEF Typed, Ordered, Positions
  <2>2. \A p \in Partitions : CommittedTo[p] \in {pos[p], committed[p]}
    BY DEF CommittedTo
  <2>3. CommittedTo = [p \in Partitions |-> CommittedTo[p]]
    BY DEF CommittedTo
  <2>4. CommittedTo \in Positions /\ \A p \in Partitions : CommittedTo[p] <= pos[p]
    BY <2>1, <2>2, <2>3 DEF Positions
  <2>5. QED BY <1>2, <2>1, <2>4
<1>5. Typed'
  BY <1>0, <1>1, <1>3, <1>4, PipelineAssumption DEF Typed
<1>6. Ordered' /\ Stage'
  <2>1. \A p \in Partitions : committed'[p] <= pos'[p] /\ pos'[p] <= End[p]
    BY <1>0, <1>1, <1>4 DEF Ordered
  <2>2. QED BY <1>1, <2>1 DEF Ordered, End, Stage
<1>7. FetchedExplained'
  <2>1. ASSUME NEW m \in Between(Zero, pos) PROVE Explained(m)'
    <3>1. Explained(m)
      BY <1>1 DEF PipelineInv, FetchedExplained, Pending
    <3>2. QED BY <1>1, <3>1 DEF Explained, Settled
  <2>2. Between(Zero, pos)' = Between(Zero, pos)
    BY <1>1 DEF Between
  <2>3. QED BY <2>1, <2>2 DEF FetchedExplained
<1>8. Cardinality(Misjudged)' <= faults'
  <2>1. Misjudged' \subseteq Misjudged
    BY <1>1 DEF Misjudged, Good
  <2>2. QED BY <1>0, <1>3, <2>1, MisjudgedWithin
<1>9. faults' = 0 => unlettered' = {} /\ discarded' = {}
  <2>1. faults \in Nat /\ (faults = 0 => unlettered = {} /\ discarded = {})
    BY <1>3 DEF PipelineInv
  <2>2. QED BY <1>1, <1>3, <2>1
<1>10. QED BY <1>5, <1>6, <1>7, <1>8, <1>9 DEF PipelineInv

\* What is fetched up to a later position was fetched before or lies between the two.
LEMMA FetchedSplits ==
  ASSUME NEW to \in Positions, Typed, NEW m \in Between(Zero, to), \A p \in Partitions : to[p] <= End[p]
  PROVE  m \in Between(Zero, pos) \/ m \in Between(pos, to)
<1>1. PICK p \in Partitions : \E i \in 1..Len(Log[p]) : m = Log[p][i] /\ Zero[p] < i /\ i <= to[p]
  BY InLog, LogPositions
<1>2. PICK i \in 1..Len(Log[p]) : m = Log[p][i] /\ Zero[p] < i /\ i <= to[p]
  BY <1>1
<1>3. pos[p] \in Nat /\ to[p] \in Nat /\ Zero[p] = 0 /\ Len(Log[p]) \in Nat
  BY LogPositions, PipelineAssumption DEF Typed, Positions
<1>4. i \in (Zero[p] + 1)..pos[p] \/ i \in (pos[p] + 1)..to[p]
  BY <1>2, <1>3
<1>5. QED BY <1>2, <1>4, InBetween

\* The positions a poll may advance to.
LEMMA AheadOf ==
  ASSUME Typed, Ordered, NEW err, NEW to \in Ahead(err)
  PROVE  /\ to \in Positions /\ \A p \in Partitions : pos[p] <= to[p] /\ to[p] <= End[p] /\ committed[p] <= to[p]
         /\ Between(pos, to) \subseteq Messages /\ Between(pos, to) \subseteq Between(committed, End)
<1>1. /\ to \in Positions /\ pos \in Positions /\ committed \in Positions
      /\ \A p \in Partitions : pos[p] <= to[p] /\ to[p] <= End[p] /\ committed[p] <= pos[p]
  BY DEF Ahead, Positions, Typed, Ordered
<1>2. \A p \in Partitions : pos[p] \in Nat /\ to[p] \in Nat /\ committed[p] \in Nat /\ End[p] \in Nat
  BY <1>1, LogPositions, PipelineAssumption DEF Positions
<1>3. \A p \in Partitions : committed[p] <= to[p]
  BY <1>1, <1>2
<1>4. ASSUME NEW m \in Between(pos, to) PROVE m \in Messages /\ m \in Between(committed, End)
  <2>1. PICK p \in Partitions : \E i \in 1..Len(Log[p]) : m = Log[p][i] /\ m \in Messages /\ pos[p] < i /\ i <= to[p]
    BY <1>1, InLog
  <2>2. PICK i \in 1..Len(Log[p]) : m = Log[p][i] /\ m \in Messages /\ pos[p] < i /\ i <= to[p]
    BY <2>1
  <2>3. i \in (committed[p] + 1)..End[p]
    BY <1>1, <1>2, <2>2
  <2>4. QED BY <2>2, <2>3, InBetween
<1>5. QED BY <1>1, <1>3, <1>4

LEMMA PollStep ==
  ASSUME PipelineInv, Poll PROVE PipelineInv'
<1>0. Typed /\ Ordered /\ Stage /\ Cardinality(Misjudged) <= faults
  BY DEF PipelineInv
<1>1. PICK to \in Ahead({}) \ {pos} : pos' = to /\ StartProcess(Between(pos, to))
  BY DEF Poll
<1>2. at = "poll" /\ UNCHANGED <<committed, inserted, dlq, faults, unlettered, discarded>> /\ batch = {} /\ tables = {}
  BY <1>0 DEF Poll, history, Stage
<1>3. /\ to \in Positions /\ \A p \in Partitions : pos[p] <= to[p] /\ to[p] <= End[p] /\ committed[p] <= to[p]
      /\ Between(pos, to) \subseteq Messages /\ Between(pos, to) \subseteq Between(committed, End)
  BY <1>0, <1>1, AheadOf
<1>4. /\ at' = "route" /\ batch' = Between(pos, to) /\ failed' = {} /\ table' = "none" /\ attempt' = 0
      /\ todo' = {m \in Between(pos, to) : Kind[m] \notin Tables} /\ tables' \subseteq Tables
  BY <1>1 DEF StartProcess
<1>5. Typed'
  BY <1>0, <1>1, <1>2, <1>3, <1>4, PipelineAssumption DEF Typed
<1>6. Ordered' /\ Stage'
  <2>1. Between(committed, End)' = Between(committed, End)
    BY <1>2 DEF Between, End
  <2>2. \A p \in Partitions : committed'[p] <= pos'[p] /\ pos'[p] <= End[p]
    BY <1>1, <1>2, <1>3
  <2>3. Ordered'
    BY <1>3, <1>4, <2>1, <2>2 DEF Ordered, End
  <2>4. QED BY <1>4, <2>3 DEF Stage
<1>7. FetchedExplained'
  <2>1. ASSUME NEW m \in Between(Zero, to) PROVE Explained(m)' \/ (m \in batch' /\ Pending(m)')
    <3>1. CASE m \in Between(Zero, pos)
      <4>1. Explained(m)
        BY <1>2, <3>1 DEF PipelineInv, FetchedExplained
      <4>2. QED BY <1>2, <4>1 DEF Explained, Settled
    <3>2. CASE m \in Between(pos, to)
      BY <1>1, <1>4, <3>2, StartedOwesAll
    <3>3. QED BY <1>0, <1>3, <3>1, <3>2, FetchedSplits
  <2>2. Between(Zero, pos)' = Between(Zero, to)
    BY <1>1 DEF Between
  <2>3. QED BY <2>1, <2>2 DEF FetchedExplained
<1>8. Cardinality(Misjudged)' <= faults'
  <2>1. Misjudged' \subseteq Misjudged /\ faults' = faults /\ faults \in Nat
    BY <1>0, <1>2, <1>4 DEF Misjudged, Good, Typed
  <2>2. QED BY <1>0, <2>1, MisjudgedWithin
<1>9. QED BY <1>2, <1>5, <1>6, <1>7, <1>8 DEF PipelineInv

LEMMA PollErrorStep ==
  ASSUME PipelineInv, PollError PROVE PipelineInv'
<1>0. Typed /\ Ordered /\ Stage /\ Cardinality(Misjudged) <= faults
  BY DEF PipelineInv
<1>1. PICK p \in Partitions : \E to \in Ahead({p}) : pos' = to /\ discarded' = discarded \cup Between(pos, to)
  BY DEF PollError
<1>2. PICK to \in Ahead({p}) : pos' = to /\ discarded' = discarded \cup Between(pos, to)
  BY <1>1
<1>3. /\ at = "poll" /\ UNCHANGED <<at, committed, batch, todo, tables, table, attempt, failed, inserted, dlq, unlettered>>
      /\ faults' = faults + 1 /\ faults < MaxFaults /\ batch = {} /\ tables = {}
  BY <1>0 DEF PollError, work, Fault, Stage
<1>4. faults' \in 0..MaxFaults /\ faults <= faults' /\ faults \in Nat /\ faults' # 0
  <2>1. faults \in 0..MaxFaults /\ MaxFaults \in Nat
    BY <1>0, PipelineAssumption DEF Typed
  <2>2. QED BY <1>3, <2>1
<1>5. /\ to \in Positions /\ \A q \in Partitions : pos[q] <= to[q] /\ to[q] <= End[q] /\ committed[q] <= to[q]
      /\ Between(pos, to) \subseteq Messages /\ Between(pos, to) \subseteq Between(committed, End)
  BY <1>0, AheadOf
<1>6. Typed'
  BY <1>0, <1>2, <1>3, <1>4, <1>5 DEF Typed
<1>7. Ordered' /\ Stage'
  <2>1. \A q \in Partitions : committed'[q] <= pos'[q] /\ pos'[q] <= End[q]
    BY <1>2, <1>3, <1>5
  <2>2. Ordered'
    BY <1>3, <2>1 DEF Ordered, End
  <2>3. QED BY <1>0, <1>3, <2>2 DEF Stage, Rows
<1>8. FetchedExplained'
  <2>1. ASSUME NEW m \in Between(Zero, to) PROVE Explained(m)'
    <3>1. CASE m \in Between(Zero, pos)
      <4>1. Explained(m)
        BY <1>3, <3>1 DEF PipelineInv, FetchedExplained
      <4>2. QED BY <1>2, <1>3, <4>1 DEF Explained, Settled
    <3>2. CASE m \in Between(pos, to)
      BY <1>2, <3>2 DEF Explained
    <3>3. QED BY <1>0, <1>5, <3>1, <3>2, FetchedSplits
  <2>2. Between(Zero, pos)' = Between(Zero, to)
    BY <1>2 DEF Between
  <2>3. QED BY <2>1, <2>2 DEF FetchedExplained
<1>9. Cardinality(Misjudged)' <= faults'
  <2>1. Misjudged' \subseteq Misjudged
    BY <1>3 DEF Misjudged, Good
  <2>2. QED BY <1>0, <1>4, <2>1, MisjudgedWithin
<1>10. QED BY <1>4, <1>6, <1>7, <1>8, <1>9 DEF PipelineInv

\* A restart fetches again from the committed offsets, behind which nothing is pending.
LEMMA CrashStep ==
  ASSUME PipelineInv, Crash PROVE PipelineInv'
<1>0. Typed /\ Ordered /\ Stage /\ Cardinality(Misjudged) <= faults
  BY DEF PipelineInv
<1>1. /\ at' = "poll" /\ batch' = {} /\ todo' = {} /\ tables' = {} /\ table' = "none"
      /\ attempt' = 0 /\ failed' = {} /\ UNCHANGED <<committed, inserted, dlq, unlettered>>
      /\ pos' = committed /\ discarded' = discarded \ Between(committed, End)
      /\ faults' = faults + 1 /\ faults < MaxFaults
  BY DEF Crash, Idle, Fault
<1>2. faults' \in 0..MaxFaults /\ faults <= faults' /\ faults \in Nat /\ faults' # 0
  <2>1. faults \in 0..MaxFaults /\ MaxFaults \in Nat
    BY <1>0, PipelineAssumption DEF Typed
  <2>2. QED BY <1>1, <2>1
<1>3. /\ pos \in Positions /\ committed \in Positions
      /\ \A p \in Partitions : /\ committed[p] <= pos[p] /\ pos[p] <= End[p] /\ committed[p] <= End[p]
                              /\ committed[p] \in Nat
  <2>1. \A p \in Partitions : /\ committed[p] <= pos[p] /\ pos[p] <= End[p]
                             /\ committed[p] \in Nat /\ pos[p] \in Nat /\ End[p] \in Nat
    BY <1>0, LogPositions, PipelineAssumption DEF Typed, Ordered, Positions
  <2>2. QED BY <1>0, <2>1 DEF Typed
<1>4. Typed'
  BY <1>0, <1>1, <1>2, <1>3, PipelineAssumption DEF Typed
<1>5. Ordered' /\ Stage'
  <2>1. \A p \in Partitions : committed'[p] <= pos'[p] /\ pos'[p] <= End[p]
    BY <1>1, <1>3
  <2>2. QED BY <1>1, <2>1 DEF Ordered, End, Stage
<1>6. FetchedExplained'
  <2>1. ASSUME NEW m \in Between(Zero, committed) PROVE Explained(m)'
    <3>1. m \in Between(Zero, pos) /\ m \notin Between(committed, End)
      <4>0. \A p \in Partitions : committed[p] <= committed[p] /\ committed[p] <= End[p] /\ End[p] <= End[p]
        BY <1>3, LogPositions
      <4>a. Between(Zero, committed) \cap Between(committed, End) = {}
        BY <1>3, <4>0, LogPositions, OnlyOnce
      <4>1. m \notin Between(committed, End)
        BY <4>a
      <4>2. PICK p \in Partitions : \E i \in 1..Len(Log[p]) : m = Log[p][i] /\ i <= committed[p]
        BY <1>3, LogPositions, InLog
      <4>3. PICK i \in 1..Len(Log[p]) : m = Log[p][i] /\ i <= committed[p]
        BY <4>2
      <4>4. pos[p] \in Nat /\ committed[p] \in Nat /\ committed[p] <= pos[p] /\ Zero[p] = 0 /\ Len(Log[p]) \in Nat
        BY <1>3, LogPositions, PipelineAssumption DEF Positions
      <4>5. i \in (Zero[p] + 1)..pos[p]
        BY <4>3, <4>4
      <4>6. QED BY <4>1, <4>3, <4>5, InBetween
    <3>2. m \notin batch
      BY <1>0, <3>1 DEF Ordered
    <3>3. Explained(m)
      BY <3>1, <3>2 DEF PipelineInv, FetchedExplained
    <3>4. QED BY <1>1, <3>1, <3>3 DEF Explained, Settled
  <2>2. Between(Zero, pos)' = Between(Zero, committed)
    BY <1>1 DEF Between
  <2>3. QED BY <2>1, <2>2 DEF FetchedExplained
<1>7. Cardinality(Misjudged)' <= faults'
  <2>1. Misjudged' \subseteq Misjudged
    BY <1>1 DEF Misjudged, Good
  <2>2. QED BY <1>0, <1>2, <2>1, MisjudgedWithin
<1>8. QED BY <1>2, <1>4, <1>5, <1>6, <1>7 DEF PipelineInv
-----------------------------------------------------------------------------
(***************************************************************************)
(* The invariant and what it says.                                         *)
(***************************************************************************)
LEMMA PipelineInvInit == Init => PipelineInv
<1> SUFFICES ASSUME Init PROVE PipelineInv
  OBVIOUS
<1>1. Typed
  BY PipelineAssumption DEF Init, Typed, Positions
<1>2. Ordered /\ Stage
  <2>1. \A p \in Partitions : committed[p] = 0 /\ pos[p] = 0 /\ 0 <= End[p]
    BY LogPositions DEF Init
  <2>2. QED BY <2>1 DEF Init, Ordered, Stage
<1>3. FetchedExplained
  <2>1. Between(Zero, pos) = {}
    BY InBetween, LogPositions DEF Init
  <2>2. QED BY <2>1 DEF FetchedExplained
<1>4. Cardinality(Misjudged) <= faults
  <2>1. Misjudged = {} /\ faults = 0
    BY DEF Init, Misjudged
  <2>2. QED BY <2>1, FS_EmptySet
<1>5. QED BY <1>1, <1>2, <1>3, <1>4 DEF PipelineInv, Init

LEMMA PipelineStutter ==
  ASSUME PipelineInv, UNCHANGED vars PROVE PipelineInv'
<1>1. UNCHANGED <<at, pos, committed, batch, todo, tables, table, attempt, failed, inserted, dlq, faults, unlettered,
                  discarded>>
  BY DEF vars, work, history
<1>2. /\ Typed' /\ Ordered' /\ Stage' /\ FetchedExplained' /\ Misjudged' = Misjudged
  BY <1>1 DEF PipelineInv, Typed, Ordered, Between, Stage, Rows, FetchedExplained, Explained, Settled, Pending,
              Misjudged, Good
<1>3. QED BY <1>1, <1>2 DEF PipelineInv

LEMMA PipelineInvNext == PipelineInv /\ [Next]_vars => PipelineInv'
<1> SUFFICES ASSUME PipelineInv, [Next]_vars PROVE PipelineInv'
  OBVIOUS
<1>1. QED BY PipelineStutter, RouteDeadLetterStep, PickTableStep, ProcessReturnsStep, InsertBatchStep, InsertRowStep,
             IsolatedStep, RowDeadLetterStep, CommitStep, PollStep, PollErrorStep, CrashStep DEF Next, Work

\* The invariant holds throughout, for every value of the constants.
THEOREM PipelineInvAlways == Spec => []PipelineInv
BY PipelineInvInit, PipelineInvNext, PTL DEF Spec

\* The worker's state keeps its types (consumer.go, pipeline.go).
THEOREM PipelineTypeCorrect == Spec => []TypeOK
<1>1. PipelineInv => TypeOK
  BY DEF PipelineInv, Typed, Positions, TypeOK
<1>2. QED BY <1>1, PipelineInvAlways, PTL

LEMMA CommittedExplained ==
  ASSUME PipelineInv, NEW m \in BehindOffset PROVE Explained(m) /\ m \in Messages
<1>1. Typed /\ Ordered /\ BehindOffset = Between(Zero, committed) /\ pos \in Positions /\ committed \in Positions
  BY DEF PipelineInv, BehindOffset, Zero, Typed
<1>2. \A p \in Partitions : /\ committed[p] <= pos[p] /\ pos[p] <= End[p] /\ committed[p] <= End[p]
                           /\ committed[p] \in Nat /\ pos[p] \in Nat
  <2>1. \A p \in Partitions : /\ committed[p] <= pos[p] /\ pos[p] <= End[p]
                             /\ committed[p] \in Nat /\ pos[p] \in Nat /\ End[p] \in Nat
    BY <1>1, LogPositions, PipelineAssumption DEF Ordered, Positions
  <2>2. QED BY <2>1
<1>3. m \notin batch
  <2>0. \A p \in Partitions : committed[p] <= committed[p] /\ committed[p] <= End[p] /\ End[p] <= End[p]
    BY <1>2, LogPositions
  <2>1. Between(Zero, committed) \cap Between(committed, End) = {}
    BY <1>1, <2>0, LogPositions, OnlyOnce
  <2>2. QED BY <1>1, <2>1 DEF Ordered
<1>4. PICK p \in Partitions : \E i \in 1..Len(Log[p]) : m = Log[p][i] /\ m \in Messages /\ i <= committed[p]
  BY <1>1, <1>2, LogPositions, InLog
<1>5. PICK i \in 1..Len(Log[p]) : m = Log[p][i] /\ m \in Messages /\ i <= committed[p]
  BY <1>4
<1>6. Zero[p] = 0 /\ Len(Log[p]) \in Nat
  BY LogPositions, PipelineAssumption
<1>7. i \in (Zero[p] + 1)..pos[p]
  BY <1>2, <1>5, <1>6
<1>8. m \in Between(Zero, pos)
  BY <1>5, <1>7, InBetween
<1>9. QED BY <1>3, <1>5, <1>8 DEF PipelineInv, FetchedExplained

\* Whatever is lost behind the committed offsets is explained, message by message, and
\* good rows end in events.dlq at most once per failure: for any log, interleaving of
\* crashes, retries and tables, and any number of faults (Consumer.Run, Pipeline.Process).
THEOREM LossesAreExplained == Spec => []LossesExplained
<1>1. PipelineInv => LossesExplained
  <2> SUFFICES ASSUME PipelineInv PROVE LossesExplained
    OBVIOUS
  <2>1. \A m \in BehindOffset : Settled(m) \/ m \in unlettered \cup discarded
    BY CommittedExplained DEF Explained
  <2>2. Cardinality({m \in Messages : dlq[m] > 0 /\ Kind[m] \in Tables /\ m \notin Poison}) <= faults
    <3> DEFINE S == {m \in Messages : dlq[m] > 0 /\ Kind[m] \in Tables /\ m \notin Poison}
    <3>1. S \subseteq Misjudged /\ Misjudged \subseteq Messages /\ IsFiniteSet(Messages)
      BY PipelineAssumption DEF Misjudged, Good
    <3> HIDE DEF S
    <3>2. IsFiniteSet(Misjudged)
      BY <3>1, FS_Subset
    <3>3. Cardinality(S) <= Cardinality(Misjudged) /\ Cardinality(S) \in Nat /\ Cardinality(Misjudged) \in Nat
      BY <3>1, <3>2, FS_Subset, FS_CardinalityType
    <3>4. Cardinality(Misjudged) <= faults /\ faults \in Nat
      BY DEF PipelineInv, Typed
    <3>5. Cardinality(S) <= faults
      BY <3>3, <3>4
    <3>6. QED BY <3>5 DEF S
  <2>3. QED BY <2>1, <2>2 DEF LossesExplained
<1>2. QED BY <1>1, PipelineInvAlways, PTL

\* Until a call fails or a worker crashes, offsets are committed only after every
\* message behind them is inserted or dead-lettered, as Consumer.Run promises.
THEOREM NoFaultNoLoss == Spec => [](faults = 0 => CommittedIsSettled)
<1>1. PipelineInv => (faults = 0 => CommittedIsSettled)
  BY CommittedExplained DEF PipelineInv, Explained, CommittedIsSettled
<1>2. QED BY <1>1, PipelineInvAlways, PTL
=============================================================================
