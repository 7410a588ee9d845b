------------------------------ MODULE ChInsert ------------------------------
(***************************************************************************)
(* workers/internal/chinsert: the consumer of events.raw and the pipeline  *)
(* that inserts its batches into ClickHouse, with poison messages going to *)
(* events.dlq.  A transient failure of a call (an insert, a dead-letter    *)
(* produce, an offset commit) says nothing about whether the call took     *)
(* effect.  The worker may crash, or be cancelled, at any step; it then    *)
(* resumes from the committed offsets.  The messages of a batch are        *)
(* handled one by one; their order is immaterial, so a batch is a set.     *)
(***************************************************************************)
EXTENDS Integers, Sequences, FiniteSets

CONSTANTS
  Partitions,
  Messages,
  Log,         \* events.raw: the sequence of messages of each partition
  MaxOffset,   \* length of the longest partition
  Tables,      \* the tables route returns
  Kind,        \* of each message: its table, or "badjson", or "unroutable"
  Poison,      \* messages whose row ClickHouse rejects
  Retries,     \* Pipeline.retries
  MaxFaults,   \* bound on transient failures and crashes
  MaxCopies    \* copies of a row or record are counted up to this bound

ASSUME PipelineAssumption ==
  /\ IsFiniteSet(Partitions) /\ IsFiniteSet(Messages)
  /\ MaxOffset \in Nat
  /\ Log \in [Partitions -> Seq(Messages)]
  /\ \A p \in Partitions : Len(Log[p]) <= MaxOffset
  /\ \A p, q \in Partitions : \A i \in 1..Len(Log[p]), j \in 1..Len(Log[q]) :
       Log[p][i] = Log[q][j] => p = q /\ i = j   \* a message is one record
  /\ Kind \in [Messages -> Tables \cup {"badjson", "unroutable"}]
  /\ Poison \subseteq {m \in Messages : Kind[m] \in Tables}
  /\ Retries \in Nat /\ MaxFaults \in Nat /\ MaxCopies \in Nat \ {0}

VARIABLES
  at,         \* where Run is: "poll", "route", "pick", "insert", "isolate", "dead", "commit"
  pos,        \* the client's fetch position in each partition
  committed,  \* the group's committed offset in each partition
  batch,      \* the messages Run is processing
  todo,       \* what is left of the loop the worker is in
  tables,     \* tables Process has not flushed yet
  table,      \* the table being flushed
  attempt,    \* insertWithRetry's attempt
  failed,     \* rows the isolation loop could not insert
  inserted,   \* how often each message's row went into its table
  dlq,        \* how often each message went into events.dlq
  faults,     \* history: failures so far
  unlettered, \* history: messages whose dead-letter call failed
  discarded   \* history: messages Run dropped because the same poll had an error

work == <<batch, todo, tables, table, attempt, failed>>
history == <<faults, unlettered, discarded>>
vars == <<at, pos, committed, work, inserted, dlq, history>>

TypeOK ==
  /\ at \in {"poll", "route", "pick", "insert", "isolate", "dead", "commit"}
  /\ pos \in [Partitions -> 0..MaxOffset] /\ committed \in [Partitions -> 0..MaxOffset]
  /\ batch \subseteq Messages /\ todo \subseteq batch /\ failed \subseteq batch
  /\ tables \subseteq Tables /\ table \in Tables \cup {"none"}
  /\ attempt \in 0..Retries
  /\ inserted \in [Messages -> 0..MaxCopies] /\ dlq \in [Messages -> 0..MaxCopies]
  /\ faults \in 0..MaxFaults
  /\ unlettered \subseteq Messages /\ discarded \subseteq Messages
-----------------------------------------------------------------------------
Fault == faults < MaxFaults /\ faults' = faults + 1
NoFault == UNCHANGED faults

\* One more copy of each of ms, counted up to MaxCopies.
OneMore(f, ms) ==
  [m \in Messages |-> IF m \in ms /\ f[m] < MaxCopies THEN f[m] + 1 ELSE f[m]]

\* The messages between two positions of every partition.
Between(from, to) ==
  UNION {{Log[p][i] : i \in (from[p] + 1)..to[p]} : p \in Partitions}
End == [p \in Partitions |-> Len(Log[p])]

\* Positions a poll may advance to, leaving the partitions of err alone.
Ahead(err) ==
  {to \in [Partitions -> 0..MaxOffset] :
     \A p \in Partitions : /\ pos[p] <= to[p] /\ to[p] <= End[p]
                           /\ p \in err => to[p] = pos[p]}

Idle == batch' = {} /\ todo' = {} /\ tables' = {} /\ table' = "none" /\ attempt' = 0 /\ failed' = {}

Init ==
  /\ at = "poll"
  /\ pos = [p \in Partitions |-> 0] /\ committed = [p \in Partitions |-> 0]
  /\ batch = {} /\ todo = {} /\ tables = {} /\ table = "none" /\ attempt = 0 /\ failed = {}
  /\ inserted = [m \in Messages |-> 0] /\ dlq = [m \in Messages |-> 0]
  /\ faults = 0 /\ unlettered = {} /\ discarded = {}
-----------------------------------------------------------------------------
\* Process starts (over) on a batch: route sends each message to its table's rows
\* or to events.dlq; it never decides routeSkip.
StartProcess(msgs) ==
  /\ at' = "route"
  /\ batch' = msgs
  /\ todo' = {m \in msgs : Kind[m] \notin Tables}
  /\ tables' = {Kind[m] : m \in msgs} \cap Tables
  /\ table' = "none" /\ attempt' = 0 /\ failed' = {}

Poll ==
  /\ at = "poll"
  /\ \E to \in Ahead({}) \ {pos} :
       pos' = to /\ StartProcess(Between(pos, to))
  /\ UNCHANGED <<committed, inserted, dlq, history>>

\* The poll reports an error for one partition, with records of others: Run logs
\* the error and polls again, and the client does not return those records twice.
PollError ==
  /\ at = "poll"
  /\ Fault
  /\ \E p \in Partitions : \E to \in Ahead({p}) :
       pos' = to /\ discarded' = discarded \cup Between(pos, to)
  /\ UNCHANGED <<at, committed, work, inserted, dlq, unlettered>>

\* One dead-letter call; an error is logged and swallowed.
DeadLetter(m) ==
  \/ /\ NoFault
     /\ dlq' = OneMore(dlq, {m})
     /\ UNCHANGED unlettered
  \/ /\ Fault
     /\ dlq' \in {dlq, OneMore(dlq, {m})}
     /\ unlettered' = unlettered \cup {m}

RouteDeadLetter ==
  /\ at = "route"
  /\ \E m \in todo : DeadLetter(m) /\ todo' = todo \ {m}
  /\ UNCHANGED <<at, pos, committed, batch, tables, table, attempt, failed, inserted, discarded>>

Rows(t) == {m \in batch : Kind[m] = t}

\* Process flushes the tables in the order of a map iteration: any order.
PickTable ==
  /\ at \in {"route", "pick"} /\ todo = {} /\ tables # {}
  /\ \E t \in tables : table' = t /\ tables' = tables \ {t}
  /\ at' = "insert" /\ attempt' = 0
  /\ UNCHANGED <<pos, committed, batch, todo, failed, inserted, dlq, history>>

ProcessReturns ==
  /\ at \in {"route", "pick"} /\ todo = {} /\ tables = {}
  /\ at' = "commit"
  /\ UNCHANGED <<pos, committed, work, inserted, dlq, history>>

\* One bad row makes ClickHouse refuse an insert; a failed call may have worked.
InsertWorks(rows) ==
  /\ rows \cap Poison = {}
  /\ NoFault
  /\ inserted' = OneMore(inserted, rows)

InsertFails(rows) ==
  \/ rows \cap Poison # {} /\ NoFault /\ UNCHANGED inserted
  \/ Fault /\ UNCHANGED inserted
  \/ rows \cap Poison = {} /\ Fault /\ inserted' = OneMore(inserted, rows)

\* flush, insertWithRetry: the table's rows in one insert.
InsertBatch ==
  /\ at = "insert"
  /\ \/ InsertWorks(Rows(table)) /\ at' = "pick" /\ UNCHANGED <<todo, attempt>>
     \/ /\ InsertFails(Rows(table))
        /\ IF attempt < Retries
           THEN attempt' = attempt + 1 /\ UNCHANGED <<at, todo>>
           ELSE at' = "isolate" /\ todo' = Rows(table) /\ UNCHANGED attempt
  /\ UNCHANGED <<pos, committed, batch, tables, table, failed, dlq, unlettered, discarded>>

\* flush: the rows one by one.
InsertRow ==
  /\ at = "isolate"
  /\ \E m \in todo :
       /\ todo' = todo \ {m}
       /\ \/ InsertWorks({m}) /\ UNCHANGED failed
          \/ InsertFails({m}) /\ failed' = failed \cup {m}
  /\ UNCHANGED <<at, pos, committed, batch, tables, table, attempt, dlq, unlettered, discarded>>

\* Mutant: a batch of which nothing could be inserted is given up.
IsolatedGivesUp ==
  /\ at = "isolate" /\ todo = {}
  /\ at' = IF failed \in {{}, Rows(table)} THEN "pick" ELSE "dead"
  /\ todo' = IF failed = Rows(table) THEN {} ELSE failed
  /\ failed' = {}
  /\ UNCHANGED <<pos, committed, batch, tables, table, attempt, inserted, dlq, history>>

\* Mutant: any failed row restarts the batch.
IsolatedRestarts ==
  /\ at = "isolate" /\ todo = {}
  /\ IF failed # {}
     THEN StartProcess(batch)
     ELSE at' = "pick" /\ UNCHANGED work
  /\ UNCHANGED <<pos, committed, inserted, dlq, history>>

\* flush: all rows failed looks like an outage, so Run processes the batch again;
\* otherwise the rows that failed are taken for poison.
Isolated ==
  /\ at = "isolate" /\ todo = {}
  /\ IF failed = Rows(table)
     THEN StartProcess(batch)
     ELSE /\ at' = IF failed = {} THEN "pick" ELSE "dead"
          /\ todo' = failed /\ failed' = {}
          /\ UNCHANGED <<batch, tables, table, attempt>>
  /\ UNCHANGED <<pos, committed, inserted, dlq, history>>

RowDeadLetter ==
  /\ at = "dead"
  /\ \E m \in todo :
       /\ DeadLetter(m)
       /\ todo' = todo \ {m}
       /\ at' = IF todo' = {} THEN "pick" ELSE "dead"
  /\ UNCHANGED <<pos, committed, batch, tables, table, attempt, failed, inserted, discarded>>

\* CommitRecords commits the partitions the batch has records of.
CommittedTo ==
  [p \in Partitions |->
     IF \E i \in (committed[p] + 1)..pos[p] : Log[p][i] \in batch THEN pos[p] ELSE committed[p]]

\* An error is only logged.
Commit ==
  /\ at = "commit"
  /\ at' = "poll" /\ Idle
  /\ \/ NoFault /\ committed' = CommittedTo
     \/ Fault /\ committed' \in {committed, CommittedTo}
  /\ UNCHANGED <<pos, inserted, dlq, unlettered, discarded>>

\* The worker crashes or is cancelled, and starts again.
Crash ==
  /\ Fault
  /\ at' = "poll" /\ Idle
  /\ pos' = committed
  /\ discarded' = discarded \ Between(committed, End)
  /\ UNCHANGED <<committed, inserted, dlq, unlettered>>

Work ==
  \/ Poll \/ RouteDeadLetter \/ PickTable \/ ProcessReturns
  \/ InsertBatch \/ InsertRow \/ Isolated \/ RowDeadLetter \/ Commit

Next == Work \/ PollError \/ Crash

\* The worker keeps running.  The faults of a behaviour are bounded, so the calls
\* it makes eventually get through.
Spec == Init /\ [][Next]_vars /\ WF_vars(Work)
-----------------------------------------------------------------------------
(***************************************************************************)
(* Correctness.                                                            *)
(***************************************************************************)
BehindOffset == Between([p \in Partitions |-> 0], committed)

Settled(m) == inserted[m] > 0 \/ dlq[m] > 0

\* "Offsets are committed only after a batch is durably inserted (or its poison
\* rows are dead-lettered), so a crash mid-batch re-delivers rather than loses
\* events."
CommittedIsSettled == \A m \in BehindOffset : Settled(m)

\* A message behind the committed offset is in its table or in events.dlq, unless
\* its own dead-letter call failed or it came with a poll that reported an error:
\* no crash, retry, redelivery or order of tables loses anything else.  And only what
\* ClickHouse or route rejects is dead-lettered, apart from at most one good row for
\* each failure.
LossesExplained ==
  /\ \A m \in BehindOffset : Settled(m) \/ m \in unlettered \cup discarded
  /\ Cardinality({m \in Messages : dlq[m] > 0 /\ Kind[m] \in Tables /\ m \notin Poison}) <= faults

\* Some table of the batch has only poison rows.
Hopeless == \E t \in Tables : Rows(t) # {} /\ Rows(t) \subseteq Poison

ThroughLog == at = "poll" /\ pos = End

\* The worker gets through the log once the faults are over, unless it is caught
\* on a batch in which one table has only poison rows.
ProgressOrHopeless == <>[](ThroughLog \/ Hopeless)

\* "Poison messages are dead-lettered and never error": the worker gets through
\* the log.
PoisonNeverStalls == <>ThroughLog

\* "ClickHouse ReplacingMergeTree dedups any overlap": spend_daily and the other
\* rollups, which sum every row inserted into llm_calls, count each call once.
RollupCountsOnce == \A m \in Messages : inserted[m] <= 1
=============================================================================
