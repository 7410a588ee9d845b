------------------------------ MODULE Collector ------------------------------
(***************************************************************************)
(* collector/{ingest,otel,producer,validate}.go: concurrent HTTP handlers  *)
(* that validate the events of a request one by one and hand them to the   *)
(* asynchronous Kafka producer through a gate of maxInflight records.  The *)
(* gate is an atomic counter: a refused record is first added, then taken  *)
(* off again, in two steps that other handlers can come between.           *)
(***************************************************************************)
EXTENDS Integers, Sequences, FiniteSets

CONSTANTS
  Events,        \* event payloads
  Valid,         \* those that pass Validator.Validate
  Requests,      \* HTTP requests that may be in progress
  MaxInflight,   \* KafkaProducer.maxInflight
  MaxBatch       \* events allowed in one POST /v1/events

VARIABLES
  req,        \* the handler of each request
  inflight,   \* KafkaProducer.inflight
  pending,    \* how many records of each event franz-go has not settled yet
  topic,      \* how many records of each event are in events.raw
  met         \* the counters of Metrics and ProducerStats

vars == <<req, inflight, pending, topic, met>>

\* acc, bad, busy are the fields of ingestResult.
NoHandler == [at |-> "idle", api |-> "events", todo |-> <<>>, acc |-> 0, bad |-> 0, busy |-> 0, status |-> 0]

TypeOK ==
  /\ \A h \in Requests :
       /\ req[h].at \in {"idle", "loop", "undo", "done"}
       /\ req[h].api \in {"events", "otel"}
       /\ req[h].todo \in Seq(Events)
       /\ {req[h].acc, req[h].bad, req[h].busy, req[h].status} \subseteq Nat
  /\ inflight \in Nat
  /\ pending \in [Events -> Nat] /\ topic \in [Events -> Nat]
  /\ met \in [accepted : Nat, bad : Nat, busy : Nat, produced : Nat, failed : Nat]

Init ==
  /\ req = [h \in Requests |-> NoHandler]
  /\ inflight = 0 /\ pending = [e \in Events |-> 0] /\ topic = [e \in Events |-> 0]
  /\ met = [accepted |-> 0, bad |-> 0, busy |-> 0, produced |-> 0, failed |-> 0]
-----------------------------------------------------------------------------
\* handleEvents, handleOTel: the body parses into a sequence of events.
Accept(h, api, payload) ==
  /\ req[h].at = "idle"
  /\ req' = [req EXCEPT ![h] =
               IF api = "events" /\ payload = <<>>
               THEN [NoHandler EXCEPT !.at = "done", !.status = 400]
               ELSE IF api = "events" /\ Len(payload) > MaxBatch
               THEN [NoHandler EXCEPT !.at = "done", !.status = 413]
               ELSE [NoHandler EXCEPT !.at = "loop", !.api = api, !.todo = payload]]
  /\ UNCHANGED <<inflight, pending, topic, met>>

Looping(h) == req[h].at = "loop" /\ req[h].todo # <<>>
Current(h) == Head(req[h].todo)

RejectInvalid(h) ==
  /\ Looping(h) /\ Current(h) \notin Valid
  /\ req' = [req EXCEPT ![h].bad = @ + 1, ![h].todo = Tail(@)]
  /\ met' = [met EXCEPT !.bad = @ + 1]
  /\ UNCHANGED <<inflight, pending, topic>>

GateFull == inflight + 1 > MaxInflight

\* TryProduce: the gate admits the record and franz-go buffers it.
TryProduce(h) ==
  /\ Looping(h) /\ Current(h) \in Valid /\ ~ GateFull
  /\ inflight' = inflight + 1
  /\ pending' = [pending EXCEPT ![Current(h)] = @ + 1]
  /\ req' = [req EXCEPT ![h].acc = @ + 1, ![h].todo = Tail(@)]
  /\ met' = [met EXCEPT !.accepted = @ + 1]
  /\ UNCHANGED topic

\* TryProduce at capacity: Add(1) first ...
TryProduceFull(h) ==
  /\ Looping(h) /\ Current(h) \in Valid /\ GateFull
  /\ inflight' = inflight + 1
  /\ req' = [req EXCEPT ![h].at = "undo"]
  /\ UNCHANGED <<pending, topic, met>>

\* Mutant: the refused record stays in the gate.
BackpressureLeaks(h) ==
  /\ req[h].at = "undo"
  /\ req' = [req EXCEPT ![h].at = "loop", ![h].busy = @ + 1, ![h].todo = Tail(@)]
  /\ met' = [met EXCEPT !.busy = @ + 1]
  /\ UNCHANGED <<inflight, pending, topic>>

\* ... then Add(-1) and ErrBackpressure.
Backpressure(h) ==
  /\ req[h].at = "undo"
  /\ inflight' = inflight - 1
  /\ req' = [req EXCEPT ![h].at = "loop", ![h].busy = @ + 1, ![h].todo = Tail(@)]
  /\ met' = [met EXCEPT !.busy = @ + 1]
  /\ UNCHANGED <<pending, topic>>

\* statusFor, and the status handleOTel picks.
StatusFor(r) ==
  IF r.api = "otel" THEN IF r.acc = 0 /\ r.busy > 0 THEN 429 ELSE 200
  ELSE IF r.acc > 0 THEN 202
  ELSE IF r.busy > 0 THEN 429
  ELSE 422

Respond(h) ==
  /\ req[h].at = "loop" /\ req[h].todo = <<>>
  /\ req' = [req EXCEPT ![h].at = "done", ![h].status = StatusFor(req[h])]
  /\ UNCHANGED <<inflight, pending, topic, met>>

\* The handler returns and its connection is free for another request.
Return(h) ==
  /\ req[h].at = "done"
  /\ req' = [req EXCEPT ![h] = NoHandler]
  /\ UNCHANGED <<inflight, pending, topic, met>>

Written(e) == topic' = [topic EXCEPT ![e] = @ + 1]

\* The produce callback.  A record that failed for good may still be on the broker.
Settle(e) ==
  /\ pending[e] > 0
  /\ pending' = [pending EXCEPT ![e] = @ - 1]
  /\ inflight' = inflight - 1
  /\ \/ Written(e) /\ met' = [met EXCEPT !.produced = @ + 1]
     \/ (Written(e) \/ UNCHANGED topic) /\ met' = [met EXCEPT !.failed = @ + 1]
  /\ UNCHANGED req

Handler(h) ==
  \/ RejectInvalid(h) \/ TryProduce(h) \/ TryProduceFull(h) \/ Backpressure(h) \/ Respond(h)
-----------------------------------------------------------------------------
\* The records counted by b, one by one.
Records(b) == UNION {{e} \X (1..b[e]) : e \in DOMAIN b}
=============================================================================
