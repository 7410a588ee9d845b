------------------------------ MODULE EventPath ------------------------------
(***************************************************************************)
(* The gateway's event sink and the collector, composed: each HTTP attempt *)
(* of a flush becomes a request at the collector, or is lost on the way,   *)
(* and its response may come after the sink has given up and tried again,  *)
(* so two requests with the same events can be in progress.  OTel          *)
(* exporters share the collector and compete for its gate.                 *)
(***************************************************************************)
EXTENDS Integers, Sequences, FiniteSets

CONSTANTS
  Calls,         \* events the gateway emits
  Spans,         \* events an OTel exporter sends, one request each
  Valid, BufferSize, BatchMax, Retries, Requests, MaxInflight, MaxBatch,
  NoRequest      \* no request carries an attempt of the sink

ASSUME PathAssumption ==
  /\ IsFiniteSet(Calls) /\ IsFiniteSet(Spans) /\ Calls \cap Spans = {}
  /\ Valid \subseteq Calls \cup Spans
  /\ {BufferSize, BatchMax, MaxInflight, MaxBatch} \subseteq Nat \ {0}
  /\ Retries \in Nat
  /\ IsFiniteSet(Requests) /\ NoRequest \notin Requests

VARIABLES
  cfg, emit, ch, open, batch, loop, attempt, count, spool, sent,  \* EventSink
  req, inflight, pending, topic, met,                             \* Collector
  conn,       \* the collector request that carries the sink's current attempt
  exported    \* spans already sent

Sink == INSTANCE EventSink WITH Events <- Calls
Coll == INSTANCE Collector WITH Events <- Calls \cup Spans

sinkVars == <<cfg, emit, ch, open, batch, loop, attempt, count, spool, sent>>
collVars == <<req, inflight, pending, topic, met>>
vars == <<sinkVars, collVars, conn, exported>>

TypeOK ==
  /\ Sink!TypeOK /\ Coll!TypeOK
  /\ conn \in Requests \cup {NoRequest}
  /\ exported \subseteq Spans

Init == Sink!Init /\ Coll!Init /\ conn = NoRequest /\ exported = {}
-----------------------------------------------------------------------------
SinkOnly == UNCHANGED <<collVars, conn, exported>>
CollectorOnly == UNCHANGED <<sinkVars, conn, exported>>

EmitStep(e) == Sink!Handlers(e) /\ SinkOnly
CloseSink == Sink!Close /\ SinkOnly
RunStep ==
  /\ Sink!RunReceive \/ Sink!RunTick \/ Sink!RunDrained \/ Sink!FlushFile
  /\ SinkOnly

PostArrives ==
  \E h \in Requests :
    /\ Sink!Post /\ Coll!Accept(h, "events", batch)
    /\ conn' = h
    /\ UNCHANGED exported

PostLost == Sink!Post /\ SinkOnly

\* The response reaches the sink in time.
ReplyArrives ==
  /\ conn # NoRequest /\ req[conn].at = "done"
  /\ Sink!Reply(req[conn].status) /\ Coll!Return(conn)
  /\ conn' = NoRequest
  /\ UNCHANGED exported

\* A proxy in front of an unreachable collector answers in its place.
Unavailable == conn = NoRequest /\ Sink!Reply(503) /\ SinkOnly

\* Transport error or client timeout; the collector may still be at work.
SinkGivesUp ==
  /\ Sink!NoReply
  /\ conn' = NoRequest
  /\ UNCHANGED <<collVars, exported>>

ReplyDiscarded(h) == h # conn /\ Coll!Return(h) /\ CollectorOnly

CollectorStep(h) == Coll!Handler(h) /\ CollectorOnly
Produced(e) == Coll!Settle(e) /\ CollectorOnly

Export(o) ==
  /\ o \notin exported /\ exported' = exported \cup {o}
  /\ \E h \in Requests : Coll!Accept(h, "otel", <<o>>)
  /\ UNCHANGED <<sinkVars, conn>>

Next ==
  \/ \E e \in Calls : EmitStep(e)
  \/ CloseSink \/ RunStep
  \/ PostArrives \/ PostLost \/ ReplyArrives \/ Unavailable \/ SinkGivesUp
  \/ \E h \in Requests : CollectorStep(h) \/ ReplyDiscarded(h)
  \/ \E e \in Calls \cup Spans : Produced(e)
  \/ \E o \in Spans : Export(o)

\* The run goroutine is scheduled, the strict timer fires, and every attempt ends
\* by its client's timeout at the latest.  Nothing makes an Emit or a Close happen,
\* nor a response arrive.
Fairness ==
  /\ WF_vars(RunStep)
  /\ WF_vars(PostArrives \/ PostLost)
  /\ WF_vars(SinkGivesUp)
  /\ \A e \in Calls : WF_vars(Sink!EmitTimeout(e) /\ SinkOnly)

Spec == Init /\ [][Next]_vars
FairSpec == Spec /\ Fairness
-----------------------------------------------------------------------------
(***************************************************************************)
(* Correctness.                                                            *)
(***************************************************************************)

\* The producer's gate counts what it gates, whatever handlers come between the
\* two additions of a refused record: it never leaks a slot, and never lets more
\* than maxInflight records in.
GateExact ==
  /\ inflight = Cardinality(Coll!Records(pending)) + Cardinality({h \in Requests : req[h].at = "undo"})
  /\ Cardinality(Coll!Records(pending)) <= MaxInflight

\* Where an event is still being worked on, and where it is safe.
InTransit(e) ==
  \/ e \in Sink!Range(ch) \cup Sink!Range(batch)
  \/ \E h \in Requests : e \in Sink!Range(req[h].todo)
  \/ pending[e] > 0
Safe(e) == topic[e] > 0 \/ e \in spool \/ (~ cfg.http /\ e \in sent)

Lost == {e \in Calls : emit[e] = "accepted" /\ ~ InTransit(e) /\ ~ Safe(e)}

CollectorLosses == met.bad + met.busy + met.failed

\* An event that Emit accepted never disappears without a trace: the events that
\* are nowhere any more are covered by failed flushes at the gateway and refused
\* or failed records at the collector.
AcceptedLossMeasured ==
  Cardinality(Lost) <= BatchMax * (count.flushErrors + count.flushRejected) + CollectorLosses

\* A flush that returned nil stands for events the collector took over: those
\* that did not get through were counted there, one by one.
FlushedIsAccounted ==
  cfg.http =>
    Cardinality({e \in sent : topic[e] = 0 /\ pending[e] = 0}) <= CollectorLosses

\* Every accepted event leaves the buffer and the batch, without waiting for
\* 256 others or for shutdown, and Close drains the buffer and its wait for the flush
\* loop ends, even if the collector never answers.
EveryEventFlushed ==
  /\ \A e \in Calls :
       emit[e] = "accepted" ~> e \notin Sink!Range(ch) \cup Sink!Range(batch)
  /\ ~ open ~> loop = "stopped"
=============================================================================
