---------------------------- MODULE EventPathProofs ----------------------------
(***************************************************************************)
(* Proofs, for any events, spans, buffers, retries, requests and gates, of *)
(* what the path of an event from the gateway to Kafka counts and loses;   *)
(* and, in the second half, of what the SDK's path to the same collector   *)
(* does with the events an application emits.                              *)
(***************************************************************************)
EXTENDS SdkPath, SumsProofs, FiniteSetTheorems, TLAPS

Elements(s) == Sink!Range(s)

SinkTyped ==
  /\ cfg \in [strict : BOOLEAN, spoolDir : BOOLEAN, http : BOOLEAN]
  /\ emit \in [Calls -> {"new", "blocked", "accepted", "dropped", "panicked"}]
  /\ ch \in Seq(Calls) /\ Len(ch) <= BufferSize
  /\ open \in BOOLEAN
  /\ batch \in Seq(Calls) /\ Len(batch) <= BatchMax
  /\ loop \in {"select", "post", "wait", "stopped"}
  /\ loop = "select" => Len(batch) < BatchMax
  /\ attempt \in 0..Retries
  /\ count \in [emitted : Nat, dropped : Nat, flushErrors : Nat, flushRejected : Nat]
  /\ spool \subseteq Calls /\ sent \subseteq Calls

Handlers == [at : {"idle", "loop", "undo", "done"}, api : {"events", "otel"}, todo : Seq(Events),
             acc : Nat, bad : Nat, busy : Nat, status : Nat]

CollTyped ==
  /\ req \in [Requests -> Handlers]
  /\ inflight \in Int
  /\ pending \in [Events -> Nat] /\ topic \in [Events -> Nat]
  /\ met \in [accepted : Nat, bad : Nat, busy : Nat, produced : Nat, failed : Nat]

PathTyped ==
  /\ SinkTyped /\ CollTyped
  /\ conn \in Requests \cup {NoRequest}
  /\ exported \subseteq Spans

\* A handler has events left only while it is at work, and a refused record is its next one.
HandlerOk(h) ==
  /\ req[h].at \in {"idle", "done"} => req[h].todo = <<>>
  /\ req[h].at = "undo" => req[h].todo # <<>>

\* The sink waits for the request that carries its attempt.
ConnOk == conn # NoRequest => loop = "wait" /\ req[conn].at # "idle"

Shape == PathTyped /\ (\A h \in Requests : HandlerOk(h)) /\ ConnOk

Undoing == {h \in Requests : req[h].at = "undo"}

\* GateExact needs that there are finitely many records.
GateInv == IsFiniteSet(Coll!Records(pending)) /\ GateExact

\* The collector took the body that carries the current attempt: it did not refuse it as
\* empty or too long.
Taken == conn # NoRequest /\ ~ (req[conn].at = "done" /\ req[conn].status \in {400, 413})

\* Neither queue, nor collector, nor a safe place has the event.
Away(e) ==
  /\ e \notin Elements(ch) /\ pending[e] = 0 /\ ~ Safe(e)
  /\ \A h \in Requests : e \notin Elements(req[h].todo)

\* AcceptedLossMeasured is not inductive by itself: while the sink still holds a batch,
\* the collector may have refused some of its events already, and a 202 then only says
\* that others were taken.
Missing == {e \in Calls : emit[e] = "accepted" /\ Away(e) /\ (e \in Elements(batch) => Taken)}
LossInv == Cardinality(Missing) <= BatchMax * (count.flushErrors + count.flushRejected) + CollectorLosses

\* Likewise for FlushedIsAccounted: the events of a batch that its request is through with.
Dealt(e) == e \in sent \/ (Taken /\ e \in Elements(batch) /\ e \notin Elements(req[conn].todo))
Unproduced == {e \in Calls : topic[e] = 0 /\ pending[e] = 0 /\ Dealt(e)}
FlushInv == cfg.http => Cardinality(Unproduced) <= CollectorLosses

Inv == Shape /\ GateInv /\ LossInv /\ FlushInv
-----------------------------------------------------------------------------
(***************************************************************************)
(* Sequences and counts.                                                   *)
(***************************************************************************)
LEMMA ElementsAppend ==
  ASSUME NEW S, NEW s \in Seq(S), NEW x \in S
  PROVE  /\ Append(s, x) \in Seq(S) /\ Len(Append(s, x)) = Len(s) + 1
         /\ Elements(Append(s, x)) = Elements(s) \cup {x}
<1>1. Append(s, x) \in Seq(S) /\ Len(Append(s, x)) = Len(s) + 1 /\ Len(s) \in Nat
  OBVIOUS
<1>2. /\ DOMAIN s = 1..Len(s) /\ DOMAIN Append(s, x) = 1..(Len(s) + 1)
      /\ Append(s, x)[Len(s) + 1] = x /\ \A i \in 1..Len(s) : Append(s, x)[i] = s[i]
  OBVIOUS
<1>3. ASSUME NEW y \in Elements(Append(s, x)) PROVE y \in Elements(s) \cup {x}
  <2>1. PICK i \in 1..(Len(s) + 1) : y = Append(s, x)[i]
    BY <1>2 DEF Elements, Sink!Range
  <2>2. i = Len(s) + 1 \/ i \in 1..Len(s)
    BY <1>1
  <2>3. QED BY <1>2, <2>1, <2>2 DEF Elements, Sink!Range
<1>4. ASSUME NEW y \in Elements(s) \cup {x} PROVE y \in Elements(Append(s, x))
  <2>1. CASE y = x
    <3>1. Len(s) + 1 \in 1..(Len(s) + 1)
      BY <1>1
    <3>2. QED BY <1>2, <2>1, <3>1 DEF Elements, Sink!Range
  <2>2. CASE y \in Elements(s)
    <3>1. PICK i \in 1..Len(s) : y = s[i]
      BY <1>2, <2>2 DEF Elements, Sink!Range
    <3>2. i \in 1..(Len(s) + 1)
      BY <1>1
    <3>3. QED BY <1>2, <3>1, <3>2 DEF Elements, Sink!Range
  <2>3. QED BY <2>1, <2>2
<1>5. QED BY <1>1, <1>3, <1>4

LEMMA ElementsTail ==
  ASSUME NEW S, NEW s \in Seq(S), s # <<>>
  PROVE  /\ Head(s) \in S /\ Tail(s) \in Seq(S) /\ Len(s) \in Nat /\ Len(Tail(s)) = Len(s) - 1
         /\ Elements(s) = {Head(s)} \cup Elements(Tail(s))
<1>1. /\ Head(s) \in S /\ Tail(s) \in Seq(S) /\ Len(s) \in Nat \ {0} /\ Len(Tail(s)) = Len(s) - 1
      /\ Head(s) = s[1]
  OBVIOUS
<1>2. /\ DOMAIN s = 1..Len(s) /\ DOMAIN Tail(s) = 1..(Len(s) - 1)
      /\ \A i \in 1..(Len(s) - 1) : Tail(s)[i] = s[i + 1]
  OBVIOUS
<1>3. ASSUME NEW y \in Elements(s) PROVE y \in {Head(s)} \cup Elements(Tail(s))
  <2>1. PICK i \in 1..Len(s) : y = s[i]
    BY <1>2 DEF Elements, Sink!Range
  <2>2. CASE i = 1
    BY <1>1, <2>1, <2>2
  <2>3. CASE i # 1
    <3>1. i - 1 \in 1..(Len(s) - 1) /\ (i - 1) + 1 = i
      BY <1>1, <2>3
    <3>2. Tail(s)[i - 1] = y
      BY <1>2, <2>1, <3>1
    <3>3. QED BY <1>2, <3>1, <3>2 DEF Elements, Sink!Range
  <2>4. QED BY <2>2, <2>3
<1>4. ASSUME NEW y \in {Head(s)} \cup Elements(Tail(s)) PROVE y \in Elements(s)
  <2>1. CASE y = Head(s)
    <3>1. 1 \in 1..Len(s)
      BY <1>1
    <3>2. QED BY <1>1, <1>2, <2>1, <3>1 DEF Elements, Sink!Range
  <2>2. CASE y \in Elements(Tail(s))
    <3>1. PICK i \in 1..(Len(s) - 1) : y = Tail(s)[i]
      BY <1>2, <2>2 DEF Elements, Sink!Range
    <3>2. i + 1 \in 1..Len(s)
      BY <1>1
    <3>3. QED BY <1>2, <3>1, <3>2 DEF Elements, Sink!Range
  <2>3. QED BY <2>1, <2>2
<1>5. QED BY <1>1, <1>3, <1>4

LEMMA ElementsEmpty == Elements(<<>>) = {}
BY DEF Elements, Sink!Range

\* A sequence has no more elements than its length.
LEMMA ElementsBound ==
  ASSUME NEW S, NEW s \in Seq(S)
  PROVE  /\ Elements(s) \subseteq S /\ IsFiniteSet(Elements(s))
         /\ Cardinality(Elements(s)) \in Nat /\ Cardinality(Elements(s)) <= Len(s)
<1>1. DOMAIN s = 1..Len(s) /\ Len(s) \in Nat /\ s \in [1..Len(s) -> S]
  OBVIOUS
<1>2. s \in Surjection(1..Len(s), Elements(s))
  BY <1>1 DEF Surjection, Elements, Sink!Range
<1>3. ExistsSurjection(1..Len(s), Elements(s))
  BY <1>2 DEF ExistsSurjection
<1>4. IsFiniteSet(Elements(s)) /\ Cardinality(Elements(s)) <= Len(s)
  BY <1>1, <1>3, FS_NatSurjection, FS_SurjCardinalityBound
<1>5. Elements(s) \subseteq S
  BY <1>1 DEF Elements, Sink!Range
<1>6. QED BY <1>4, <1>5, FS_CardinalityType

\* A set that grows by at most what is counted keeps within its count.
LEMMA CountKeepsUp ==
  ASSUME NEW S, IsFiniteSet(S), NEW A \in SUBSET S, NEW B \in SUBSET S, NEW C, IsFiniteSet(C),
         B \subseteq A \cup C, NEW k \in Nat, Cardinality(C) <= k,
         NEW n \in Nat, Cardinality(A) <= n, NEW m \in Nat, m >= n + k
  PROVE  Cardinality(B) <= m
<1>1. /\ IsFiniteSet(A) /\ Cardinality(A) \in Nat /\ Cardinality(C) \in Nat
  BY FS_Subset, FS_CardinalityType
<1>2. IsFiniteSet(A \cap C) /\ Cardinality(A \cap C) \in Nat
  <2>1. A \cap C \in SUBSET S
    OBVIOUS
  <2>2. QED BY <2>1, FS_Subset, FS_CardinalityType
<1>3. /\ IsFiniteSet(A \cup C) /\ Cardinality(A \cup C) = Cardinality(A) + Cardinality(C) - Cardinality(A \cap C)
  BY <1>1, FS_Union
<1>4. Cardinality(B) <= Cardinality(A \cup C) /\ Cardinality(B) \in Nat
  BY <1>3, FS_Subset, FS_CardinalityType
<1>5. QED BY <1>1, <1>2, <1>3, <1>4

\* One record more, and one less.
LEMMA RecordsMore ==
  ASSUME NEW b \in [Events -> Nat], NEW e \in Events, IsFiniteSet(Coll!Records(b)),
         NEW c, c = [b EXCEPT ![e] = @ + 1]
  PROVE  /\ IsFiniteSet(Coll!Records(c)) /\ Cardinality(Coll!Records(b)) \in Nat
         /\ Cardinality(Coll!Records(c)) = Cardinality(Coll!Records(b)) + 1
<1>1. Coll!Records(c) = Coll!Records(b) \cup {<<e, b[e] + 1>>}
  <2>1. DOMAIN b = Events /\ DOMAIN c = Events /\ c[e] = b[e] + 1 /\ b[e] \in Nat
    OBVIOUS
  <2>2. \A d \in Events : d # e => c[d] = b[d]
    OBVIOUS
  <2>3. 1..c[e] = (1..b[e]) \cup {b[e] + 1}
    BY <2>1
  <2>4. \A d, i : <<d, i>> \in Coll!Records(b) <=> d \in Events /\ i \in 1..b[d]
    BY <2>1 DEF Coll!Records
  <2>5. \A d, i : <<d, i>> \in Coll!Records(c) <=> d \in Events /\ i \in 1..c[d]
    BY <2>1 DEF Coll!Records
  <2>6. \A r \in Coll!Records(b) \cup Coll!Records(c) : r = <<r[1], r[2]>>
    BY DEF Coll!Records
  <2>7. \A d, i : <<d, i>> \in Coll!Records(c) <=> <<d, i>> \in Coll!Records(b) \/ (d = e /\ i = b[e] + 1)
    <3>1. ASSUME NEW d \in Events, NEW i
          PROVE  i \in 1..c[d] <=> i \in 1..b[d] \/ (d = e /\ i = b[e] + 1)
      <4>1. CASE d = e
        BY <2>3, <4>1
      <4>2. CASE d # e
        BY <2>2, <4>2
      <4>3. QED BY <4>1, <4>2
    <3>2. QED BY <2>4, <2>5, <3>1
  <2>8. ASSUME NEW r \in Coll!Records(c) PROVE r \in Coll!Records(b) \cup {<<e, b[e] + 1>>}
    <3>1. r = <<r[1], r[2]>>
      BY <2>6
    <3>2. <<r[1], r[2]>> \in Coll!Records(c)
      BY <3>1
    <3>3. QED BY <2>7, <3>1, <3>2
  <2>9. ASSUME NEW r \in Coll!Records(b) PROVE r \in Coll!Records(c)
    <3>1. r = <<r[1], r[2]>>
      BY <2>6
    <3>2. <<r[1], r[2]>> \in Coll!Records(b)
      BY <3>1
    <3>3. QED BY <2>7, <3>1, <3>2
  <2>10. QED BY <2>7, <2>8, <2>9
<1>2. <<e, b[e] + 1>> \notin Coll!Records(b)
  <2>1. b[e] \in Nat /\ b[e] + 1 \notin 1..b[e]
    OBVIOUS
  <2>2. QED BY <2>1 DEF Coll!Records
<1> DEFINE R == Coll!Records(b)
           x == <<e, b[e] + 1>>
<1>3. IsFiniteSet(R) /\ x \notin R /\ Coll!Records(c) = R \cup {x}
  BY <1>1, <1>2
<1> HIDE DEF R, x
<1>4. /\ IsFiniteSet(R \cup {x}) /\ Cardinality(R) \in Nat
      /\ Cardinality(R \cup {x}) = Cardinality(R) + 1
  BY <1>3, FS_AddElement, FS_CardinalityType
<1>5. QED BY <1>3, <1>4 DEF R

LEMMA RecordsLess ==
  ASSUME NEW b \in [Events -> Nat], NEW e \in Events, IsFiniteSet(Coll!Records(b)), b[e] > 0,
         NEW c, c = [b EXCEPT ![e] = @ - 1]
  PROVE  /\ c \in [Events -> Nat]
         /\ IsFiniteSet(Coll!Records(c)) /\ Cardinality(Coll!Records(c)) \in Nat
         /\ Cardinality(Coll!Records(b)) = Cardinality(Coll!Records(c)) + 1
<1>1. c \in [Events -> Nat] /\ c[e] = b[e] - 1
  OBVIOUS
<1>2. b = [c EXCEPT ![e] = @ + 1]
  <2>1. \A d \in Events : b[d] = [c EXCEPT ![e] = @ + 1][d]
    BY <1>1
  <2>2. QED BY <1>1, <2>1
<1>3. Coll!Records(c) \subseteq Coll!Records(b)
  <2>1. \A d \in Events : 1..c[d] \subseteq 1..b[d]
    BY <1>1
  <2>2. QED BY <1>1, <2>1 DEF Coll!Records
<1>4. IsFiniteSet(Coll!Records(c))
  BY <1>3, FS_Subset
<1>5. QED BY <1>1, <1>2, <1>4, RecordsMore

\* An empty count has no records.
LEMMA RecordsNone ==
  ASSUME NEW b, b = [e \in Events |-> 0]
  PROVE  Coll!Records(b) = {} /\ IsFiniteSet(Coll!Records(b)) /\ Cardinality(Coll!Records(b)) = 0
<1>1. Coll!Records(b) = {}
  BY DEF Coll!Records
<1>2. QED BY <1>1, FS_EmptySet
-----------------------------------------------------------------------------
(***************************************************************************)
(* Types and shape.                                                        *)
(***************************************************************************)
LEMMA Sizes ==
  /\ BufferSize \in Nat \ {0} /\ BatchMax \in Nat \ {0} /\ MaxInflight \in Nat \ {0} /\ MaxBatch \in Nat \ {0}
  /\ Retries \in Nat
BY PathAssumption

LEMMA HandlersTyped ==
  ASSUME SinkTyped, NEW e \in Calls, Sink!Handlers(e) PROVE SinkTyped'
<1>1. CASE Sink!EmitAccept(e)
  <2>1. /\ emit' = [emit EXCEPT ![e] = "accepted"] /\ ch' = Append(ch, e) /\ ~ (Len(ch) >= BufferSize)
        /\ count' = [count EXCEPT !.emitted = @ + 1]
        /\ UNCHANGED <<cfg, open, batch, loop, attempt, spool, sent>>
    BY <1>1 DEF Sink!EmitAccept, Sink!Full, Sink!flusher
  <2>2. ch' \in Seq(Calls) /\ Len(ch') <= BufferSize
    <3>1. ch \in Seq(Calls) /\ Len(ch) \in Nat
      BY DEF SinkTyped
    <3>2. QED BY <2>1, <3>1, ElementsAppend, Sizes
  <2>3. emit' \in [Calls -> {"new", "blocked", "accepted", "dropped", "panicked"}]
    BY <2>1 DEF SinkTyped
  <2>5. count' \in [emitted : Nat, dropped : Nat, flushErrors : Nat, flushRejected : Nat]
    <3>1. count \in [emitted : Nat, dropped : Nat, flushErrors : Nat, flushRejected : Nat]
      BY DEF SinkTyped
    <3>2. QED BY <2>1, <3>1
  <2>4. QED BY <2>1, <2>2, <2>3, <2>5 DEF SinkTyped
<1>2. CASE Sink!EmitDrop(e) \/ Sink!EmitTimeout(e)
  <2>1. /\ emit' = [emit EXCEPT ![e] = "dropped"] /\ count' = [count EXCEPT !.dropped = @ + 1]
        /\ UNCHANGED <<cfg, ch, open, batch, loop, attempt, spool, sent>>
    BY <1>2 DEF Sink!EmitDrop, Sink!EmitTimeout, Sink!Drop, Sink!queue, Sink!flusher
  <2>2. emit' \in [Calls -> {"new", "blocked", "accepted", "dropped", "panicked"}]
    BY <2>1 DEF SinkTyped
  <2>3. count' \in [emitted : Nat, dropped : Nat, flushErrors : Nat, flushRejected : Nat]
    <3>1. count \in [emitted : Nat, dropped : Nat, flushErrors : Nat, flushRejected : Nat]
      BY DEF SinkTyped
    <3>2. QED BY <2>1, <3>1
  <2>4. QED BY <2>1, <2>2, <2>3 DEF SinkTyped
<1>3. CASE Sink!EmitBlock(e) \/ Sink!EmitPanic(e)
  BY <1>3 DEF Sink!EmitBlock, Sink!EmitPanic, Sink!queue, Sink!flusher, SinkTyped
<1>4. QED BY <1>1, <1>2, <1>3 DEF Sink!Handlers

\* The end of a flush, one way or the other.
FlushEnds == Sink!FlushSucceeds \/ Sink!FlushFails("flushErrors") \/ Sink!FlushFails("flushRejected")

LEMMA FlushTyped == ASSUME SinkTyped, FlushEnds PROVE SinkTyped'
<1>1. /\ batch' = <<>> /\ loop' = "select" /\ attempt' = 0
      /\ UNCHANGED <<cfg, emit, ch, open>>
  BY DEF FlushEnds, Sink!FlushSucceeds, Sink!FlushFails, Sink!FlushReturns, Sink!queue
<1>2. batch' \in Seq(Calls) /\ Len(batch') = 0 /\ attempt' \in 0..Retries
  BY <1>1, Sizes
<1>3. Elements(batch) \subseteq Calls
  BY ElementsBound DEF SinkTyped
<1>4. spool' \subseteq Calls /\ sent' \subseteq Calls
  BY <1>3 DEF FlushEnds, Sink!FlushSucceeds, Sink!FlushFails, SinkTyped, Elements
<1>5. count' \in [emitted : Nat, dropped : Nat, flushErrors : Nat, flushRejected : Nat]
  <2>1. \/ count' = count
        \/ count' = [count EXCEPT !.flushErrors = @ + 1]
        \/ count' = [count EXCEPT !.flushRejected = @ + 1]
    BY DEF FlushEnds, Sink!FlushSucceeds, Sink!FlushFails
  <2>2. count \in [emitted : Nat, dropped : Nat, flushErrors : Nat, flushRejected : Nat]
    BY DEF SinkTyped
  <2>3. QED BY <2>1, <2>2
<1>6. QED BY <1>1, <1>2, <1>4, <1>5, Sizes DEF SinkTyped

LEMMA RunTyped ==
  ASSUME SinkTyped, Sink!RunReceive \/ Sink!RunTick \/ Sink!RunDrained \/ Sink!FlushFile \/ Sink!Close \/ Sink!Post
  PROVE  SinkTyped'
<1>1. CASE Sink!RunReceive
  <2>1. /\ loop = "select" /\ ch # <<>> /\ ch' = Tail(ch) /\ batch' = Append(batch, Head(ch))
        /\ loop' = IF Len(batch') >= BatchMax THEN "post" ELSE "select"
        /\ UNCHANGED <<cfg, emit, open, attempt, count, spool, sent>>
    BY <1>1 DEF Sink!RunReceive
  <2>2. /\ Head(ch) \in Calls /\ ch' \in Seq(Calls) /\ Len(ch) \in Nat /\ Len(ch') = Len(ch) - 1 /\ Len(ch) <= BufferSize
    BY <2>1, ElementsTail DEF SinkTyped
  <2>3. batch' \in Seq(Calls) /\ Len(batch') = Len(batch) + 1 /\ Len(batch) < BatchMax /\ Len(batch) \in Nat
    BY <2>1, <2>2, ElementsAppend DEF SinkTyped
  <2>4. Len(ch') <= BufferSize /\ Len(batch') <= BatchMax /\ (loop' = "select" => Len(batch') < BatchMax)
    BY <2>1, <2>2, <2>3, Sizes
  <2>5. QED BY <2>1, <2>2, <2>3, <2>4 DEF SinkTyped
<1>2. CASE Sink!RunTick \/ Sink!RunDrained \/ Sink!Close \/ Sink!Post
  BY <1>2 DEF Sink!RunTick, Sink!RunDrained, Sink!Close, Sink!Post, Sink!queue, Sink!flusher, SinkTyped
<1>3. CASE Sink!FlushFile
  BY <1>3, FlushTyped DEF Sink!FlushFile, FlushEnds
<1>4. QED BY <1>1, <1>2, <1>3

\* What an answer, or none, makes of an attempt: it is tried again, or the flush ends.
LEMMA AnswerTyped ==
  ASSUME SinkTyped, NEW status \in Nat, Sink!Reply(status) \/ Sink!NoReply
  PROVE  SinkTyped' /\ loop = "wait" /\ (FlushEnds \/ (Sink!Retry /\ attempt < Retries))
<1>1. loop = "wait" /\ (FlushEnds \/ (Sink!Retry /\ attempt < Retries))
  BY DEF Sink!Reply, Sink!NoReply, FlushEnds
<1>2. CASE Sink!Retry /\ attempt < Retries
  BY <1>1, <1>2, Sizes DEF Sink!Retry, Sink!queue, SinkTyped
<1>3. QED BY <1>1, <1>2, FlushTyped

LEMMA ReqTypes ==
  ASSUME CollTyped, NEW h \in Requests
  PROVE  /\ req[h] \in Handlers /\ req[h].at \in {"idle", "loop", "undo", "done"} /\ req[h].api \in {"events", "otel"}
         /\ req[h].todo \in Seq(Events)
         /\ req[h].acc \in Nat /\ req[h].bad \in Nat /\ req[h].busy \in Nat /\ req[h].status \in Nat
BY DEF CollTyped, Handlers

\* A request with one field changed.
LEMMA SetAt ==
  ASSUME NEW n \in Handlers, NEW v \in {"idle", "loop", "undo", "done"}, NEW r, r = [n EXCEPT !.at = v]
  PROVE  r \in Handlers /\ r.at = v /\ r.todo = n.todo /\ r.status = n.status
BY DEF Handlers

LEMMA SetTodo ==
  ASSUME NEW n \in Handlers, NEW v \in Seq(Events), NEW r, r = [n EXCEPT !.todo = v]
  PROVE  r \in Handlers /\ r.at = n.at /\ r.todo = v /\ r.status = n.status
BY DEF Handlers

LEMMA SetStatus ==
  ASSUME NEW n \in Handlers, NEW v \in Nat, NEW r, r = [n EXCEPT !.status = v]
  PROVE  r \in Handlers /\ r.at = n.at /\ r.todo = n.todo /\ r.status = v
BY DEF Handlers

LEMMA SetApi ==
  ASSUME NEW n \in Handlers, NEW v \in {"events", "otel"}, NEW r, r = [n EXCEPT !.api = v]
  PROVE  r \in Handlers /\ r.at = n.at /\ r.todo = n.todo /\ r.status = n.status
BY DEF Handlers

LEMMA CountOne ==
  ASSUME NEW n \in Handlers, NEW r,
         r = [n EXCEPT !.acc = @ + 1] \/ r = [n EXCEPT !.bad = @ + 1] \/ r = [n EXCEPT !.busy = @ + 1]
  PROVE  r \in Handlers /\ r.at = n.at /\ r.todo = n.todo /\ r.status = n.status
BY DEF Handlers

\* One request goes on, the others stay.
LEMMA OneRequest ==
  ASSUME CollTyped, NEW h \in Requests, NEW r \in Handlers, req' = [req EXCEPT ![h] = r]
  PROVE  /\ req' \in [Requests -> Handlers] /\ req'[h] = r
         /\ \A g \in Requests : g # h => req'[g] = req[g]
BY DEF CollTyped

LEMMA AcceptDoes ==
  ASSUME CollTyped, NEW h \in Requests, NEW api \in {"events", "otel"}, NEW payload \in Seq(Events),
         Coll!Accept(h, api, payload), \A g \in Requests : HandlerOk(g)
  PROVE  /\ CollTyped' /\ (\A g \in Requests : HandlerOk(g)')
         /\ req[h].at = "idle" /\ req[h].todo = <<>>
         /\ \/ req'[h].at = "loop" /\ req'[h].todo = payload
            \/ req'[h].at = "done" /\ req'[h].todo = <<>> /\ req'[h].status \in {400, 413}
         /\ \A g \in Requests : g # h => req'[g] = req[g]
         /\ UNCHANGED <<inflight, pending, topic, met>>
<1>1. PICK r \in Handlers : /\ req' = [req EXCEPT ![h] = r]
                            /\ \/ r.at = "loop" /\ r.todo = payload
                               \/ r.at = "done" /\ r.todo = <<>> /\ r.status \in {400, 413}
  <2>1. PICK n : n = Coll!NoHandler
    OBVIOUS
  <2>2. n \in Handlers /\ n.todo = <<>>
    <3>1. <<>> \in Seq(Events)
      OBVIOUS
    <3>2. QED BY <2>1, <3>1 DEF Coll!NoHandler, Handlers
  <2>11. PICK d : d = [n EXCEPT !.at = "done"]
    OBVIOUS
  <2>12. d \in Handlers /\ d.at = "done" /\ d.todo = <<>>
    BY <2>2, <2>11, SetAt
  <2>3. PICK a : a = [d EXCEPT !.status = 400]
    OBVIOUS
  <2>4. PICK b : b = [d EXCEPT !.status = 413]
    OBVIOUS
  <2>13. PICK l : l = [n EXCEPT !.at = "loop"]
    OBVIOUS
  <2>14. PICK k : k = [l EXCEPT !.api = api]
    OBVIOUS
  <2>5. PICK c : c = [k EXCEPT !.todo = payload]
    OBVIOUS
  <2>6. a \in Handlers /\ a.at = "done" /\ a.todo = <<>> /\ a.status \in {400, 413}
    <3>1. PICK v \in Nat : v = 400
      OBVIOUS
    <3>2. a = [d EXCEPT !.status = v]
      BY <2>3, <3>1
    <3>3. a \in Handlers /\ a.at = d.at /\ a.todo = d.todo /\ a.status = v
      BY <2>12, <3>2, SetStatus
    <3>4. QED BY <2>12, <3>1, <3>3
  <2>10. b \in Handlers /\ b.at = "done" /\ b.todo = <<>> /\ b.status \in {400, 413}
    <3>1. PICK v \in Nat : v = 413
      OBVIOUS
    <3>2. b = [d EXCEPT !.status = v]
      BY <2>4, <3>1
    <3>3. b \in Handlers /\ b.at = d.at /\ b.todo = d.todo /\ b.status = v
      BY <2>12, <3>2, SetStatus
    <3>4. QED BY <2>12, <3>1, <3>3
  <2>7. c \in Handlers /\ c.at = "loop" /\ c.todo = payload
    <3>1. l \in Handlers /\ l.at = "loop"
      BY <2>2, <2>13, SetAt
    <3>2. k \in Handlers /\ k.at = "loop"
      BY <3>1, <2>14, SetApi
    <3>3. QED BY <3>2, <2>5, SetTodo
  <2>8. \/ req' = [req EXCEPT ![h] = a] \/ req' = [req EXCEPT ![h] = b] \/ req' = [req EXCEPT ![h] = c]
    <3>1. PICK v : v = IF api = "events" /\ payload = <<>>
                       THEN [Coll!NoHandler EXCEPT !.at = "done", !.status = 400]
                       ELSE IF api = "events" /\ Len(payload) > MaxBatch
                       THEN [Coll!NoHandler EXCEPT !.at = "done", !.status = 413]
                       ELSE [Coll!NoHandler EXCEPT !.at = "loop", !.api = api, !.todo = payload]
      OBVIOUS
    <3>2. req' = [req EXCEPT ![h] = v]
      BY <3>1 DEF Coll!Accept
    <3>3. /\ a = [Coll!NoHandler EXCEPT !.at = "done", !.status = 400]
          /\ b = [Coll!NoHandler EXCEPT !.at = "done", !.status = 413]
          /\ c = [Coll!NoHandler EXCEPT !.at = "loop", !.api = api, !.todo = payload]
      BY <2>1, <2>3, <2>4, <2>5, <2>11, <2>13, <2>14
    <3>4. v = a \/ v = b \/ v = c
      BY <3>1, <3>3
    <3>5. QED BY <3>2, <3>4
  <2>9. QED BY <2>6, <2>7, <2>8, <2>10
<1>2. req[h].at = "idle" /\ UNCHANGED <<inflight, pending, topic, met>>
  BY DEF Coll!Accept
<1>3. /\ req' \in [Requests -> Handlers] /\ req'[h] = r /\ \A g \in Requests : g # h => req'[g] = req[g]
  <2>1. req' = [req EXCEPT ![h] = r]
    BY <1>1
  <2>2. QED BY <2>1, OneRequest
<1>4. CollTyped'
  BY <1>2, <1>3 DEF CollTyped
<1>5. \A g \in Requests : HandlerOk(g)'
  BY <1>1, <1>3 DEF HandlerOk
<1>6. req[h].todo = <<>>
  BY <1>2 DEF HandlerOk
<1>7. QED BY <1>1, <1>2, <1>3, <1>4, <1>5, <1>6

\* A step of handler h on its own request: whatever it changes there, the request stays typed.
LEMMA HandlerStepTyped ==
  ASSUME CollTyped, NEW h \in Requests, \A g \in Requests : HandlerOk(g),
         NEW r \in Handlers, req' = [req EXCEPT ![h] = r],
         r.at \in {"idle", "done"} => r.todo = <<>>, r.at = "undo" => r.todo # <<>>,
         inflight' \in Int, pending' \in [Events -> Nat], topic' \in [Events -> Nat],
         met' \in [accepted : Nat, bad : Nat, busy : Nat, produced : Nat, failed : Nat]
  PROVE  /\ CollTyped' /\ (\A g \in Requests : HandlerOk(g)')
         /\ req'[h] = r /\ \A g \in Requests : g # h => req'[g] = req[g]
<1>1. /\ req' \in [Requests -> Handlers] /\ req'[h] = r /\ \A g \in Requests : g # h => req'[g] = req[g]
  BY OneRequest
<1>2. CollTyped'
  BY <1>1 DEF CollTyped
<1>3. \A g \in Requests : HandlerOk(g)'
  BY <1>1 DEF HandlerOk
<1>4. QED BY <1>1, <1>2, <1>3

LEMMA MetTypes ==
  ASSUME CollTyped
  PROVE  /\ inflight \in Int /\ pending \in [Events -> Nat] /\ topic \in [Events -> Nat]
         /\ met \in [accepted : Nat, bad : Nat, busy : Nat, produced : Nat, failed : Nat]
         /\ met.bad \in Nat /\ met.busy \in Nat /\ met.failed \in Nat
         /\ CollectorLosses \in Nat /\ CollectorLosses = met.bad + met.busy + met.failed
<1>1. met \in [accepted : Nat, bad : Nat, busy : Nat, produced : Nat, failed : Nat]
  BY DEF CollTyped
<1>2. met.bad \in Nat /\ met.busy \in Nat /\ met.failed \in Nat
  BY <1>1
<1>3. QED BY <1>1, <1>2 DEF CollTyped, CollectorLosses

\* The next event of h is refused as invalid, or by the gate.
LEMMA RefusalDoes ==
  ASSUME CollTyped, NEW h \in Requests, \A g \in Requests : HandlerOk(g), Coll!RejectInvalid(h) \/ Coll!Backpressure(h)
  PROVE  /\ CollTyped' /\ (\A g \in Requests : HandlerOk(g)')
         /\ req[h].at \in {"loop", "undo"} /\ req'[h].at = "loop"
         /\ req[h].todo # <<>> /\ req'[h].todo = Tail(req[h].todo)
         /\ \A g \in Requests : g # h => req'[g] = req[g]
         /\ UNCHANGED <<pending, topic>> /\ CollectorLosses' = CollectorLosses + 1
         /\ inflight' = IF req[h].at = "undo" THEN inflight - 1 ELSE inflight
<1>1. /\ req[h] \in Handlers /\ req[h].at \in {"loop", "undo"} /\ req[h].todo # <<>>
      /\ UNCHANGED <<pending, topic>>
      /\ inflight' = IF req[h].at = "undo" THEN inflight - 1 ELSE inflight
  BY ReqTypes DEF Coll!RejectInvalid, Coll!Backpressure, Coll!Looping, HandlerOk
<1>2. Tail(req[h].todo) \in Seq(Events)
  BY <1>1, ReqTypes, ElementsTail
<1>3. PICK r : req' = [req EXCEPT ![h] = r] /\ r \in Handlers /\ r.at = "loop" /\ r.todo = Tail(req[h].todo)
  <2>1. PICK n : n = req[h]
    OBVIOUS
  <2>2. CASE Coll!RejectInvalid(h)
    <3>0. PICK m : m = [n EXCEPT !.bad = @ + 1]
      OBVIOUS
    <3>1. PICK r : r = [m EXCEPT !.todo = Tail(@)]
      OBVIOUS
    <3>2. r \in Handlers /\ r.at = n.at /\ r.todo = Tail(n.todo)
      <4>1. m \in Handlers /\ m.at = n.at /\ m.todo = n.todo
        BY <1>1, <2>1, <3>0, CountOne
      <4>2. PICK t \in Seq(Events) : t = Tail(n.todo)
        BY <1>2, <2>1
      <4>3. r = [m EXCEPT !.todo = t]
        BY <3>1, <4>1, <4>2
      <4>4. r \in Handlers /\ r.at = m.at /\ r.todo = t
        BY <4>1, <4>3, SetTodo
      <4>5. QED BY <4>1, <4>2, <4>4
    <3>3. req' = [req EXCEPT ![h].bad = @ + 1, ![h].todo = Tail(@)] /\ req[h].at = "loop"
      BY <2>2 DEF Coll!RejectInvalid, Coll!Looping
    <3>4. req' = [req EXCEPT ![h] = r]
      BY <2>1, <3>0, <3>1, <3>3
    <3>5. QED BY <2>1, <3>2, <3>3, <3>4
  <2>3. CASE Coll!Backpressure(h)
    <3>0. PICK m : m = [n EXCEPT !.at = "loop"]
      OBVIOUS
    <3>6. PICK k : k = [m EXCEPT !.busy = @ + 1]
      OBVIOUS
    <3>1. PICK r : r = [k EXCEPT !.todo = Tail(@)]
      OBVIOUS
    <3>2. r \in Handlers /\ r.at = "loop" /\ r.todo = Tail(n.todo)
      <4>1. m \in Handlers /\ m.at = "loop" /\ m.todo = n.todo
        BY <1>1, <2>1, <3>0, SetAt
      <4>2. k \in Handlers /\ k.at = "loop" /\ k.todo = n.todo
        BY <3>6, <4>1, CountOne
      <4>3. PICK t \in Seq(Events) : t = Tail(n.todo)
        BY <1>2, <2>1
      <4>4. r = [k EXCEPT !.todo = t]
        BY <3>1, <4>2, <4>3
      <4>5. r \in Handlers /\ r.at = k.at /\ r.todo = t
        BY <4>2, <4>4, SetTodo
      <4>6. QED BY <4>2, <4>3, <4>5
    <3>3. req' = [req EXCEPT ![h].at = "loop", ![h].busy = @ + 1, ![h].todo = Tail(@)]
      BY <2>3 DEF Coll!Backpressure
    <3>4. req' = [req EXCEPT ![h] = r]
      BY <2>1, <3>0, <3>1, <3>3, <3>6
    <3>5. QED BY <2>1, <3>2, <3>4
  <2>4. QED BY <2>2, <2>3
<1>4. /\ met' \in [accepted : Nat, bad : Nat, busy : Nat, produced : Nat, failed : Nat]
      /\ met'.bad + met'.busy + met'.failed = met.bad + met.busy + met.failed + 1
  <2>1. met' = [met EXCEPT !.bad = @ + 1] \/ met' = [met EXCEPT !.busy = @ + 1]
    BY DEF Coll!RejectInvalid, Coll!Backpressure
  <2>2. met \in [accepted : Nat, bad : Nat, busy : Nat, produced : Nat, failed : Nat]
    BY MetTypes
  <2>3. QED BY <2>1, <2>2
<1>5. inflight' \in Int
  BY <1>1, MetTypes
<1>6. CollTyped' /\ (\A g \in Requests : HandlerOk(g)') /\ req'[h] = r /\ \A g \in Requests : g # h => req'[g] = req[g]
  <2>1. pending' \in [Events -> Nat] /\ topic' \in [Events -> Nat]
    BY <1>1, MetTypes
  <2>2. r.at \in {"idle", "done"} => r.todo = <<>>
    BY <1>3
  <2>3. r.at = "undo" => r.todo # <<>>
    BY <1>3
  <2>4. QED BY <1>3, <1>4, <1>5, <2>1, <2>2, <2>3, HandlerStepTyped
<1>7. QED BY <1>1, <1>3, <1>4, <1>6 DEF CollectorLosses

\* The gate lets the next event of h in.
LEMMA TryProduceDoes ==
  ASSUME CollTyped, NEW h \in Requests, \A g \in Requests : HandlerOk(g), Coll!TryProduce(h)
  PROVE  /\ CollTyped' /\ (\A g \in Requests : HandlerOk(g)')
         /\ req[h].at = "loop" /\ req'[h].at = "loop"
         /\ req[h].todo # <<>> /\ req'[h].todo = Tail(req[h].todo)
         /\ \A g \in Requests : g # h => req'[g] = req[g]
         /\ Head(req[h].todo) \in Events /\ pending' = [pending EXCEPT ![Head(req[h].todo)] = @ + 1]
         /\ topic' = topic /\ inflight + 1 <= MaxInflight /\ inflight' = inflight + 1
         /\ CollectorLosses' = CollectorLosses
<1>1. /\ req[h] \in Handlers /\ req[h].at = "loop" /\ req[h].todo # <<>> /\ topic' = topic
      /\ ~ (inflight + 1 > MaxInflight) /\ inflight' = inflight + 1
      /\ pending' = [pending EXCEPT ![Head(req[h].todo)] = @ + 1]
  BY ReqTypes DEF Coll!TryProduce, Coll!Looping, Coll!GateFull, Coll!Current
<1>2. Tail(req[h].todo) \in Seq(Events) /\ Head(req[h].todo) \in Events
  BY <1>1, ReqTypes, ElementsTail
<1>3. PICK r : req' = [req EXCEPT ![h] = r] /\ r \in Handlers /\ r.at = "loop" /\ r.todo = Tail(req[h].todo)
  <2>1. PICK n : n = req[h]
    OBVIOUS
  <2>7. PICK m : m = [n EXCEPT !.acc = @ + 1]
    OBVIOUS
  <2>2. PICK r : r = [m EXCEPT !.todo = Tail(@)]
    OBVIOUS
  <2>3. r \in Handlers /\ r.at = n.at /\ r.todo = Tail(n.todo)
    <3>1. m \in Handlers /\ m.at = n.at /\ m.todo = n.todo
      BY <1>1, <2>1, <2>7, CountOne
    <3>2. PICK t \in Seq(Events) : t = Tail(n.todo)
      BY <1>2, <2>1
    <3>3. r = [m EXCEPT !.todo = t]
      BY <2>2, <3>1, <3>2
    <3>4. r \in Handlers /\ r.at = m.at /\ r.todo = t
      BY <3>1, <3>3, SetTodo
    <3>5. QED BY <3>1, <3>2, <3>4
  <2>4. req' = [req EXCEPT ![h].acc = @ + 1, ![h].todo = Tail(@)]
    BY DEF Coll!TryProduce
  <2>5. req' = [req EXCEPT ![h] = r]
    BY <2>1, <2>2, <2>4, <2>7
  <2>6. QED BY <1>1, <2>1, <2>3, <2>5
<1>4. /\ met' \in [accepted : Nat, bad : Nat, busy : Nat, produced : Nat, failed : Nat]
      /\ met'.bad = met.bad /\ met'.busy = met.busy /\ met'.failed = met.failed
  <2>1. met' = [met EXCEPT !.accepted = @ + 1]
    BY DEF Coll!TryProduce
  <2>2. met \in [accepted : Nat, bad : Nat, busy : Nat, produced : Nat, failed : Nat]
    BY MetTypes
  <2>3. QED BY <2>1, <2>2
<1>5. inflight' \in Int /\ inflight + 1 <= MaxInflight
  BY <1>1, MetTypes, Sizes
<1>6. CollTyped' /\ (\A g \in Requests : HandlerOk(g)') /\ req'[h] = r /\ \A g \in Requests : g # h => req'[g] = req[g]
  <2>1. pending' \in [Events -> Nat] /\ topic' \in [Events -> Nat]
    <3>1. PICK e \in Events : e = Head(req[h].todo)
      BY <1>2
    <3>2. pending' = [pending EXCEPT ![e] = @ + 1] /\ pending \in [Events -> Nat] /\ topic' \in [Events -> Nat]
      BY <1>1, <3>1, MetTypes
    <3>3. QED BY <3>2
  <2>2. r.at \in {"idle", "done"} => r.todo = <<>>
    BY <1>3
  <2>3. r.at = "undo" => r.todo # <<>>
    BY <1>3
  <2>4. QED BY <1>3, <1>4, <1>5, <2>1, <2>2, <2>3, HandlerStepTyped
<1>7. QED BY <1>1, <1>2, <1>3, <1>4, <1>5, <1>6 DEF CollectorLosses

\* The gate is full: the handler of h has added its record and will take it off again.
LEMMA TryProduceFullDoes ==
  ASSUME CollTyped, NEW h \in Requests, \A g \in Requests : HandlerOk(g), Coll!TryProduceFull(h)
  PROVE  /\ CollTyped' /\ (\A g \in Requests : HandlerOk(g)')
         /\ req[h].at = "loop" /\ req'[h].at = "undo" /\ req'[h].todo = req[h].todo
         /\ \A g \in Requests : g # h => req'[g] = req[g]
         /\ inflight' = inflight + 1 /\ UNCHANGED <<pending, topic, met>>
<1>1. /\ req[h] \in Handlers /\ req[h].at = "loop" /\ req[h].todo # <<>>
      /\ inflight' = inflight + 1 /\ UNCHANGED <<pending, topic, met>>
      /\ req' = [req EXCEPT ![h].at = "undo"]
  BY ReqTypes DEF Coll!TryProduceFull, Coll!Looping
<1>2. PICK r : r = [req[h] EXCEPT !.at = "undo"]
  OBVIOUS
<1>3. r \in Handlers /\ r.at = "undo" /\ r.todo = req[h].todo
  BY <1>1, <1>2, SetAt
<1>4. req' = [req EXCEPT ![h] = r]
  BY <1>1, <1>2
<1>5. /\ inflight' \in Int /\ pending' \in [Events -> Nat] /\ topic' \in [Events -> Nat]
      /\ met' \in [accepted : Nat, bad : Nat, busy : Nat, produced : Nat, failed : Nat]
  BY <1>1, MetTypes
<1>6. /\ r.at \in {"idle", "done"} => r.todo = <<>>
      /\ r.at = "undo" => r.todo # <<>>
  BY <1>1, <1>3
<1>7. CollTyped' /\ (\A g \in Requests : HandlerOk(g)') /\ req'[h] = r /\ \A g \in Requests : g # h => req'[g] = req[g]
  BY <1>3, <1>4, <1>5, <1>6, HandlerStepTyped
<1>8. QED BY <1>1, <1>3, <1>7

LEMMA RespondDoes ==
  ASSUME CollTyped, NEW h \in Requests, \A g \in Requests : HandlerOk(g), Coll!Respond(h)
  PROVE  /\ CollTyped' /\ (\A g \in Requests : HandlerOk(g)')
         /\ req[h].at = "loop" /\ req'[h].at = "done" /\ req[h].todo = <<>> /\ req'[h].todo = <<>>
         /\ req'[h].status \in {200, 202, 422, 429}
         /\ \A g \in Requests : g # h => req'[g] = req[g]
         /\ UNCHANGED <<inflight, pending, topic, met>>
<1>1. /\ req[h] \in Handlers /\ req[h].at = "loop" /\ req[h].todo = <<>>
      /\ UNCHANGED <<inflight, pending, topic, met>>
  BY ReqTypes DEF Coll!Respond
<1>2. PICK v \in Nat : /\ v \in {200, 202, 422, 429}
                       /\ req' = [req EXCEPT ![h].at = "done", ![h].status = v]
  <2>1. PICK v : v = Coll!StatusFor(req[h])
    OBVIOUS
  <2>2. v \in Nat /\ v \in {200, 202, 422, 429}
    BY <2>1 DEF Coll!StatusFor
  <2>3. req' = [req EXCEPT ![h].at = "done", ![h].status = v]
    BY <2>1 DEF Coll!Respond
  <2>4. QED BY <2>2, <2>3
<1>3. PICK n : n = req[h]
  OBVIOUS
<1>4. PICK m : m = [n EXCEPT !.at = "done"]
  OBVIOUS
<1>5. PICK r : r = [m EXCEPT !.status = v]
  OBVIOUS
<1>6. m \in Handlers /\ m.at = "done" /\ m.todo = <<>>
  BY <1>1, <1>4, <1>3, SetAt
<1>7. r \in Handlers /\ r.at = "done" /\ r.todo = <<>> /\ r.status = v
  BY <1>5, <1>6, SetStatus
<1>8. req' = [req EXCEPT ![h] = r]
  <2>1. req' = [req EXCEPT ![h].at = "done", ![h].status = v]
    BY <1>2
  <2>2. QED BY <2>1, <1>3, <1>4, <1>5
<1>9. /\ inflight' \in Int /\ pending' \in [Events -> Nat] /\ topic' \in [Events -> Nat]
      /\ met' \in [accepted : Nat, bad : Nat, busy : Nat, produced : Nat, failed : Nat]
  BY <1>1, MetTypes
<1>10. r.at = "undo" => r.todo # <<>>
  BY <1>7
<1>11. CollTyped' /\ (\A g \in Requests : HandlerOk(g)') /\ req'[h] = r /\ \A g \in Requests : g # h => req'[g] = req[g]
  BY <1>7, <1>8, <1>9, <1>10, HandlerStepTyped
<1>12. req'[h].status = v
  BY <1>7, <1>11
<1>13. req'[h].status \in {200, 202, 422, 429}
  BY <1>2, <1>12
<1>14. QED BY <1>1, <1>7, <1>11, <1>13

LEMMA ReturnDoes ==
  ASSUME CollTyped, NEW h \in Requests, \A g \in Requests : HandlerOk(g), Coll!Return(h)
  PROVE  /\ CollTyped' /\ (\A g \in Requests : HandlerOk(g)')
         /\ req[h].at = "done" /\ req'[h].at = "idle" /\ req[h].todo = <<>> /\ req'[h].todo = <<>>
         /\ \A g \in Requests : g # h => req'[g] = req[g]
         /\ UNCHANGED <<inflight, pending, topic, met>>
<1>1. /\ req[h].at = "done" /\ req[h].todo = <<>>
      /\ UNCHANGED <<inflight, pending, topic, met>>
      /\ req' = [req EXCEPT ![h] = Coll!NoHandler]
  BY DEF Coll!Return, HandlerOk
<1>2. PICK r : r = Coll!NoHandler
  OBVIOUS
<1>3. r \in Handlers /\ r.at = "idle" /\ r.todo = <<>>
  <2>1. <<>> \in Seq(Events)
    OBVIOUS
  <2>2. QED BY <1>2, <2>1 DEF Coll!NoHandler, Handlers
<1>4. req' = [req EXCEPT ![h] = r]
  BY <1>1, <1>2
<1>5. /\ inflight' \in Int /\ pending' \in [Events -> Nat] /\ topic' \in [Events -> Nat]
      /\ met' \in [accepted : Nat, bad : Nat, busy : Nat, produced : Nat, failed : Nat]
  BY <1>1, MetTypes
<1>6. r.at = "undo" => r.todo # <<>>
  BY <1>3
<1>7. CollTyped' /\ (\A g \in Requests : HandlerOk(g)') /\ req'[h] = r /\ \A g \in Requests : g # h => req'[g] = req[g]
  BY <1>3, <1>4, <1>5, <1>6, HandlerStepTyped
<1>8. QED BY <1>1, <1>3, <1>7

\* A record is settled: it is in the topic, or counted as failed.
LEMMA SettleDoes ==
  ASSUME CollTyped, NEW e \in Events, Coll!Settle(e)
  PROVE  /\ CollTyped' /\ UNCHANGED req
         /\ pending[e] > 0 /\ pending' = [pending EXCEPT ![e] = @ - 1] /\ inflight' = inflight - 1
         /\ \A d \in Events : topic'[d] >= topic[d] /\ (d # e => topic'[d] = topic[d] /\ pending'[d] = pending[d])
         /\ topic'[e] <= topic[e] + 1
         /\ \/ topic'[e] > 0 /\ CollectorLosses' = CollectorLosses
            \/ CollectorLosses' = CollectorLosses + 1
<1>1. /\ UNCHANGED req /\ pending[e] > 0 /\ pending' = [pending EXCEPT ![e] = @ - 1] /\ inflight' = inflight - 1
  BY DEF Coll!Settle
<1>2. /\ pending \in [Events -> Nat] /\ topic \in [Events -> Nat] /\ inflight \in Int
      /\ met \in [accepted : Nat, bad : Nat, busy : Nat, produced : Nat, failed : Nat]
  BY MetTypes
<1>3. \/ topic' = [topic EXCEPT ![e] = @ + 1] /\ met' = [met EXCEPT !.produced = @ + 1]
      \/ (topic' = [topic EXCEPT ![e] = @ + 1] \/ topic' = topic) /\ met' = [met EXCEPT !.failed = @ + 1]
  BY DEF Coll!Settle, Coll!Written
<1>4. /\ pending' \in [Events -> Nat] /\ inflight' \in Int
      /\ \A d \in Events : d # e => pending'[d] = pending[d]
  BY <1>1, <1>2
<1>5. /\ topic' \in [Events -> Nat]
      /\ \A d \in Events : topic'[d] >= topic[d] /\ (d # e => topic'[d] = topic[d])
      /\ (topic'[e] > 0 \/ topic' = topic) /\ topic'[e] <= topic[e] + 1
  BY <1>2, <1>3
<1>6. /\ met' \in [accepted : Nat, bad : Nat, busy : Nat, produced : Nat, failed : Nat]
      /\ \/ topic'[e] > 0 /\ met'.bad = met.bad /\ met'.busy = met.busy /\ met'.failed = met.failed
         \/ met'.bad = met.bad /\ met'.busy = met.busy /\ met'.failed = met.failed + 1
  <2>1. CASE topic' = [topic EXCEPT ![e] = @ + 1] /\ met' = [met EXCEPT !.produced = @ + 1]
    BY <1>2, <2>1
  <2>2. CASE met' = [met EXCEPT !.failed = @ + 1]
    BY <1>2, <2>2
  <2>3. QED BY <1>3, <2>1, <2>2
<1>7. CollTyped'
  BY <1>1, <1>2, <1>4, <1>5, <1>6 DEF CollTyped
<1>8. QED BY <1>1, <1>2, <1>4, <1>5, <1>6, <1>7 DEF CollectorLosses
-----------------------------------------------------------------------------
(***************************************************************************)
(* The gate.                                                               *)
(***************************************************************************)
LEMMA UndoingFinite == Undoing \subseteq Requests /\ IsFiniteSet(Undoing) /\ Cardinality(Undoing) \in Nat
<1>1. Undoing \subseteq Requests /\ IsFiniteSet(Requests)
  BY PathAssumption DEF Undoing
<1>2. QED BY <1>1, FS_Subset, FS_CardinalityType

\* How the handlers that are taking a record off again change.
LEMMA UndoingChanges ==
  ASSUME NEW h \in Requests, \A g \in Requests : g # h => req'[g] = req[g]
  PROVE  /\ IsFiniteSet(Undoing') /\ Cardinality(Undoing') \in Nat
         /\ req[h].at # "undo" /\ req'[h].at # "undo" => Undoing' = Undoing
         /\ req[h].at # "undo" /\ req'[h].at = "undo" => Cardinality(Undoing') = Cardinality(Undoing) + 1
         /\ req[h].at = "undo" /\ req'[h].at # "undo" => Cardinality(Undoing') = Cardinality(Undoing) - 1
<1>1. Undoing' = IF req'[h].at = "undo" THEN Undoing \cup {h} ELSE Undoing \ {h}
  BY DEF Undoing
<1>2. h \in Undoing <=> req[h].at = "undo"
  BY DEF Undoing
<1>3. IsFiniteSet(Undoing) /\ Cardinality(Undoing) \in Nat
  BY UndoingFinite
<1>4. /\ IsFiniteSet(Undoing \cup {h}) /\ IsFiniteSet(Undoing \ {h})
      /\ Cardinality(Undoing \cup {h}) = IF h \in Undoing THEN Cardinality(Undoing) ELSE Cardinality(Undoing) + 1
      /\ Cardinality(Undoing \ {h}) = IF h \in Undoing THEN Cardinality(Undoing) - 1 ELSE Cardinality(Undoing)
  BY <1>3, FS_AddElement, FS_RemoveElement
<1>5. IsFiniteSet(Undoing') /\ Cardinality(Undoing') \in Nat
  BY <1>1, <1>4, FS_CardinalityType
<1>6. QED BY <1>1, <1>2, <1>4, <1>5
-----------------------------------------------------------------------------
(***************************************************************************)
(* Every step keeps the shape.                                             *)
(***************************************************************************)
LEMMA ShapeFacts ==
  ASSUME Shape
  PROVE  /\ SinkTyped /\ CollTyped /\ (\A g \in Requests : HandlerOk(g))
         /\ conn \in Requests \cup {NoRequest} /\ exported \subseteq Spans
         /\ conn # NoRequest => conn \in Requests /\ loop = "wait" /\ req[conn].at # "idle"
BY DEF Shape, PathTyped, ConnOk

\* A step of the sink's own: it is waiting with its request, or without one.
LEMMA SinkSide ==
  ASSUME Shape, SinkTyped', UNCHANGED <<collVars, exported>>,
         conn' = NoRequest \/ (conn' = conn /\ (loop = "wait" => loop' = "wait"))
  PROVE  Shape'
<1>1. UNCHANGED <<req, inflight, pending, topic, met, exported>>
  BY DEF collVars
<1>2. CollTyped' /\ \A g \in Requests : HandlerOk(g)'
  BY <1>1, ShapeFacts DEF CollTyped, HandlerOk
<1>3. (conn \in Requests \cup {NoRequest})' /\ (exported \subseteq Spans)' /\ ConnOk'
  BY <1>1, ShapeFacts DEF ConnOk
<1>4. QED BY <1>2, <1>3 DEF Shape, PathTyped

\* A step of the collector's own: the request of the sink's attempt stays in progress.
LEMMA CollectorSide ==
  ASSUME Shape, UNCHANGED <<sinkVars, conn>>, CollTyped', \A g \in Requests : HandlerOk(g)', exported' \subseteq Spans,
         conn # NoRequest => req'[conn].at # "idle"
  PROVE  Shape'
<1>1. SinkTyped'
  BY ShapeFacts DEF SinkTyped, sinkVars
<1>2. (conn \in Requests \cup {NoRequest})' /\ ConnOk'
  BY ShapeFacts DEF ConnOk, sinkVars
<1>3. QED BY <1>1, <1>2 DEF Shape, PathTyped

\* What a step of a handler does, whichever it is.
LEMMA HandlerDoes ==
  ASSUME Shape, NEW h \in Requests, CollectorStep(h)
  PROVE  /\ Shape' /\ UNCHANGED <<sinkVars, conn, exported>>
         /\ req[h].at \in {"loop", "undo"}
         /\ req'[h].at \in {"loop", "undo"} \/ (req'[h].at = "done" /\ req'[h].status \in {200, 202, 422, 429})
         /\ \A g \in Requests : g # h => req'[g] = req[g]
<1>1. UNCHANGED <<sinkVars, conn, exported>> /\ Coll!Handler(h)
  BY DEF CollectorStep, CollectorOnly
<1>2. CollTyped /\ (\A g \in Requests : HandlerOk(g)) /\ (conn # NoRequest => req[conn].at # "idle") /\ exported \subseteq Spans
  BY ShapeFacts
<1>3. /\ CollTyped' /\ \A g \in Requests : HandlerOk(g)'
      /\ req[h].at \in {"loop", "undo"}
      /\ req'[h].at \in {"loop", "undo"} \/ (req'[h].at = "done" /\ req'[h].status \in {200, 202, 422, 429})
      /\ \A g \in Requests : g # h => req'[g] = req[g]
  <2>1. CASE Coll!RejectInvalid(h) \/ Coll!Backpressure(h)
    BY <1>2, <2>1, RefusalDoes
  <2>2. CASE Coll!TryProduce(h)
    BY <1>2, <2>2, TryProduceDoes
  <2>3. CASE Coll!TryProduceFull(h)
    BY <1>2, <2>3, TryProduceFullDoes
  <2>4. CASE Coll!Respond(h)
    BY <1>2, <2>4, RespondDoes
  <2>5. QED BY <1>1, <2>1, <2>2, <2>3, <2>4 DEF Coll!Handler
<1>4. conn # NoRequest => req'[conn].at # "idle"
  BY <1>2, <1>3, ShapeFacts
<1>5. Shape'
  BY <1>1, <1>2, <1>3, <1>4, CollectorSide
<1>6. QED BY <1>1, <1>3, <1>5

LEMMA PostArrivesDoes ==
  ASSUME Shape, NEW h \in Requests, Sink!Post, Coll!Accept(h, "events", batch), conn' = h, UNCHANGED exported
  PROVE  /\ Shape' /\ conn = NoRequest
         /\ req[h].todo = <<>>
         /\ req'[h].todo = batch \/ (req'[h].at = "done" /\ req'[h].status \in {400, 413})
         /\ \A g \in Requests : g # h => req'[g] = req[g]
         /\ UNCHANGED <<inflight, pending, topic, met, emit, ch, batch, count, spool, sent, cfg>>
<1>1. /\ loop = "post" /\ loop' = "wait" /\ conn = NoRequest
      /\ UNCHANGED <<emit, ch, batch, count, spool, sent, cfg>>
  BY ShapeFacts DEF Sink!Post, Sink!queue
<1>2. SinkTyped'
  BY ShapeFacts, RunTyped
<1>3. batch \in Seq(Events)
  <2>1. batch \in Seq(Calls) /\ Calls \subseteq Events
    BY ShapeFacts DEF SinkTyped, Events
  <2>2. QED BY <2>1
<1>4. /\ CollTyped' /\ (\A g \in Requests : HandlerOk(g)')
      /\ req[h].todo = <<>>
      /\ \/ req'[h].at = "loop" /\ req'[h].todo = batch
         \/ req'[h].at = "done" /\ req'[h].todo = <<>> /\ req'[h].status \in {400, 413}
      /\ \A g \in Requests : g # h => req'[g] = req[g]
      /\ UNCHANGED <<inflight, pending, topic, met>>
  <2>1. PICK api \in {"events", "otel"} : Coll!Accept(h, api, batch)
    OBVIOUS
  <2>2. CollTyped /\ \A g \in Requests : HandlerOk(g)
    BY ShapeFacts
  <2>3. QED BY <1>3, <2>1, <2>2, AcceptDoes
<1>5. (conn \in Requests \cup {NoRequest})' /\ (exported \subseteq Spans)' /\ ConnOk'
  BY <1>1, <1>4, ShapeFacts DEF ConnOk
<1>6. QED BY <1>1, <1>2, <1>4, <1>5 DEF Shape, PathTyped

LEMMA ExportDoes ==
  ASSUME Shape, NEW o \in Spans, Export(o)
  PROVE  /\ Shape' /\ UNCHANGED <<sinkVars, conn, inflight, pending, topic, met>>
         /\ \E h \in Requests : /\ req[h].at = "idle" /\ req[h].todo = <<>> /\ req'[h].at \in {"loop", "done"}
                                /\ \A g \in Requests : g # h => req'[g] = req[g]
<1>1. PICK h \in Requests : Coll!Accept(h, "otel", <<o>>)
  BY DEF Export
<1>2. UNCHANGED <<sinkVars, conn>> /\ exported' \subseteq Spans
  BY ShapeFacts DEF Export
<1>3. <<o>> \in Seq(Events)
  BY DEF Events
<1>4. /\ CollTyped' /\ (\A g \in Requests : HandlerOk(g)')
      /\ req[h].at = "idle" /\ req[h].todo = <<>> /\ req'[h].at \in {"loop", "done"}
      /\ \A g \in Requests : g # h => req'[g] = req[g]
      /\ UNCHANGED <<inflight, pending, topic, met>>
  <2>1. PICK api \in {"events", "otel"}, payload \in Seq(Events) : Coll!Accept(h, api, payload)
    BY <1>1, <1>3
  <2>2. CollTyped /\ \A g \in Requests : HandlerOk(g)
    BY ShapeFacts
  <2>3. QED BY <2>1, <2>2, AcceptDoes
<1>5. conn # NoRequest => req'[conn].at # "idle"
  BY <1>4, ShapeFacts
<1>6. Shape'
  BY <1>2, <1>4, <1>5, CollectorSide
<1>7. QED BY <1>2, <1>4, <1>6

LEMMA DiscardDoes ==
  ASSUME Shape, NEW h \in Requests, ReplyDiscarded(h)
  PROVE  /\ Shape' /\ h # conn /\ UNCHANGED <<sinkVars, conn, inflight, pending, topic, met>>
         /\ req[h].at = "done" /\ req'[h].at = "idle" /\ req[h].todo = <<>> /\ req'[h].todo = <<>>
         /\ \A g \in Requests : g # h => req'[g] = req[g]
<1>1. h # conn /\ Coll!Return(h) /\ UNCHANGED <<sinkVars, conn, exported>>
  BY DEF ReplyDiscarded, CollectorOnly
<1>2. /\ CollTyped' /\ (\A g \in Requests : HandlerOk(g)')
      /\ req[h].at = "done" /\ req'[h].at = "idle" /\ req[h].todo = <<>> /\ req'[h].todo = <<>>
      /\ \A g \in Requests : g # h => req'[g] = req[g]
      /\ UNCHANGED <<inflight, pending, topic, met>>
  BY <1>1, ShapeFacts, ReturnDoes
<1>3. conn # NoRequest => req'[conn].at # "idle"
  BY <1>1, <1>2, ShapeFacts
<1>4. exported' \subseteq Spans
  BY <1>1, ShapeFacts
<1>5. Shape'
  BY <1>1, <1>2, <1>3, <1>4, CollectorSide
<1>6. QED BY <1>1, <1>2, <1>5

LEMMA ProducedDoes ==
  ASSUME Shape, NEW e \in Events, Produced(e)
  PROVE  /\ Shape' /\ UNCHANGED <<sinkVars, conn, req>>
         /\ pending[e] > 0 /\ pending' = [pending EXCEPT ![e] = @ - 1] /\ inflight' = inflight - 1
         /\ \A d \in Events : topic'[d] >= topic[d] /\ (d # e => topic'[d] = topic[d] /\ pending'[d] = pending[d])
         /\ \/ topic'[e] > 0 /\ CollectorLosses' = CollectorLosses
            \/ CollectorLosses' = CollectorLosses + 1
<1>1. Coll!Settle(e) /\ UNCHANGED <<sinkVars, conn, exported>>
  BY DEF Produced, CollectorOnly
<1>2. /\ CollTyped' /\ UNCHANGED req
      /\ pending[e] > 0 /\ pending' = [pending EXCEPT ![e] = @ - 1] /\ inflight' = inflight - 1
      /\ \A d \in Events : topic'[d] >= topic[d] /\ (d # e => topic'[d] = topic[d] /\ pending'[d] = pending[d])
      /\ \/ topic'[e] > 0 /\ CollectorLosses' = CollectorLosses
         \/ CollectorLosses' = CollectorLosses + 1
  BY <1>1, ShapeFacts, SettleDoes
<1>3. \A g \in Requests : HandlerOk(g)'
  BY <1>2, ShapeFacts DEF HandlerOk
<1>4. (conn # NoRequest => req'[conn].at # "idle") /\ exported' \subseteq Spans
  BY <1>1, <1>2, ShapeFacts
<1>5. Shape'
  BY <1>1, <1>2, <1>3, <1>4, CollectorSide
<1>6. QED BY <1>1, <1>2, <1>5

\* Every way an attempt ends, or a flush to a file.
Ended ==
  \/ Sink!FlushSucceeds /\ (~ cfg.http \/ (conn \in Requests /\ Taken /\ req[conn].todo = <<>>))
  \/ Sink!FlushFails("flushErrors") \/ Sink!FlushFails("flushRejected")
  \/ Sink!Retry

LEMMA ReplyArrivesDoes ==
  ASSUME Shape, ReplyArrives
  PROVE  /\ Shape' /\ Ended /\ conn' = NoRequest /\ UNCHANGED <<inflight, pending, topic, met>>
         /\ \A g \in Requests : req'[g].todo = req[g].todo
         /\ conn \in Requests /\ req[conn].at = "done" /\ req'[conn].at = "idle"
         /\ \A g \in Requests : g # conn => req'[g] = req[g]
<1>1. /\ conn \in Requests /\ req[conn].at = "done" /\ conn' = NoRequest /\ UNCHANGED exported
      /\ Coll!Return(conn)
  BY ShapeFacts DEF ReplyArrives
<1>2. PICK status \in Nat : status = req[conn].status /\ Sink!Reply(status)
  BY <1>1, ShapeFacts, ReqTypes DEF ReplyArrives
<1>3. PICK h \in Requests : h = conn /\ Coll!Return(h)
  BY <1>1
<1>4. /\ CollTyped' /\ (\A g \in Requests : HandlerOk(g)')
      /\ req[h].at = "done" /\ req'[h].at = "idle" /\ req[h].todo = <<>> /\ req'[h].todo = <<>>
      /\ \A g \in Requests : g # h => req'[g] = req[g]
      /\ UNCHANGED <<inflight, pending, topic, met>>
  BY <1>3, ShapeFacts, ReturnDoes
<1>5. SinkTyped'
  BY <1>2, ShapeFacts, AnswerTyped
<1>6. Shape'
  BY <1>1, <1>4, <1>5, ShapeFacts DEF Shape, PathTyped, ConnOk
<1>7. Ended
  <2>1. CASE status \in 200..299 /\ Sink!FlushSucceeds
    <3>1. status # 400 /\ status # 413
      BY <2>1
    <3>2. Taken
      BY <1>1, <1>2, <3>1, PathAssumption DEF Taken
    <3>3. QED BY <1>1, <1>3, <1>4, <2>1, <3>2 DEF Ended
  <2>2. CASE Sink!Retry \/ Sink!FlushFails("flushRejected")
    BY <2>2 DEF Ended
  <2>3. QED BY <1>2, <2>1, <2>2 DEF Sink!Reply
<1>8. QED BY <1>1, <1>3, <1>4, <1>6, <1>7

LEMMA NoAnswerDoes ==
  ASSUME Shape, Unavailable \/ SinkGivesUp
  PROVE  Shape' /\ Ended /\ conn' = NoRequest /\ UNCHANGED collVars
<1>1. conn' = NoRequest /\ UNCHANGED <<collVars, exported>>
  BY DEF Unavailable, SinkGivesUp, SinkOnly
<1>2. PICK status \in Nat : status = 503 /\ (Sink!Reply(status) \/ Sink!NoReply)
  BY DEF Unavailable, SinkGivesUp
<1>3. SinkTyped'
  BY <1>2, ShapeFacts, AnswerTyped
<1>4. Ended
  <2>1. status \notin 200..299
    BY <1>2
  <2>2. QED BY <1>2, <2>1 DEF Sink!Reply, Sink!NoReply, Ended
<1>5. Shape'
  BY <1>1, <1>3, SinkSide
<1>6. QED BY <1>1, <1>4, <1>5

LEMMA FlushFileDoes ==
  ASSUME Shape, Sink!FlushFile, SinkOnly
  PROVE  Shape' /\ Ended /\ conn' = NoRequest /\ conn = NoRequest /\ UNCHANGED collVars
<1>1. conn' = conn /\ UNCHANGED <<collVars, exported>> /\ conn = NoRequest
  BY ShapeFacts DEF SinkOnly, Sink!FlushFile
<1>2. SinkTyped'
  BY ShapeFacts, RunTyped
<1>3. Ended
  BY DEF Sink!FlushFile, Ended
<1>4. QED BY <1>1, <1>2, <1>3, SinkSide

\* The other steps of the sink: a call of Emit, Close, run between two flushes, a lost request.
SinkQuiet ==
  \/ (\E e \in Calls : Sink!Handlers(e)) \/ Sink!Close \/ Sink!RunReceive \/ Sink!RunTick \/ Sink!RunDrained \/ Sink!Post

LEMMA SinkQuietDoes ==
  ASSUME Shape, SinkQuiet, SinkOnly
  PROVE  Shape' /\ UNCHANGED collVars /\ conn' = conn
<1>1. conn' = conn /\ UNCHANGED <<collVars, exported>>
  BY DEF SinkOnly
<1>2. SinkTyped'
  BY ShapeFacts, HandlersTyped, RunTyped DEF SinkQuiet
<1>3. loop = "wait" => loop' = "wait"
  BY DEF SinkQuiet, Sink!Handlers, Sink!EmitAccept, Sink!EmitDrop, Sink!EmitTimeout, Sink!Drop, Sink!EmitBlock,
         Sink!EmitPanic, Sink!Close, Sink!RunReceive, Sink!RunTick, Sink!RunDrained, Sink!Post, Sink!flusher
<1>4. QED BY <1>1, <1>2, <1>3, SinkSide
-----------------------------------------------------------------------------
(***************************************************************************)
(* What a step loses is counted by the step.                               *)
(***************************************************************************)
LEMMA FlushCounts ==
  ASSUME SinkTyped
  PROVE  /\ count.flushErrors \in Nat /\ count.flushRejected \in Nat
         /\ BatchMax * (count.flushErrors + count.flushRejected) \in Nat
<1>1. count.flushErrors \in Nat /\ count.flushRejected \in Nat
  BY DEF SinkTyped
<1>2. \A a, b \in Nat : a * b \in Nat
  OBVIOUS
<1>3. QED BY <1>1, <1>2, Sizes

\* What is counted at the gateway and at the collector.
Budget == BatchMax * (count.flushErrors + count.flushRejected) + CollectorLosses

LEMMA NextTyped ==
  ASSUME Shape'
  PROVE  /\ CollectorLosses' \in Nat /\ Budget' \in Nat
         /\ \A e \in Calls : topic'[e] \in Nat
<1>1. /\ met' \in [accepted : Nat, bad : Nat, busy : Nat, produced : Nat, failed : Nat]
      /\ topic' \in [Events -> Nat]
      /\ count' \in [emitted : Nat, dropped : Nat, flushErrors : Nat, flushRejected : Nat]
  BY DEF Shape, PathTyped, CollTyped, SinkTyped
<1>2. met'.bad \in Nat /\ met'.busy \in Nat /\ met'.failed \in Nat
  BY <1>1
<1>3. CollectorLosses' \in Nat
  BY <1>2 DEF CollectorLosses
<1>4. PICK f, r \in Nat : f = count'.flushErrors /\ r = count'.flushRejected
  BY <1>1
<1>5. BatchMax * (f + r) \in Nat
  <2>1. \A a, b \in Nat : a * b \in Nat
    OBVIOUS
  <2>2. QED BY <2>1, Sizes
<1>6. Budget' \in Nat
  BY <1>3, <1>4, <1>5 DEF Budget
<1>7. QED BY <1>1, <1>3, <1>6 DEF Events

LEMMA LossKept ==
  ASSUME Shape, Shape', LossInv, NEW C, IsFiniteSet(C), Missing' \subseteq Missing \cup C,
         NEW k \in Nat, Cardinality(C) <= k, Budget' >= Budget + k
  PROVE  LossInv'
<1>1. Budget \in Nat /\ Budget' \in Nat
  BY NextTyped, ShapeFacts, FlushCounts, MetTypes DEF Budget
<1>2. IsFiniteSet(Calls) /\ Missing \in SUBSET Calls /\ Missing' \in SUBSET Calls
  BY PathAssumption DEF Missing
<1>3. Cardinality(Missing) <= Budget
  BY DEF LossInv, Budget
<1>4. Cardinality(Missing') <= Budget'
  BY <1>1, <1>2, <1>3, CountKeepsUp
<1>5. QED BY <1>4 DEF LossInv, Budget

LEMMA FlushKept ==
  ASSUME Shape, Shape', FlushInv, cfg' = cfg, NEW C, IsFiniteSet(C), Unproduced' \subseteq Unproduced \cup C,
         NEW k \in Nat, Cardinality(C) <= k, CollectorLosses' >= CollectorLosses + k
  PROVE  FlushInv'
<1>1. CollectorLosses \in Nat /\ CollectorLosses' \in Nat
  BY NextTyped, ShapeFacts, MetTypes
<1>2. IsFiniteSet(Calls) /\ Unproduced \in SUBSET Calls /\ Unproduced' \in SUBSET Calls
  BY PathAssumption DEF Unproduced
<1>3. ASSUME cfg.http PROVE Cardinality(Unproduced') <= CollectorLosses'
  <2>1. Cardinality(Unproduced) <= CollectorLosses
    BY <1>3 DEF FlushInv
  <2>2. QED BY <1>1, <1>2, <2>1, CountKeepsUp
<1>4. QED BY <1>3 DEF FlushInv

\* The collector works on, or takes a request of somebody else: the events of C are all
\* that nobody has any more.
LEMMA CollectorLoses ==
  ASSUME Shape, Shape', LossInv, FlushInv, UNCHANGED <<sinkVars, conn>>, Taken' = Taken,
         NEW C, IsFiniteSet(C), NEW k \in Nat, Cardinality(C) <= k, CollectorLosses' = CollectorLosses + k,
         \A e \in Calls \ C :
           topic'[e] = 0 /\ pending'[e] = 0 =>
             /\ topic[e] = 0 /\ pending[e] = 0
             /\ \A g \in Requests : e \in Elements(req[g].todo) => e \in Elements(req'[g].todo)
  PROVE  LossInv' /\ FlushInv'
<1>1. UNCHANGED <<cfg, emit, ch, batch, count, spool, sent, conn>>
  BY DEF sinkVars
<1>2. \A e \in Calls : topic'[e] \in Nat
  BY NextTyped
<1>3. ASSUME NEW e \in Missing', e \notin C PROVE e \in Missing
  <2>1. e \in Calls /\ emit'[e] = "accepted" /\ Away(e)' /\ (e \in Elements(batch') => Taken')
    BY <1>3 DEF Missing
  <2>2. pending'[e] = 0 /\ topic'[e] = 0
    BY <1>2, <2>1 DEF Away, Safe
  <2>3. /\ topic[e] = 0 /\ pending[e] = 0
        /\ \A g \in Requests : e \in Elements(req[g].todo) => e \in Elements(req'[g].todo)
    BY <1>3, <2>1, <2>2
  <2>4. Away(e)
    BY <1>1, <2>1, <2>3 DEF Away, Safe
  <2>5. QED BY <1>1, <2>1, <2>4 DEF Missing
<1>4. ASSUME NEW e \in Unproduced', e \notin C PROVE e \in Unproduced
  <2>1. e \in Calls /\ topic'[e] = 0 /\ pending'[e] = 0 /\ Dealt(e)'
    BY <1>4 DEF Unproduced
  <2>2. /\ topic[e] = 0 /\ pending[e] = 0
        /\ \A g \in Requests : e \in Elements(req[g].todo) => e \in Elements(req'[g].todo)
    BY <1>4, <2>1
  <2>3. Taken => conn \in Requests
    BY ShapeFacts DEF Taken
  <2>4. Dealt(e)
    BY <1>1, <2>1, <2>2, <2>3 DEF Dealt
  <2>5. QED BY <2>1, <2>2, <2>4 DEF Unproduced
<1>5. LossInv'
  <2>1. Budget' >= Budget + k
    <3>1. CollectorLosses \in Nat /\ CollectorLosses' \in Nat
      BY NextTyped, ShapeFacts, MetTypes
    <3>2. PICK n \in Nat : n = BatchMax * (count.flushErrors + count.flushRejected)
      BY ShapeFacts, FlushCounts
    <3>3. Budget = n + CollectorLosses /\ Budget' = n + CollectorLosses'
      BY <1>1, <3>2 DEF Budget
    <3>4. QED BY <3>1, <3>3
  <2>2. QED BY <1>3, <2>1, LossKept
<1>6. FlushInv'
  <2>1. CollectorLosses' >= CollectorLosses + k
    BY ShapeFacts, MetTypes
  <2>2. QED BY <1>1, <1>4, <2>1, FlushKept
<1>7. QED BY <1>5, <1>6

\* A step that loses nothing.
LEMMA NothingLost ==
  ASSUME Shape, Shape', LossInv, FlushInv, cfg' = cfg, Missing' \subseteq Missing, Unproduced' \subseteq Unproduced,
         CollectorLosses' = CollectorLosses, UNCHANGED <<count.flushErrors, count.flushRejected>>
  PROVE  LossInv' /\ FlushInv'
<1>1. PICK C : C = {}
  OBVIOUS
<1>2. IsFiniteSet(C) /\ Cardinality(C) <= 0
  BY <1>1, FS_EmptySet
<1>3. CollectorLosses \in Nat /\ CollectorLosses' >= CollectorLosses + 0
  BY ShapeFacts, MetTypes
<1>4. Budget' >= Budget + 0
  <2>1. Budget' = Budget /\ Budget \in Nat
    BY <1>3, ShapeFacts, FlushCounts DEF Budget
  <2>2. QED BY <2>1
<1>5. QED BY <1>1, <1>2, <1>3, <1>4, LossKept, FlushKept

\* The end of an attempt: the batch is taken over, tried again, or given up and counted.
LEMMA EndedLoses ==
  ASSUME Shape, Shape', LossInv, FlushInv, Ended, conn' = NoRequest, UNCHANGED <<pending, topic, met>>,
         \A g \in Requests : req'[g].todo = req[g].todo
  PROVE  LossInv' /\ FlushInv'
<1>1. ~ Taken' /\ CollectorLosses' = CollectorLosses
  BY DEF Taken, CollectorLosses
<1>2. UNCHANGED <<cfg, emit, ch>>
  BY DEF Ended, Sink!FlushSucceeds, Sink!FlushFails, Sink!Retry, Sink!queue
<1>3. CASE Sink!FlushSucceeds /\ (~ cfg.http \/ (conn \in Requests /\ Taken /\ req[conn].todo = <<>>))
  <2>1. batch' = <<>> /\ sent' = sent \cup Elements(batch) /\ UNCHANGED <<count, spool>>
    BY <1>3 DEF Sink!FlushSucceeds, Sink!FlushReturns, Elements
  <2>2. ASSUME NEW e \in Missing' PROVE e \in Missing
    <3>1. e \in Calls /\ emit[e] = "accepted" /\ Away(e)'
      BY <1>2, <2>2 DEF Missing
    <3>2. Away(e)
      BY <1>2, <2>1, <3>1 DEF Away, Safe
    <3>3. e \in Elements(batch) => Taken
      <4>1. ASSUME ~ cfg.http, e \in Elements(batch) PROVE FALSE
        BY <1>2, <2>1, <3>1, <4>1 DEF Away, Safe
      <4>2. QED BY <1>3, <4>1
    <3>4. QED BY <3>1, <3>2, <3>3 DEF Missing
  <2>3. CASE ~ cfg.http
    <3>1. LossInv'
      <4>1. PICK C : C = {}
        OBVIOUS
      <4>2. IsFiniteSet(C) /\ Cardinality(C) <= 0
        BY <4>1, FS_EmptySet
      <4>3. Budget' = Budget /\ Budget \in Nat
        BY <1>1, <2>1, ShapeFacts, FlushCounts, MetTypes DEF Budget
      <4>4. Budget' >= Budget + 0
        BY <4>3
      <4>5. QED BY <2>2, <4>1, <4>2, <4>4, LossKept
    <3>2. QED BY <1>2, <2>3, <3>1 DEF FlushInv
  <2>4. CASE conn \in Requests /\ Taken /\ req[conn].todo = <<>>
    <3>1. ASSUME NEW e \in Unproduced' PROVE e \in Unproduced
      <4>1. e \in Calls /\ topic[e] = 0 /\ pending[e] = 0 /\ e \in sent'
        BY <1>1, <3>1 DEF Unproduced, Dealt
      <4>2. Dealt(e)
        BY <2>1, <2>4, <4>1, ElementsEmpty DEF Dealt
      <4>3. QED BY <4>1, <4>2 DEF Unproduced
    <3>2. QED BY <1>1, <1>2, <2>1, <2>2, <3>1, NothingLost
  <2>5. QED BY <1>3, <2>3, <2>4
<1>4. ASSUME sent' = sent, NEW e \in Unproduced' PROVE e \in Unproduced
  BY <1>1, <1>4 DEF Unproduced, Dealt
<1>5. CASE Sink!Retry
  <2>1. UNCHANGED <<batch, count, spool, sent>>
    BY <1>5 DEF Sink!Retry
  <2>2. ASSUME NEW e \in Missing' PROVE e \in Missing
    <3>1. e \in Calls /\ emit[e] = "accepted" /\ Away(e)' /\ e \notin Elements(batch)
      BY <1>1, <1>2, <2>1, <2>2 DEF Missing
    <3>2. Away(e)
      BY <1>2, <2>1, <3>1 DEF Away, Safe
    <3>3. QED BY <3>1, <3>2 DEF Missing
  <2>3. QED BY <1>1, <1>2, <1>4, <2>1, <2>2, NothingLost
<1>6. CASE Sink!FlushFails("flushErrors") \/ Sink!FlushFails("flushRejected")
  <2>1. /\ batch' = <<>> /\ sent' = sent /\ spool \subseteq spool'
        /\ count' = [count EXCEPT !.flushErrors = @ + 1] \/ count' = [count EXCEPT !.flushRejected = @ + 1]
    BY <1>6 DEF Sink!FlushFails, Sink!FlushReturns
  <2>2. ASSUME NEW e \in Missing', e \notin Elements(batch) PROVE e \in Missing
    <3>1. e \in Calls /\ emit[e] = "accepted" /\ Away(e)'
      BY <1>2, <2>2 DEF Missing
    <3>2. Away(e)
      BY <1>2, <2>1, <3>1 DEF Away, Safe
    <3>3. QED BY <2>2, <3>1, <3>2 DEF Missing
  <2>3. IsFiniteSet(Elements(batch)) /\ Cardinality(Elements(batch)) <= BatchMax
    <3>1. batch \in Seq(Calls) /\ Len(batch) <= BatchMax /\ Len(batch) \in Nat
      BY ShapeFacts DEF SinkTyped
    <3>2. QED BY <3>1, ElementsBound, Sizes
  <2>4. Budget' >= Budget + BatchMax
    <3>1. PICK f, r \in Nat : f = count.flushErrors /\ r = count.flushRejected
      BY ShapeFacts, FlushCounts
    <3>2. count'.flushErrors + count'.flushRejected = f + r + 1
      <4>1. count \in [emitted : Nat, dropped : Nat, flushErrors : Nat, flushRejected : Nat]
        BY ShapeFacts DEF SinkTyped
      <4>2. QED BY <2>1, <3>1, <4>1
    <3>3. PICK n \in Nat : n = CollectorLosses
      BY ShapeFacts, MetTypes
    <3>4. Budget = BatchMax * (f + r) + n /\ Budget' = BatchMax * (f + r + 1) + n
      BY <1>1, <3>1, <3>2, <3>3 DEF Budget
    <3>5. \A b, x, y \in Nat : b * (x + 1) + y = b * x + y + b
      OBVIOUS
    <3>6. f + r \in Nat /\ BatchMax \in Nat
      BY <3>1, Sizes
    <3>7. Budget' = Budget + BatchMax
      BY <3>3, <3>4, <3>5, <3>6
    <3>8. Budget \in Nat
      BY ShapeFacts, FlushCounts, MetTypes DEF Budget
    <3>9. QED BY <3>6, <3>7, <3>8
  <2>5. LossInv'
    <3>1. Missing' \subseteq Missing \cup Elements(batch)
      BY <2>2
    <3>2. PICK C : C = Elements(batch)
      OBVIOUS
    <3>3. QED BY <2>3, <2>4, <3>1, <3>2, LossKept, Sizes
  <2>6. FlushInv'
    <3>1. PICK C : C = {}
      OBVIOUS
    <3>2. IsFiniteSet(C) /\ Cardinality(C) <= 0
      BY <3>1, FS_EmptySet
    <3>3. CollectorLosses' >= CollectorLosses + 0
      BY <1>1, ShapeFacts, MetTypes
    <3>4. Unproduced' \subseteq Unproduced \cup C
      BY <1>4, <2>1
    <3>5. QED BY <1>2, <3>2, <3>3, <3>4, FlushKept
  <2>7. QED BY <2>5, <2>6
<1>7. QED BY <1>3, <1>5, <1>6 DEF Ended
-----------------------------------------------------------------------------
(***************************************************************************)
(* The steps keep the gate exact.                                          *)
(***************************************************************************)
LEMMA GateFacts ==
  ASSUME GateInv
  PROVE  /\ IsFiniteSet(Coll!Records(pending)) /\ Cardinality(Coll!Records(pending)) \in Nat
         /\ Cardinality(Undoing) \in Nat
         /\ inflight = Cardinality(Coll!Records(pending)) + Cardinality(Undoing)
         /\ Cardinality(Coll!Records(pending)) <= MaxInflight
BY UndoingFinite, FS_CardinalityType DEF GateInv, GateExact, Undoing

\* A step that neither gates a record nor takes one off.
LEMMA GateStays ==
  ASSUME GateInv, UNCHANGED <<pending, inflight>>, Undoing' = Undoing
  PROVE  GateInv'
BY GateFacts DEF GateInv, GateExact, Undoing

LEMMA GateHandler ==
  ASSUME Shape, GateInv, NEW h \in Requests, CollectorStep(h)
  PROVE  GateInv'
<1>1. CollTyped /\ (\A g \in Requests : HandlerOk(g)) /\ Coll!Handler(h)
  BY ShapeFacts DEF CollectorStep
<1>2. CASE Coll!RejectInvalid(h) \/ Coll!Backpressure(h)
  <2>1. /\ pending' = pending /\ req'[h].at = "loop" /\ req[h].at \in {"loop", "undo"}
        /\ inflight' = IF req[h].at = "undo" THEN inflight - 1 ELSE inflight
        /\ \A g \in Requests : g # h => req'[g] = req[g]
    BY <1>1, <1>2, RefusalDoes
  <2>2. CASE req[h].at = "undo"
    <3>1. Cardinality(Undoing') = Cardinality(Undoing) - 1
      BY <2>1, <2>2, UndoingChanges
    <3>2. inflight' = Cardinality(Coll!Records(pending)) + Cardinality(Undoing')
      BY <2>1, <2>2, <3>1, GateFacts
    <3>3. QED BY <2>1, <3>2, GateFacts DEF GateInv, GateExact, Undoing
  <2>3. CASE req[h].at = "loop"
    <3>1. Undoing' = Undoing /\ inflight' = inflight
      BY <2>1, <2>3, UndoingChanges
    <3>2. QED BY <2>1, <3>1, GateStays
  <2>4. QED BY <2>1, <2>2, <2>3
<1>3. CASE Coll!TryProduce(h)
  <2>1. /\ req[h].at = "loop" /\ req'[h].at = "loop" /\ \A g \in Requests : g # h => req'[g] = req[g]
        /\ inflight + 1 <= MaxInflight /\ inflight' = inflight + 1
        /\ Head(req[h].todo) \in Events /\ pending' = [pending EXCEPT ![Head(req[h].todo)] = @ + 1]
    BY <1>1, <1>3, TryProduceDoes
  <2>2. PICK e \in Events : pending' = [pending EXCEPT ![e] = @ + 1]
    BY <2>1
  <2>3. PICK c : c = pending'
    OBVIOUS
  <2>4. /\ IsFiniteSet(Coll!Records(c)) /\ Cardinality(Coll!Records(c)) = Cardinality(Coll!Records(pending)) + 1
    BY <1>1, <2>2, <2>3, GateFacts, MetTypes, RecordsMore
  <2>5. Undoing' = Undoing
    BY <2>1, UndoingChanges
  <2>6. /\ inflight' = Cardinality(Coll!Records(c)) + Cardinality(Undoing)
        /\ Cardinality(Coll!Records(c)) <= MaxInflight
    BY <2>1, <2>4, GateFacts, Sizes
  <2>7. QED BY <2>3, <2>4, <2>5, <2>6 DEF GateInv, GateExact, Undoing
<1>4. CASE Coll!TryProduceFull(h)
  <2>1. /\ req[h].at = "loop" /\ req'[h].at = "undo" /\ \A g \in Requests : g # h => req'[g] = req[g]
        /\ pending' = pending /\ inflight' = inflight + 1
    BY <1>1, <1>4, TryProduceFullDoes
  <2>2. Cardinality(Undoing') = Cardinality(Undoing) + 1
    BY <2>1, UndoingChanges
  <2>3. inflight' = Cardinality(Coll!Records(pending)) + Cardinality(Undoing')
    BY <2>1, <2>2, GateFacts
  <2>4. QED BY <2>1, <2>3, GateFacts DEF GateInv, GateExact, Undoing
<1>5. CASE Coll!Respond(h)
  <2>1. /\ req[h].at = "loop" /\ req'[h].at = "done" /\ \A g \in Requests : g # h => req'[g] = req[g]
        /\ UNCHANGED <<pending, inflight>>
    BY <1>1, <1>5, RespondDoes
  <2>2. Undoing' = Undoing
    BY <2>1, UndoingChanges
  <2>3. QED BY <2>1, <2>2, GateStays
<1>6. QED BY <1>1, <1>2, <1>3, <1>4, <1>5 DEF Coll!Handler

LEMMA GateProduced ==
  ASSUME Shape, GateInv, NEW e \in Events, Produced(e)
  PROVE  GateInv'
<1>1. /\ UNCHANGED req /\ pending[e] > 0 /\ inflight' = inflight - 1
      /\ pending' = [pending EXCEPT ![e] = @ - 1]
  BY ProducedDoes
<1>2. PICK c : c = pending'
  OBVIOUS
<1>3. /\ IsFiniteSet(Coll!Records(c)) /\ Cardinality(Coll!Records(c)) \in Nat
      /\ Cardinality(Coll!Records(pending)) = Cardinality(Coll!Records(c)) + 1
  <2>1. pending \in [Events -> Nat] /\ IsFiniteSet(Coll!Records(pending))
    BY GateFacts, ShapeFacts, MetTypes
  <2>2. QED BY <1>1, <1>2, <2>1, RecordsLess
<1>4. /\ inflight' = Cardinality(Coll!Records(c)) + Cardinality(Undoing)
      /\ Cardinality(Coll!Records(c)) <= MaxInflight
  BY <1>1, <1>3, GateFacts, Sizes
<1>5. QED BY <1>1, <1>2, <1>3, <1>4 DEF GateInv, GateExact, Undoing
-----------------------------------------------------------------------------
(***************************************************************************)
(* The invariant.                                                          *)
(***************************************************************************)
\* The handler of h refuses an event, lets it in, or changes nothing that counts.
LEMMA HandlerLoses ==
  ASSUME Inv, Shape', NEW h \in Requests, CollectorStep(h)
  PROVE  LossInv' /\ FlushInv'
<1>1. /\ Shape /\ LossInv /\ FlushInv
      /\ CollTyped /\ (\A g \in Requests : HandlerOk(g)) /\ Coll!Handler(h)
  BY ShapeFacts DEF CollectorStep, Inv
<1>2. /\ UNCHANGED <<sinkVars, conn>>
      /\ req[h].at \in {"loop", "undo"}
      /\ req'[h].at \in {"loop", "undo"} \/ (req'[h].at = "done" /\ req'[h].status \in {200, 202, 422, 429})
      /\ \A g \in Requests : g # h => req'[g] = req[g]
  BY <1>1, HandlerDoes
<1>3. Taken' = Taken
  <2>1. CASE conn = h
    <3>1. Taken
      BY <1>2, <2>1, PathAssumption DEF Taken
    <3>2. ~ (req'[h].at = "done" /\ req'[h].status \in {400, 413})
      BY <1>2
    <3>3. Taken'
      BY <1>2, <2>1, <3>2, PathAssumption DEF Taken
    <3>4. QED BY <3>1, <3>3
  <2>2. CASE conn # h
    <3>1. conn # NoRequest => req'[conn] = req[conn]
      BY <1>1, <1>2, <2>2, ShapeFacts
    <3>2. QED BY <1>2, <3>1 DEF Taken
  <2>3. QED BY <2>1, <2>2
<1>4. PICK C : C = {}
  OBVIOUS
<1>5. IsFiniteSet(C) /\ Cardinality(C) <= 0
  BY <1>4, FS_EmptySet
<1>6. CollectorLosses \in Nat /\ pending \in [Events -> Nat] /\ Calls \subseteq Events
  BY <1>1, MetTypes DEF Events
<1>7. CASE Coll!RejectInvalid(h) \/ Coll!Backpressure(h)
  <2>1. /\ req[h].todo # <<>> /\ req'[h].todo = Tail(req[h].todo)
        /\ UNCHANGED <<pending, topic>> /\ CollectorLosses' = CollectorLosses + 1
    BY <1>1, <1>7, RefusalDoes
  <2>2. PICK x : x = Head(req[h].todo)
    OBVIOUS
  <2>3. Elements(req[h].todo) = {x} \cup Elements(req'[h].todo)
    BY <1>1, <2>1, <2>2, ReqTypes, ElementsTail
  <2>4. PICK D : D = {x}
    OBVIOUS
  <2>5. IsFiniteSet(D) /\ Cardinality(D) <= 1
    <3>1. IsFiniteSet(D) /\ Cardinality(D) = 1
      BY <2>4, FS_Singleton
    <3>2. QED BY <3>1
  <2>6. ASSUME NEW e \in Calls \ D, NEW g \in Requests, e \in Elements(req[g].todo) PROVE e \in Elements(req'[g].todo)
    BY <1>2, <2>3, <2>4, <2>6
  <2>7. QED BY <1>1, <1>2, <1>3, <2>1, <2>5, <2>6, CollectorLoses
<1>8. CASE Coll!TryProduce(h)
  <2>1. /\ req[h].todo # <<>> /\ req'[h].todo = Tail(req[h].todo)
        /\ topic' = topic /\ CollectorLosses' = CollectorLosses
        /\ Head(req[h].todo) \in Events /\ pending' = [pending EXCEPT ![Head(req[h].todo)] = @ + 1]
    BY <1>1, <1>8, TryProduceDoes
  <2>2. PICK x \in Events : x = Head(req[h].todo) /\ pending' = [pending EXCEPT ![x] = @ + 1]
    BY <2>1
  <2>3. Elements(req[h].todo) = {x} \cup Elements(req'[h].todo)
    BY <1>1, <2>1, <2>2, ReqTypes, ElementsTail
  <2>4. pending'[x] # 0 /\ \A d \in Events : d # x => pending'[d] = pending[d]
    BY <1>6, <2>2
  <2>5. ASSUME NEW e \in Calls, pending'[e] = 0
        PROVE  pending[e] = 0 /\ \A g \in Requests : e \in Elements(req[g].todo) => e \in Elements(req'[g].todo)
    BY <1>2, <1>6, <2>3, <2>4, <2>5
  <2>6. CollectorLosses' = CollectorLosses + 0
    BY <1>6, <2>1
  <2>7. QED BY <1>1, <1>2, <1>3, <1>5, <2>1, <2>5, <2>6, CollectorLoses
<1>9. CASE Coll!TryProduceFull(h) \/ Coll!Respond(h)
  <2>1. req'[h].todo = req[h].todo /\ UNCHANGED <<pending, topic, met>>
    <3>1. CASE Coll!TryProduceFull(h)
      BY <1>1, <3>1, TryProduceFullDoes
    <3>2. CASE Coll!Respond(h)
      BY <1>1, <3>2, RespondDoes
    <3>3. QED BY <1>9, <3>1, <3>2
  <2>2. \A g \in Requests : req'[g].todo = req[g].todo
    BY <1>2, <2>1
  <2>3. CollectorLosses' = CollectorLosses + 0
    BY <1>6, <2>1 DEF CollectorLosses
  <2>4. QED BY <1>1, <1>2, <1>3, <1>5, <2>1, <2>2, <2>3, CollectorLoses
<1>10. QED BY <1>1, <1>7, <1>8, <1>9 DEF Coll!Handler

\* A settled record is in the topic, or counted as failed.
LEMMA ProducedLoses ==
  ASSUME Inv, Shape', NEW x \in Events, Produced(x)
  PROVE  LossInv' /\ FlushInv'
<1>1. Shape /\ LossInv /\ FlushInv
  BY DEF Inv
<1>2. /\ UNCHANGED <<sinkVars, conn, req>>
      /\ \A d \in Events : topic'[d] >= topic[d] /\ (d # x => topic'[d] = topic[d] /\ pending'[d] = pending[d])
      /\ \/ topic'[x] > 0 /\ CollectorLosses' = CollectorLosses
         \/ CollectorLosses' = CollectorLosses + 1
  BY <1>1, ProducedDoes
<1>3. Taken' = Taken
  BY <1>2 DEF Taken
<1>4. CollectorLosses \in Nat /\ Calls \subseteq Events
  BY <1>1, ShapeFacts, MetTypes DEF Events
<1>5. CASE topic'[x] > 0 /\ CollectorLosses' = CollectorLosses
  <2>1. PICK C : C = {}
    OBVIOUS
  <2>2. IsFiniteSet(C) /\ Cardinality(C) <= 0
    BY <2>1, FS_EmptySet
  <2>3. CollectorLosses' = CollectorLosses + 0
    BY <1>4, <1>5
  <2>4. ASSUME NEW e \in Calls, topic'[e] = 0, pending'[e] = 0 PROVE topic[e] = 0 /\ pending[e] = 0
    BY <1>2, <1>4, <1>5, <2>4
  <2>5. QED BY <1>1, <1>2, <1>3, <2>2, <2>3, <2>4, CollectorLoses
<1>6. CASE CollectorLosses' = CollectorLosses + 1
  <2>1. PICK C : C = {x}
    OBVIOUS
  <2>2. IsFiniteSet(C) /\ Cardinality(C) <= 1
    BY <2>1, FS_Singleton
  <2>3. ASSUME NEW e \in Calls \ C, topic'[e] = 0, pending'[e] = 0 PROVE topic[e] = 0 /\ pending[e] = 0
    BY <1>2, <1>4, <2>1, <2>3
  <2>4. QED BY <1>1, <1>2, <1>3, <1>6, <2>2, <2>3, CollectorLoses
<1>7. QED BY <1>2, <1>5, <1>6

\* A step of the collector with the same records and counters: it takes or ends a request
\* that is not the sink's.
LEMMA OthersLose ==
  ASSUME Inv, Shape', UNCHANGED <<sinkVars, conn, pending, topic, met>>, NEW h \in Requests, h # conn,
         req[h].todo = <<>>, \A g \in Requests : g # h => req'[g] = req[g]
  PROVE  LossInv' /\ FlushInv'
<1>1. Shape /\ LossInv /\ FlushInv
  BY DEF Inv
<1>2. Taken' = Taken
  <2>1. conn # NoRequest => req'[conn] = req[conn]
    BY <1>1, ShapeFacts
  <2>2. QED BY <2>1 DEF Taken
<1>3. PICK C : C = {}
  OBVIOUS
<1>4. IsFiniteSet(C) /\ Cardinality(C) <= 0
  BY <1>3, FS_EmptySet
<1>5. CollectorLosses' = CollectorLosses + 0
  BY <1>1, ShapeFacts, MetTypes DEF CollectorLosses
<1>6. \A e \in Calls, g \in Requests : e \in Elements(req[g].todo) => e \in Elements(req'[g].todo)
  BY ElementsEmpty
<1>7. QED BY <1>1, <1>2, <1>4, <1>5, <1>6, CollectorLoses

\* An event Emit accepts is in the buffer; one that run receives goes to its batch.
LEMMA SinkQuietLoses ==
  ASSUME Inv, Shape', SinkQuiet, SinkOnly
  PROVE  LossInv' /\ FlushInv'
<1>1. Shape /\ LossInv /\ FlushInv
  BY DEF Inv
<1>2. UNCHANGED <<req, inflight, pending, topic, met, conn>>
  BY DEF SinkOnly, collVars
<1>3. CollectorLosses' = CollectorLosses /\ Taken' = Taken
  BY <1>2 DEF CollectorLosses, Taken
<1>4. CASE Sink!RunReceive
  <2>1. /\ loop = "select" /\ ch # <<>> /\ ch' = Tail(ch) /\ batch' = Append(batch, Head(ch))
        /\ UNCHANGED <<cfg, emit, count, spool, sent>>
    BY <1>4 DEF Sink!RunReceive
  <2>2. ~ Taken /\ ~ Taken'
    BY <1>1, <1>3, <2>1, ShapeFacts DEF Taken
  <2>3. ch \in Seq(Calls) /\ batch \in Seq(Calls)
    BY <1>1, ShapeFacts DEF SinkTyped
  <2>4. Elements(ch) = {Head(ch)} \cup Elements(ch') /\ Head(ch) \in Calls
    BY <2>1, <2>3, ElementsTail
  <2>5. Elements(batch') = Elements(batch) \cup {Head(ch)}
    BY <2>1, <2>3, <2>4, ElementsAppend
  <2>6. ASSUME NEW e \in Missing' PROVE e \in Missing
    <3>1. e \in Calls /\ emit[e] = "accepted" /\ Away(e)' /\ e \notin Elements(batch')
      BY <2>1, <2>2, <2>6 DEF Missing
    <3>2. Away(e)
      BY <1>2, <2>1, <2>4, <2>5, <3>1 DEF Away, Safe
    <3>3. QED BY <2>5, <3>1, <3>2 DEF Missing
  <2>7. ASSUME NEW e \in Unproduced' PROVE e \in Unproduced
    BY <1>2, <2>1, <2>2, <2>7 DEF Unproduced, Dealt
  <2>8. QED BY <1>1, <1>3, <2>1, <2>6, <2>7, NothingLost
<1>5. ASSUME UNCHANGED <<batch, spool, sent, cfg>>, Elements(ch) \subseteq Elements(ch'),
             UNCHANGED <<count.flushErrors, count.flushRejected>>,
             \A e \in Calls : emit'[e] = "accepted" => emit[e] = "accepted" \/ e \in Elements(ch')
      PROVE  LossInv' /\ FlushInv'
  <2>1. ASSUME NEW e \in Missing' PROVE e \in Missing
    <3>1. e \in Calls /\ emit'[e] = "accepted" /\ Away(e)' /\ (e \in Elements(batch) => Taken)
      BY <1>3, <1>5, <2>1 DEF Missing
    <3>2. Away(e) /\ e \notin Elements(ch')
      BY <1>2, <1>5, <3>1 DEF Away, Safe
    <3>3. QED BY <1>5, <3>1, <3>2 DEF Missing
  <2>2. ASSUME NEW e \in Unproduced' PROVE e \in Unproduced
    BY <1>2, <1>3, <1>5, <2>2 DEF Unproduced, Dealt
  <2>3. QED BY <1>1, <1>3, <1>5, <2>1, <2>2, NothingLost
<1>6. CASE Sink!Close \/ Sink!RunTick \/ Sink!RunDrained \/ Sink!Post
  <2>1. UNCHANGED <<emit, ch, batch, spool, sent, cfg, count>>
    BY <1>6 DEF Sink!Close, Sink!RunTick, Sink!RunDrained, Sink!Post, Sink!queue, Sink!flusher
  <2>2. QED BY <1>5, <2>1
<1>7. ASSUME NEW e \in Calls, Sink!Handlers(e) PROVE LossInv' /\ FlushInv'
  <2>1. emit \in [Calls -> {"new", "blocked", "accepted", "dropped", "panicked"}] /\ ch \in Seq(Calls)
        /\ count \in [emitted : Nat, dropped : Nat, flushErrors : Nat, flushRejected : Nat]
    BY <1>1, ShapeFacts DEF SinkTyped
  <2>2. CASE Sink!EmitAccept(e)
    <3>1. /\ emit' = [emit EXCEPT ![e] = "accepted"] /\ ch' = Append(ch, e)
          /\ count' = [count EXCEPT !.emitted = @ + 1] /\ UNCHANGED <<cfg, batch, spool, sent>>
      BY <2>2 DEF Sink!EmitAccept, Sink!flusher
    <3>2. Elements(ch') = Elements(ch) \cup {e}
      BY <2>1, <3>1, ElementsAppend
    <3>3. UNCHANGED <<count.flushErrors, count.flushRejected>>
      BY <2>1, <3>1
    <3>4. \A d \in Calls : emit'[d] = "accepted" => emit[d] = "accepted" \/ d = e
      BY <2>1, <3>1
    <3>5. QED BY <1>5, <3>1, <3>2, <3>3, <3>4
  <2>3. CASE Sink!EmitDrop(e) \/ Sink!EmitTimeout(e)
    <3>1. /\ emit' = [emit EXCEPT ![e] = "dropped"] /\ count' = [count EXCEPT !.dropped = @ + 1]
          /\ UNCHANGED <<cfg, ch, batch, spool, sent>>
      BY <2>3 DEF Sink!EmitDrop, Sink!EmitTimeout, Sink!Drop, Sink!queue, Sink!flusher
    <3>2. UNCHANGED <<count.flushErrors, count.flushRejected>>
      BY <2>1, <3>1
    <3>3. \A d \in Calls : emit'[d] = "accepted" => emit[d] = "accepted"
      BY <2>1, <3>1
    <3>4. QED BY <1>5, <3>1, <3>2, <3>3
  <2>4. CASE Sink!EmitBlock(e) \/ Sink!EmitPanic(e)
    <3>1. /\ emit' = [emit EXCEPT ![e] = "blocked"] \/ emit' = [emit EXCEPT ![e] = "panicked"]
          /\ UNCHANGED <<cfg, ch, batch, spool, sent, count>>
      BY <2>4 DEF Sink!EmitBlock, Sink!EmitPanic, Sink!queue, Sink!flusher
    <3>2. \A d \in Calls : emit'[d] = "accepted" => emit[d] = "accepted"
      BY <2>1, <3>1
    <3>3. QED BY <1>5, <3>1, <3>2
  <2>5. QED BY <1>7, <2>2, <2>3, <2>4 DEF Sink!Handlers
<1>8. QED BY <1>4, <1>6, <1>7 DEF SinkQuiet

\* The collector takes the batch, or refuses all of it.
LEMMA PostArrivesLoses ==
  ASSUME Inv, Shape', NEW h \in Requests, Sink!Post, Coll!Accept(h, "events", batch), conn' = h, UNCHANGED exported
  PROVE  LossInv' /\ FlushInv'
<1>1. Shape /\ LossInv /\ FlushInv
  BY DEF Inv
<1>2. /\ conn = NoRequest /\ req[h].todo = <<>>
      /\ req'[h].todo = batch \/ (req'[h].at = "done" /\ req'[h].status \in {400, 413})
      /\ \A g \in Requests : g # h => req'[g] = req[g]
      /\ UNCHANGED <<inflight, pending, topic, met, emit, ch, batch, count, spool, sent, cfg>>
  BY <1>1, PostArrivesDoes
<1>3. Taken' => req'[h].todo = batch
  BY <1>2 DEF Taken
<1>4. ASSUME NEW e \in Missing' PROVE e \in Missing
  <2>1. e \in Calls /\ emit[e] = "accepted" /\ Away(e)' /\ (e \in Elements(batch) => Taken')
    BY <1>2, <1>4 DEF Missing
  <2>2. e \notin Elements(batch)
    BY <1>3, <2>1 DEF Away
  <2>3. Away(e)
    BY <1>2, <2>1, ElementsEmpty DEF Away, Safe
  <2>4. QED BY <2>1, <2>2, <2>3 DEF Missing
<1>5. ASSUME NEW e \in Unproduced' PROVE e \in Unproduced
  <2>1. e \in Calls /\ topic[e] = 0 /\ pending[e] = 0 /\ Dealt(e)'
    BY <1>2, <1>5 DEF Unproduced
  <2>2. e \in sent
    BY <1>2, <1>3, <2>1 DEF Dealt
  <2>3. QED BY <2>1, <2>2 DEF Unproduced, Dealt
<1>6. CollectorLosses' = CollectorLosses
  BY <1>2 DEF CollectorLosses
<1>7. QED BY <1>1, <1>2, <1>4, <1>5, <1>6, NothingLost

LEMMA InitInv == Init => Inv
<1> SUFFICES ASSUME Init PROVE Inv
  OBVIOUS
<1>1. Sink!Init /\ Coll!Init /\ conn = NoRequest /\ exported = {}
  BY DEF Init
<1>2. SinkTyped
  <2>1. /\ emit = [e \in Calls |-> "new"] /\ cfg \in [strict : BOOLEAN, spoolDir : BOOLEAN, http : BOOLEAN]
        /\ ch = <<>> /\ open = TRUE /\ batch = <<>> /\ loop = "select" /\ attempt = 0
        /\ count = [emitted |-> 0, dropped |-> 0, flushErrors |-> 0, flushRejected |-> 0]
        /\ spool = {} /\ sent = {}
    BY <1>1 DEF Sink!Init
  <2>2. ch \in Seq(Calls) /\ batch \in Seq(Calls) /\ Len(ch) = 0 /\ Len(batch) = 0
    BY <2>1
  <2>3. Len(ch) <= BufferSize /\ Len(batch) < BatchMax /\ Len(batch) <= BatchMax /\ attempt \in 0..Retries
    BY <2>1, <2>2, Sizes
  <2>4. count \in [emitted : Nat, dropped : Nat, flushErrors : Nat, flushRejected : Nat]
    BY <2>1
  <2>5. QED BY <2>1, <2>2, <2>3, <2>4 DEF SinkTyped
<1>3. /\ req = [h \in Requests |-> Coll!NoHandler] /\ inflight = 0
      /\ pending = [e \in Events |-> 0] /\ topic = [e \in Events |-> 0]
      /\ met = [accepted |-> 0, bad |-> 0, busy |-> 0, produced |-> 0, failed |-> 0]
  BY <1>1 DEF Coll!Init, Events
<1>4. Coll!NoHandler \in Handlers /\ Coll!NoHandler.at = "idle" /\ Coll!NoHandler.todo = <<>>
  <2>1. <<>> \in Seq(Events)
    OBVIOUS
  <2>2. QED BY <2>1 DEF Coll!NoHandler, Handlers
<1>5. CollTyped /\ \A h \in Requests : HandlerOk(h)
  BY <1>3, <1>4 DEF CollTyped, HandlerOk
<1>6. Shape
  BY <1>1, <1>2, <1>5 DEF Shape, PathTyped, ConnOk
<1>7. GateInv
  <2>1. IsFiniteSet(Coll!Records(pending)) /\ Cardinality(Coll!Records(pending)) = 0
    BY <1>3, RecordsNone
  <2>2. Undoing = {} /\ Cardinality(Undoing) = 0
    <3>1. Undoing = {}
      BY <1>3, <1>4 DEF Undoing
    <3>2. QED BY <3>1, FS_EmptySet
  <2>3. inflight = Cardinality(Coll!Records(pending)) + Cardinality(Undoing)
    BY <1>3, <2>1, <2>2
  <2>4. Cardinality(Coll!Records(pending)) <= MaxInflight
    BY <2>1, Sizes
  <2>5. QED BY <2>1, <2>3, <2>4 DEF GateInv, GateExact, Undoing
<1>8. Missing = {} /\ Unproduced = {}
  <2>1. sent = {} /\ emit = [e \in Calls |-> "new"]
    BY <1>1 DEF Sink!Init
  <2>2. ~ Taken
    BY <1>1 DEF Taken
  <2>3. QED BY <2>1, <2>2 DEF Missing, Unproduced, Dealt
<1>9. LossInv /\ FlushInv
  <2>1. Cardinality(Missing) = 0 /\ Cardinality(Unproduced) = 0
    BY <1>8, FS_EmptySet
  <2>2. CollectorLosses \in Nat /\ BatchMax * (count.flushErrors + count.flushRejected) \in Nat
    BY <1>6, ShapeFacts, MetTypes, FlushCounts
  <2>3. QED BY <2>1, <2>2 DEF LossInv, FlushInv
<1>10. QED BY <1>6, <1>7, <1>9 DEF Inv

\* Sink steps leave the collector's gate alone.
LEMMA SinkKeepsGate ==
  ASSUME GateInv, UNCHANGED collVars
  PROVE  GateInv'
<1>1. UNCHANGED <<pending, inflight>> /\ Undoing' = Undoing
  BY DEF collVars, Undoing
<1>2. QED BY <1>1, GateStays

LEMMA EndedKeeps ==
  ASSUME Inv, Shape', Ended, conn' = NoRequest, UNCHANGED collVars
  PROVE  Inv'
<1>1. UNCHANGED <<pending, topic, met>> /\ \A g \in Requests : req'[g].todo = req[g].todo
  BY DEF collVars
<1>2. QED BY <1>1, EndedLoses, SinkKeepsGate DEF Inv

LEMMA StepInv == Inv /\ [Next]_vars => Inv'
<1> SUFFICES ASSUME Inv, [Next]_vars PROVE Inv'
  OBVIOUS
<1>1. Shape /\ GateInv /\ LossInv /\ FlushInv
  BY DEF Inv
<1>2. ASSUME SinkQuiet, SinkOnly PROVE Inv'
  <2>1. Shape' /\ UNCHANGED collVars
    BY <1>1, <1>2, SinkQuietDoes
  <2>2. QED BY <1>1, <1>2, <2>1, SinkQuietLoses, SinkKeepsGate DEF Inv
<1>3. CASE (\E e \in Calls : EmitStep(e)) \/ CloseSink \/ PostLost
  BY <1>2, <1>3 DEF EmitStep, CloseSink, PostLost, SinkQuiet
<1>4. CASE RunStep
  <2>1. CASE Sink!RunReceive \/ Sink!RunTick \/ Sink!RunDrained
    BY <1>2, <1>4, <2>1 DEF RunStep, SinkQuiet
  <2>2. CASE Sink!FlushFile
    <3>1. Shape' /\ Ended /\ conn' = NoRequest /\ UNCHANGED collVars
      BY <1>1, <1>4, <2>2, FlushFileDoes DEF RunStep
    <3>2. QED BY <3>1, EndedKeeps
  <2>3. QED BY <1>4, <2>1, <2>2 DEF RunStep
<1>5. CASE PostArrives
  <2>1. PICK h \in Requests : Sink!Post /\ Coll!Accept(h, "events", batch) /\ conn' = h /\ UNCHANGED exported
    BY <1>5 DEF PostArrives
  <2>2. /\ Shape' /\ UNCHANGED <<pending, inflight>>
        /\ \A g \in Requests : g # h => req'[g] = req[g]
    BY <1>1, <2>1, PostArrivesDoes
  <2>3. req[h].at = "idle" /\ req'[h].at # "undo"
    <3>1. req[h].at = "idle" /\ (req'[h].at = "loop" \/ req'[h].at = "done")
      <4>1. batch \in Seq(Events)
        <5>1. batch \in Seq(Calls) /\ Calls \subseteq Events
          BY <1>1, ShapeFacts DEF SinkTyped, Events
        <5>2. QED BY <5>1
      <4>2. PICK api \in {"events", "otel"} : Coll!Accept(h, api, batch)
        BY <2>1
      <4>3. QED BY <1>1, <4>1, <4>2, ShapeFacts, AcceptDoes
    <3>2. QED BY <3>1
  <2>4. Undoing' = Undoing
    BY <2>2, <2>3, UndoingChanges
  <2>5. LossInv' /\ FlushInv'
    BY <2>1, <2>2, PostArrivesLoses
  <2>6. QED BY <1>1, <2>2, <2>4, <2>5, GateStays DEF Inv
<1>6. CASE ReplyArrives
  <2>1. /\ Shape' /\ Ended /\ conn' = NoRequest /\ UNCHANGED <<inflight, pending, topic, met>>
        /\ \A g \in Requests : req'[g].todo = req[g].todo
        /\ conn \in Requests /\ req[conn].at = "done" /\ req'[conn].at = "idle"
        /\ \A g \in Requests : g # conn => req'[g] = req[g]
    BY <1>1, <1>6, ReplyArrivesDoes
  <2>2. PICK h \in Requests : /\ req[h].at = "done" /\ req'[h].at = "idle"
                              /\ \A g \in Requests : g # h => req'[g] = req[g]
    BY <2>1
  <2>3. Undoing' = Undoing
    BY <2>2, UndoingChanges
  <2>4. QED BY <1>1, <2>1, <2>3, GateStays, EndedLoses DEF Inv
<1>7. CASE Unavailable \/ SinkGivesUp
  <2>1. Shape' /\ Ended /\ conn' = NoRequest /\ UNCHANGED collVars
    BY <1>1, <1>7, NoAnswerDoes
  <2>2. QED BY <2>1, EndedKeeps
<1>8. ASSUME NEW h \in Requests, CollectorStep(h) PROVE Inv'
  <2>1. Shape'
    BY <1>1, <1>8, HandlerDoes
  <2>2. QED BY <1>1, <1>8, <2>1, GateHandler, HandlerLoses DEF Inv
<1>9. ASSUME NEW h \in Requests, ReplyDiscarded(h) PROVE Inv'
  <2>1. /\ Shape' /\ h # conn /\ UNCHANGED <<sinkVars, conn, inflight, pending, topic, met>>
        /\ req[h].at = "done" /\ req'[h].at = "idle" /\ req[h].todo = <<>>
        /\ \A g \in Requests : g # h => req'[g] = req[g]
    BY <1>1, <1>9, DiscardDoes
  <2>2. Undoing' = Undoing
    BY <2>1, UndoingChanges
  <2>3. QED BY <1>1, <2>1, <2>2, GateStays, OthersLose DEF Inv
<1>10. ASSUME NEW e \in Events, Produced(e) PROVE Inv'
  <2>1. Shape'
    BY <1>1, <1>10, ProducedDoes
  <2>2. QED BY <1>1, <1>10, <2>1, GateProduced, ProducedLoses DEF Inv
<1>11. ASSUME NEW o \in Spans, Export(o) PROVE Inv'
  <2>1. Shape' /\ UNCHANGED <<sinkVars, conn, inflight, pending, topic, met>>
    BY <1>1, <1>11, ExportDoes
  <2>2. PICK h \in Requests : /\ req[h].at = "idle" /\ req[h].todo = <<>> /\ req'[h].at \in {"loop", "done"}
                              /\ \A g \in Requests : g # h => req'[g] = req[g]
    BY <1>1, <1>11, ExportDoes
  <2>3. Undoing' = Undoing
    BY <2>2, UndoingChanges
  <2>4. h # conn
    BY <1>1, <2>2, ShapeFacts, PathAssumption
  <2>5. QED BY <1>1, <2>1, <2>2, <2>3, <2>4, GateStays, OthersLose DEF Inv
<1>12. CASE UNCHANGED vars
  <2>1. UNCHANGED <<cfg, emit, ch, open, batch, loop, attempt, count, spool, sent,
                    req, inflight, pending, topic, met, conn, exported>>
    BY <1>12 DEF vars, sinkVars, collVars
  <2>2. Shape' /\ GateInv'
    BY <1>1, <2>1 DEF Shape, PathTyped, SinkTyped, CollTyped, HandlerOk, ConnOk, GateInv, GateExact
  <2>3. LossInv' /\ FlushInv'
    BY <1>1, <2>1 DEF LossInv, FlushInv, Missing, Unproduced, Away, Safe, Taken, Dealt, CollectorLosses
  <2>4. QED BY <2>2, <2>3 DEF Inv
<1>13. QED
  BY <1>3, <1>4, <1>5, <1>6, <1>7, <1>8, <1>9, <1>10, <1>11, <1>12 DEF Next, Events

LEMMA AlwaysInv == Spec => []Inv
BY InitInv, StepInv, PTL DEF Spec

-----------------------------------------------------------------------------
(***************************************************************************)
(* The theorems.                                                           *)
(***************************************************************************)
\* Sink and collector keep their types: the buffer holds no more than it has room for, run
\* never appends to a full batch (events.go: run flushes at 256), and the producer's
\* in-flight counter never goes below zero.
THEOREM PathTypeCorrect == Spec => []TypeOK
<1>1. Inv => TypeOK
  <2> SUFFICES ASSUME Inv PROVE TypeOK
    OBVIOUS
  <2>1. SinkTyped /\ CollTyped /\ PathTyped
    BY DEF Inv, Shape, PathTyped
  <2>2. Sink!TypeOK
    BY <2>1 DEF SinkTyped, Sink!TypeOK
  <2>3. inflight \in Nat
    BY GateFacts DEF Inv
  <2>4. Coll!TypeOK
    BY <2>1, <2>3, ReqTypes DEF CollTyped, Coll!TypeOK, Events
  <2>5. QED BY <2>1, <2>2, <2>4 DEF TypeOK, PathTyped
<1>2. QED BY <1>1, AlwaysInv, PTL

\* producer.go's gate counts exactly the records franz-go has not settled and the refused
\* ones not yet taken off, and never lets more than maxInflight records in, whatever
\* handlers come between the two additions of TryProduce.
THEOREM GateIsExact == Spec => []GateExact
<1>1. Inv => GateExact
  BY DEF Inv, GateInv
<1>2. QED BY <1>1, AlwaysInv, PTL

\* Events that Emit accepted and that are nowhere any more are covered by the flushes that
\* events.go counted as failed, a batch each, and the records that ingest.go and producer.go
\* counted as refused or failed, one each.
THEOREM AcceptedLossIsMeasured == Spec => []AcceptedLossMeasured
<1>1. Inv => AcceptedLossMeasured
  <2> SUFFICES ASSUME Inv PROVE AcceptedLossMeasured
    OBVIOUS
  <2>1. Shape /\ LossInv
    BY DEF Inv
  <2>2. \A e \in Calls : pending[e] \in Nat
    BY <2>1, ShapeFacts, MetTypes DEF Events
  <2>3. Lost \subseteq Missing
    BY <2>2 DEF Lost, Missing, InTransit, Away, Elements
  <2>4. IsFiniteSet(Missing)
    <3>1. Missing \subseteq Calls /\ IsFiniteSet(Calls)
      BY PathAssumption DEF Missing
    <3>2. QED BY <3>1, FS_Subset
  <2>5. /\ Cardinality(Lost) <= Cardinality(Missing)
        /\ Cardinality(Lost) \in Nat /\ Cardinality(Missing) \in Nat
    BY <2>3, <2>4, FS_Subset, FS_CardinalityType
  <2>6. Budget \in Nat /\ Cardinality(Missing) <= Budget
    BY <2>1, ShapeFacts, FlushCounts, MetTypes DEF LossInv, Budget
  <2>7. Cardinality(Lost) <= Budget
    BY <2>5, <2>6
  <2>8. QED BY <2>7 DEF AcceptedLossMeasured, Budget
<1>2. QED BY <1>1, AlwaysInv, PTL

\* A flush over HTTP that flushHTTP reported as done stands for events the collector took
\* over: those neither in the topic nor on their way are counted there, one by one.
THEOREM FlushedAccounted == Spec => []FlushedIsAccounted
<1>1. Inv => FlushedIsAccounted
  <2> SUFFICES ASSUME Inv, cfg.http
               PROVE  Cardinality({e \in sent : topic[e] = 0 /\ pending[e] = 0}) <= CollectorLosses
    BY DEF FlushedIsAccounted
  <2> DEFINE Gone == {e \in sent : topic[e] = 0 /\ pending[e] = 0}
  <2>1. Shape /\ FlushInv
    BY DEF Inv
  <2>2. sent \subseteq Calls
    BY <2>1, ShapeFacts DEF SinkTyped
  <2>3. Gone \subseteq Unproduced
    BY <2>2 DEF Unproduced, Dealt
  <2>4. IsFiniteSet(Unproduced)
    <3>1. Unproduced \subseteq Calls /\ IsFiniteSet(Calls)
      BY PathAssumption DEF Unproduced
    <3>2. QED BY <3>1, FS_Subset
  <2> HIDE DEF Gone
  <2>5. /\ Cardinality(Gone) <= Cardinality(Unproduced)
        /\ Cardinality(Gone) \in Nat /\ Cardinality(Unproduced) \in Nat
    BY <2>3, <2>4, FS_Subset, FS_CardinalityType
  <2>6. CollectorLosses \in Nat /\ Cardinality(Unproduced) <= CollectorLosses
    BY <2>1, ShapeFacts, MetTypes DEF FlushInv
  <2>7. Cardinality(Gone) <= CollectorLosses
    BY <2>5, <2>6
  <2>8. QED BY <2>7 DEF Gone
<1>2. QED BY <1>1, AlwaysInv, PTL
-----------------------------------------------------------------------------
(***************************************************************************)
(* The other client of the collector, the SDK (SdkPath).                   *)
(***************************************************************************)
Senders == App!Sends
Awaiters == {"timer", "flush", "shutdown"}
Sendings == [at : {"idle", "post", "wait", "delay"}, who : Awaiters, batch : Seq(Events), attempt : Nat]
Fates == {"new", "refused", "taken", "delivered", "dropped by timer", "dropped by flush", "dropped by shutdown"}

AppTyped ==
  /\ opts \in [failOpen : BOOLEAN, script : BOOLEAN]
  /\ fate \in [Events -> Fates]
  /\ buffer \in Seq(Events)
  /\ send \in [Senders -> Sendings]
  /\ closed \in BOOLEAN
  /\ promise \in [{"flush", "shutdown"} -> {"none", "pending", "resolved", "rejected"}]

Distinct(q) == \A i, j \in DOMAIN q : q[i] = q[j] => i = j

\* An attempt in progress is carried by a request of its own.
LinkOk ==
  /\ link \in [Senders -> Requests \cup {NoRequest}]
  /\ \A s \in Senders : link[s] # NoRequest => send[s].at = "wait" /\ req[link[s]].at # "idle"
  /\ \A s, t \in Senders : link[s] = link[t] /\ link[s] # NoRequest => s = t

ClientShape ==
  /\ AppTyped /\ CollTyped /\ (\A h \in Requests : HandlerOk(h)) /\ LinkOk

\* The events the SDK holds are in one place each, and once there.
PlaceInv ==
  /\ Distinct(buffer)
  /\ \A s \in Senders : Distinct(send[s].batch) /\ (send[s].at = "idle" => send[s] = App!Idle)
  /\ \A e \in Events :
       /\ fate[e] = "taken" <=> e \in Elements(buffer) \/ \E s \in Senders : e \in Elements(send[s].batch)
       /\ \A s \in Senders : e \in Elements(send[s].batch) =>
            e \notin Elements(buffer) /\ \A t \in Senders : e \in Elements(send[t].batch) => t = s

\* As for the gateway, what a request has dealt with already is counted before its answer arrives.
TakenOver(s) == link[s] # NoRequest /\ ~ (req[link[s]].at = "done" /\ req[link[s]].status \in {400, 413})
DealtWith(e) ==
  \/ fate[e] = "delivered"
  \/ \E s \in Senders : TakenOver(s) /\ e \in Elements(send[s].batch) /\ e \notin Elements(req[link[s]].todo)
Unwritten == {e \in Events : topic[e] = 0 /\ pending[e] = 0 /\ DealtWith(e)}
DeliveryInv == Cardinality(Unwritten) <= CollectorLosses

\* The copies of an event that are written, or may be, are no more than it was posted.
Holders(e) == {h \in Requests : e \in Elements(req[h].todo)}
Copies(e) == topic[e] + pending[e] + Cardinality(Holders(e))
Posts(s) == send[s].attempt + (IF send[s].at = "wait" THEN 1 ELSE 0)
CopyInv ==
  /\ \A h \in Requests : Distinct(req[h].todo)
  /\ \A s \in Senders : send[s].attempt <= Retries
  /\ \A e \in Events :
       /\ Copies(e) <= Retries + 1
       /\ fate[e] = "new" \/ e \in Elements(buffer) => Copies(e) = 0
       /\ \A s \in Senders : e \in Elements(send[s].batch) => Copies(e) <= Posts(s)

\* Until the one send that shutdown awaits is settled, its promise is pending.
PromiseInv ==
  /\ closed => buffer = <<>>
  /\ promise["shutdown"] # "none" => closed
  /\ \A s \in Senders : send[s].who = "shutdown" =>
       /\ closed /\ promise["shutdown"] = "pending"
       /\ \A t \in Senders : send[t].who = "shutdown" => t = s
       /\ \A e \in Events : fate[e] # "dropped by shutdown"
  /\ \A e \in Events : fate[e] = "dropped by shutdown" => closed /\ (opts.failOpen \/ promise["shutdown"] = "rejected")

ClientInv == ClientShape /\ PlaceInv /\ DeliveryInv /\ CopyInv /\ PromiseInv
-----------------------------------------------------------------------------
(***************************************************************************)
(* The steps of the SDK.                                                   *)
(***************************************************************************)
New(q, who) == [at |-> "post", who |-> who, batch |-> q, attempt |-> 0]

\* A batch is sent, an attempt goes from one stage to the next, a send is over.
Begins(s, q, who) ==
  /\ send[s].at = "idle"
  /\ send' = [send EXCEPT ![s] = New(q, who)]
  /\ buffer' = <<>>

GoesOn(s) ==
  /\ send[s].at # "idle"
  /\ \E r \in Sendings :
       /\ send' = [send EXCEPT ![s] = r]
       /\ r.at # "idle" /\ r.who = send[s].who /\ r.batch = send[s].batch
       /\ r.attempt + (IF r.at = "wait" THEN 1 ELSE 0) >= Posts(s) /\ r.attempt <= Retries
  /\ UNCHANGED <<opts, fate, buffer, closed, promise>>

SendOver(s, outcome) == send[s].at = "wait" /\ App!Settle(s, outcome) /\ UNCHANGED <<opts, buffer, closed>>

LEMMA SendTypes ==
  ASSUME AppTyped, NEW s \in Senders
  PROVE  /\ send[s] \in Sendings /\ send[s].at \in {"idle", "post", "wait", "delay"} /\ send[s].who \in Awaiters
         /\ send[s].batch \in Seq(Events) /\ send[s].attempt \in Nat
BY DEF AppTyped, Sendings

LEMMA OneSend ==
  ASSUME AppTyped, NEW s \in Senders, NEW r \in Sendings, send' = [send EXCEPT ![s] = r]
  PROVE  /\ send' \in [Senders -> Sendings] /\ send'[s] = r
         /\ \A t \in Senders : t # s => send'[t] = send[t]
BY DEF AppTyped

LEMMA NewTyped ==
  ASSUME NEW q \in Seq(Events), NEW who \in Awaiters
  PROVE  New(q, who) \in Sendings /\ New(q, who).at = "post" /\ New(q, who).who = who
         /\ New(q, who).batch = q /\ New(q, who).attempt = 0
BY DEF New, Sendings

LEMMA IdleTyped ==
  /\ App!Idle \in Sendings /\ App!Idle.at = "idle" /\ App!Idle.who = "timer"
  /\ App!Idle.batch = <<>> /\ App!Idle.attempt = 0
<1>1. <<>> \in Seq(Events)
  OBVIOUS
<1>2. QED BY <1>1 DEF App!Idle, Sendings, Awaiters

\* A send that starts takes a free slot.
LEMMA StartDoes ==
  ASSUME NEW q, NEW who, App!Start(q, who)
  PROVE  \E s \in Senders : Begins(s, q, who)
<1> DEFINE F == {s \in Senders : send[s].at = "idle"}
<1>1. App!Free = F
  BY DEF App!Free, Senders
<1>2. F # {} /\ F \in SUBSET Nat /\ F \subseteq Senders
  BY <1>1, SdkAssumption DEF App!Start, Senders, App!Sends
<1>3. PICK s : s = CHOOSE f \in F : \A g \in F : f <= g
  OBVIOUS
<1>4. s \in F
  <2> HIDE DEF F
  <2>1. \E f \in F : \A g \in F : f <= g
    BY <1>2, LeastElement
  <2>2. QED BY <1>3, <2>1
<1>5. send' = [send EXCEPT ![s] = New(q, who)] /\ buffer' = <<>>
  BY <1>1, <1>3 DEF App!Start, New
<1>6. s \in Senders /\ send[s].at = "idle"
  BY <1>4
<1>7. QED BY <1>5, <1>6 DEF Begins

LEMMA RetryDoes ==
  ASSUME AppTyped, NEW s \in Senders, send[s].attempt <= Retries, App!Retry(s)
  PROVE  GoesOn(s)
<1>1. /\ send[s].at = "delay" /\ send' = [send EXCEPT ![s].at = "post"]
      /\ UNCHANGED <<opts, fate, buffer, closed, promise>>
  BY DEF App!Retry
<1>2. PICK r : r = [send[s] EXCEPT !.at = "post"]
  OBVIOUS
<1>3. r \in Sendings /\ r.at = "post" /\ r.who = send[s].who /\ r.batch = send[s].batch /\ r.attempt = send[s].attempt
  BY <1>2, SendTypes DEF Sendings
<1>4. send' = [send EXCEPT ![s] = r]
  BY <1>1, <1>2
<1>5. r.attempt + (IF r.at = "wait" THEN 1 ELSE 0) >= Posts(s)
  BY <1>1, <1>3, SendTypes DEF Posts
<1>6. QED BY <1>1, <1>3, <1>4, <1>5 DEF GoesOn

LEMMA PostDoes ==
  ASSUME AppTyped, NEW s \in Senders, send[s].attempt <= Retries, App!Post(s)
  PROVE  /\ GoesOn(s) /\ send[s].at = "post" /\ send'[s].at = "wait"
         /\ send'[s].attempt = send[s].attempt
<1>1. /\ send[s].at = "post" /\ send' = [send EXCEPT ![s].at = "wait"]
      /\ UNCHANGED <<opts, fate, buffer, closed, promise>>
  BY DEF App!Post
<1>2. PICK r : r = [send[s] EXCEPT !.at = "wait"]
  OBVIOUS
<1>3. r \in Sendings /\ r.at = "wait" /\ r.who = send[s].who /\ r.batch = send[s].batch /\ r.attempt = send[s].attempt
  BY <1>2, SendTypes DEF Sendings
<1>4. send' = [send EXCEPT ![s] = r]
  BY <1>1, <1>2
<1>5. r.attempt + (IF r.at = "wait" THEN 1 ELSE 0) >= Posts(s)
  BY <1>1, <1>3, SendTypes DEF Posts
<1>6. GoesOn(s)
  BY <1>1, <1>3, <1>4, <1>5 DEF GoesOn
<1>7. QED BY <1>1, <1>3, <1>4, <1>6, OneSend

LEMMA FailsDoes ==
  ASSUME AppTyped, NEW s \in Senders, send[s].at = "wait", App!Fails(s), UNCHANGED <<opts, buffer, closed>>
  PROVE  GoesOn(s) \/ SendOver(s, "failed")
<1>1. CASE send[s].attempt < Retries
  <2>1. send' = [send EXCEPT ![s].at = "delay", ![s].attempt = @ + 1] /\ UNCHANGED <<fate, promise>>
    BY <1>1 DEF App!Fails
  <2>0. PICK m : m = [send[s] EXCEPT !.at = "delay"]
    OBVIOUS
  <2>2. PICK r : r = [m EXCEPT !.attempt = @ + 1]
    OBVIOUS
  <2>3. /\ m \in Sendings /\ m.at = "delay" /\ m.who = send[s].who /\ m.batch = send[s].batch
        /\ m.attempt = send[s].attempt
    BY <2>0, SendTypes DEF Sendings
  <2>4. r \in Sendings /\ r.at = "delay" /\ r.who = send[s].who /\ r.batch = send[s].batch /\ r.attempt = send[s].attempt + 1
    BY <2>2, <2>3 DEF Sendings
  <2>5. send' = [send EXCEPT ![s] = r]
    BY <2>0, <2>1, <2>2
  <2>6. r.attempt + (IF r.at = "wait" THEN 1 ELSE 0) >= Posts(s) /\ r.attempt <= Retries
    BY <1>1, <2>4, SendTypes, Sizes DEF Posts
  <2>7. QED BY <2>1, <2>4, <2>5, <2>6 DEF GoesOn
<1>2. CASE ~ (send[s].attempt < Retries)
  BY <1>2 DEF App!Fails, SendOver
<1>3. QED BY <1>1, <1>2

\* What GoesOn leaves as it is, of every send.
LEMMA GoesOnFacts ==
  ASSUME AppTyped, NEW s \in Senders, GoesOn(s)
  PROVE  /\ AppTyped' /\ send[s].at # "idle" /\ send'[s].at # "idle"
         /\ \A t \in Senders : t # s => send'[t] = send[t]
         /\ \A t \in Senders : /\ send'[t].who = send[t].who /\ send'[t].batch = send[t].batch
                               /\ (send[t].attempt <= Retries => send'[t].attempt <= Retries) /\ Posts(t)' >= Posts(t)
         /\ UNCHANGED <<opts, fate, buffer, closed, promise>>
<1>1. PICK r \in Sendings :
        /\ send' = [send EXCEPT ![s] = r]
        /\ r.at # "idle" /\ r.who = send[s].who /\ r.batch = send[s].batch
        /\ r.attempt + (IF r.at = "wait" THEN 1 ELSE 0) >= Posts(s) /\ r.attempt <= Retries
  BY DEF GoesOn
<1>2. send[s].at # "idle" /\ UNCHANGED <<opts, fate, buffer, closed, promise>>
  BY DEF GoesOn
<1>3. /\ send' \in [Senders -> Sendings] /\ send'[s] = r
      /\ \A t \in Senders : t # s => send'[t] = send[t]
  BY <1>1, OneSend
<1>4. AppTyped'
  BY <1>2, <1>3 DEF AppTyped
<1>5. \A t \in Senders : /\ send'[t].who = send[t].who /\ send'[t].batch = send[t].batch
                         /\ (send[t].attempt <= Retries => send'[t].attempt <= Retries)
  BY <1>1, <1>3
<1>6. ASSUME NEW t \in Senders PROVE Posts(t)' >= Posts(t)
  <2>1. CASE t = s
    BY <1>1, <1>3, <2>1 DEF Posts
  <2>2. CASE t # s
    <3>1. send'[t] = send[t] /\ send[t].attempt \in Nat
      BY <1>3, <2>2, SendTypes
    <3>2. QED BY <3>1 DEF Posts
  <2>3. QED BY <2>1, <2>2
<1>7. QED BY <1>1, <1>2, <1>3, <1>4, <1>5, <1>6
-----------------------------------------------------------------------------
(***************************************************************************)
(* One place for each event.                                               *)
(***************************************************************************)
LEMMA DistinctEmpty == Distinct(<<>>)
BY DEF Distinct

LEMMA DistinctAppend ==
  ASSUME NEW q \in Seq(Events), Distinct(q), NEW x \in Events, x \notin Elements(q)
  PROVE  Distinct(Append(q, x))
<1>1. /\ Len(q) \in Nat /\ DOMAIN q = 1..Len(q) /\ DOMAIN Append(q, x) = 1..(Len(q) + 1)
      /\ Append(q, x)[Len(q) + 1] = x /\ \A i \in 1..Len(q) : Append(q, x)[i] = q[i]
  OBVIOUS
<1>2. \A i \in 1..Len(q) : q[i] # x
  BY <1>1 DEF Elements, Sink!Range
<1>3. ASSUME NEW i \in 1..(Len(q) + 1), NEW j \in 1..(Len(q) + 1), Append(q, x)[i] = Append(q, x)[j] PROVE i = j
  <2>1. (i = Len(q) + 1 \/ i \in 1..Len(q)) /\ (j = Len(q) + 1 \/ j \in 1..Len(q))
    BY <1>1
  <2>2. CASE i \in 1..Len(q) /\ j \in 1..Len(q)
    <3>1. q[i] = q[j]
      BY <1>1, <1>3, <2>2
    <3>2. QED BY <1>1, <2>2, <3>1 DEF Distinct
  <2>3. CASE i \in 1..Len(q) /\ j = Len(q) + 1
    BY <1>1, <1>2, <1>3, <2>3
  <2>4. CASE i = Len(q) + 1 /\ j \in 1..Len(q)
    BY <1>1, <1>2, <1>3, <2>4
  <2>5. QED BY <2>1, <2>2, <2>3, <2>4
<1>4. QED BY <1>1, <1>3 DEF Distinct

LEMMA DistinctTail ==
  ASSUME NEW q \in Seq(Events), Distinct(q), q # <<>>
  PROVE  Distinct(Tail(q)) /\ Head(q) \notin Elements(Tail(q))
<1>1. /\ Len(q) \in Nat \ {0} /\ DOMAIN q = 1..Len(q) /\ DOMAIN Tail(q) = 1..(Len(q) - 1) /\ Head(q) = q[1]
      /\ \A i \in 1..(Len(q) - 1) : Tail(q)[i] = q[i + 1]
  OBVIOUS
<1>2. ASSUME NEW i \in 1..(Len(q) - 1), NEW j \in 1..(Len(q) - 1), Tail(q)[i] = Tail(q)[j] PROVE i = j
  <2>1. i + 1 \in 1..Len(q) /\ j + 1 \in 1..Len(q) /\ q[i + 1] = q[j + 1]
    BY <1>1, <1>2
  <2>2. i + 1 = j + 1
    BY <1>1, <2>1 DEF Distinct
  <2>3. QED BY <2>2
<1>3. ASSUME Head(q) \in Elements(Tail(q)) PROVE FALSE
  <2>1. PICK i \in 1..(Len(q) - 1) : Tail(q)[i] = Head(q)
    BY <1>1, <1>3 DEF Elements, Sink!Range
  <2>2. i + 1 \in 1..Len(q) /\ 1 \in 1..Len(q) /\ q[i + 1] = q[1]
    BY <1>1, <2>1
  <2>3. i + 1 = 1
    BY <1>1, <2>2 DEF Distinct
  <2>4. QED BY <2>3
<1>4. QED BY <1>1, <1>2, <1>3 DEF Distinct

LEMMA IdleIsEmpty ==
  ASSUME PlaceInv, NEW s \in Senders, send[s].at = "idle"
  PROVE  send[s] = App!Idle /\ Elements(send[s].batch) = {} /\ send[s].who = "timer"
BY IdleTyped, ElementsEmpty DEF PlaceInv

\* Nothing moves.
LEMMA PlacesStay ==
  ASSUME PlaceInv, UNCHANGED <<buffer, send>>, \A e \in Events : fate'[e] = "taken" <=> fate[e] = "taken"
  PROVE  PlaceInv'
BY DEF PlaceInv

\* A batch is taken out of the buffer; q is the buffer, or the buffer and a new event.
LEMMA BeginsPlaces ==
  ASSUME AppTyped, PlaceInv, NEW s \in Senders, NEW q \in Seq(Events), NEW who \in Awaiters, Begins(s, q, who),
         Distinct(q), Elements(buffer) \subseteq Elements(q),
         \A e \in Elements(q) : e \in Elements(buffer) \/ fate[e] # "taken",
         \A e \in Events : fate'[e] = "taken" <=> fate[e] = "taken" \/ e \in Elements(q)
  PROVE  PlaceInv'
<1>1. /\ send' \in [Senders -> Sendings] /\ send'[s] = New(q, who)
      /\ \A t \in Senders : t # s => send'[t] = send[t]
  BY NewTyped, OneSend DEF Begins
<1>2. send[s].at = "idle" /\ Elements(send[s].batch) = {} /\ buffer' = <<>> /\ Elements(buffer') = {}
  BY IdleIsEmpty, ElementsEmpty DEF Begins
<1>3. send'[s].batch = q /\ send'[s].at # "idle"
  BY <1>1, NewTyped
<1>4. ASSUME NEW e \in Events, NEW t \in Senders
      PROVE  e \in Elements(send'[t].batch) <=> (t = s /\ e \in Elements(q)) \/ e \in Elements(send[t].batch)
  BY <1>1, <1>2, <1>3
<1>5. ASSUME NEW e \in Events, e \in Elements(q), NEW t \in Senders PROVE e \notin Elements(send[t].batch)
  BY <1>5 DEF PlaceInv
<1>6. Distinct(buffer')
  BY <1>2, DistinctEmpty
<1>7. ASSUME NEW t \in Senders PROVE Distinct(send'[t].batch) /\ (send'[t].at = "idle" => send'[t] = App!Idle)
  BY <1>1, <1>3 DEF PlaceInv
<1>8. ASSUME NEW e \in Events
      PROVE  fate'[e] = "taken" <=> e \in Elements(buffer') \/ \E t \in Senders : e \in Elements(send'[t].batch)
  BY <1>2, <1>4 DEF PlaceInv
<1>9. ASSUME NEW e \in Events, NEW t \in Senders, e \in Elements(send'[t].batch), NEW u \in Senders, e \in Elements(send'[u].batch)
      PROVE  u = t
  <2>1. CASE e \in Elements(q)
    BY <1>4, <1>5, <1>9, <2>1
  <2>2. CASE e \notin Elements(q)
    BY <1>4, <1>9, <2>2 DEF PlaceInv
  <2>3. QED BY <2>1, <2>2
<1>10. QED BY <1>2, <1>6, <1>7, <1>8, <1>9 DEF PlaceInv

\* An event joins the buffer.
LEMMA BufferedPlaces ==
  ASSUME AppTyped, PlaceInv, NEW x \in Events, fate[x] = "new", fate' = [fate EXCEPT ![x] = "taken"],
         buffer' = Append(buffer, x), UNCHANGED send
  PROVE  PlaceInv'
<1>1. buffer \in Seq(Events) /\ fate \in [Events -> Fates]
  BY DEF AppTyped
<1>2. Elements(buffer') = Elements(buffer) \cup {x}
  BY <1>1, ElementsAppend
<1>3. x \notin Elements(buffer) /\ \A s \in Senders : x \notin Elements(send[s].batch)
  BY DEF PlaceInv
<1>4. Distinct(buffer')
  BY <1>1, <1>3, DistinctAppend DEF PlaceInv
<1>5. \A e \in Events : fate'[e] = "taken" <=> fate[e] = "taken" \/ e = x
  BY <1>1
<1>6. ASSUME NEW e \in Events
      PROVE  /\ fate'[e] = "taken" <=> e \in Elements(buffer') \/ \E s \in Senders : e \in Elements(send'[s].batch)
             /\ \A s \in Senders : e \in Elements(send'[s].batch) =>
                  e \notin Elements(buffer') /\ \A t \in Senders : e \in Elements(send'[t].batch) => t = s
  BY <1>2, <1>3, <1>5 DEF PlaceInv
<1>7. QED BY <1>4, <1>6 DEF PlaceInv

LEMMA GoesOnPlaces ==
  ASSUME AppTyped, PlaceInv, NEW s \in Senders, GoesOn(s)
  PROVE  PlaceInv'
<1>1. /\ send'[s].at # "idle" /\ \A t \in Senders : t # s => send'[t] = send[t]
      /\ \A t \in Senders : send'[t].batch = send[t].batch
      /\ UNCHANGED <<fate, buffer>>
  BY GoesOnFacts
<1>2. \A t \in Senders : Distinct(send'[t].batch) /\ (send'[t].at = "idle" => send'[t] = App!Idle)
  BY <1>1 DEF PlaceInv
<1>3. QED BY <1>1, <1>2 DEF PlaceInv

\* What the end of a send does to its events, and to the promises.
LEMMA SendOverDoes ==
  ASSUME AppTyped, NEW s \in Senders, NEW outcome, SendOver(s, outcome)
  PROVE  /\ AppTyped' /\ send[s].at = "wait" /\ send'[s] = App!Idle
         /\ \A t \in Senders : t # s => send'[t] = send[t]
         /\ UNCHANGED <<opts, buffer, closed>>
         /\ \A e \in Events : e \notin Elements(send[s].batch) => fate'[e] = fate[e]
         /\ outcome = "sent" => \A e \in Events : e \in Elements(send[s].batch) => fate'[e] = "delivered"
         /\ outcome # "sent" => \A e \in Events : e \in Elements(send[s].batch) =>
              /\ fate'[e] \in {"dropped by timer", "dropped by flush", "dropped by shutdown"}
              /\ (fate'[e] = "dropped by shutdown" => send[s].who = "shutdown")
         /\ \A w \in {"flush", "shutdown"} : w # send[s].who => promise'[w] = promise[w]
         /\ send[s].who = "shutdown" /\ outcome # "sent" => opts.failOpen \/ promise'["shutdown"] = "rejected"
<1>1. /\ send[s].at = "wait" /\ send' = [send EXCEPT ![s] = App!Idle] /\ UNCHANGED <<opts, buffer, closed>>
      /\ fate' = [e \in Events |-> IF \E i \in DOMAIN send[s].batch : send[s].batch[i] = e
                                   THEN (IF outcome = "sent" THEN "delivered" ELSE App!DroppedBy[send[s].who])
                                   ELSE fate[e]]
      /\ promise' = [w \in {"flush", "shutdown"} |-> IF w # send[s].who THEN promise[w]
                       ELSE IF outcome = "sent" \/ opts.failOpen THEN "resolved" ELSE "rejected"]
  BY DEF SendOver, App!Settle, App!Callers
<1>2. \A e : e \in Elements(send[s].batch) <=> \E i \in DOMAIN send[s].batch : send[s].batch[i] = e
  BY DEF Elements, Sink!Range
<1>3. send[s].who \in Awaiters
  BY SendTypes
<1>4. /\ App!DroppedBy[send[s].who] \in {"dropped by timer", "dropped by flush", "dropped by shutdown"}
      /\ App!DroppedBy[send[s].who] = "dropped by shutdown" => send[s].who = "shutdown"
  <2>1. /\ App!DroppedBy["timer"] = "dropped by timer" /\ App!DroppedBy["flush"] = "dropped by flush"
        /\ App!DroppedBy["shutdown"] = "dropped by shutdown"
    BY DEF App!DroppedBy
  <2>2. CASE send[s].who = "timer"
    BY <2>1, <2>2
  <2>3. CASE send[s].who = "flush"
    BY <2>1, <2>3
  <2>4. CASE send[s].who = "shutdown"
    BY <2>1, <2>4
  <2>5. QED BY <1>3, <2>2, <2>3, <2>4 DEF Awaiters
<1>5. \A e \in Events : fate'[e] = IF e \in Elements(send[s].batch)
                                   THEN (IF outcome = "sent" THEN "delivered" ELSE App!DroppedBy[send[s].who])
                                   ELSE fate[e]
  BY <1>1, <1>2
<1>6. fate' \in [Events -> Fates]
  BY <1>1, <1>4 DEF AppTyped, Fates
<1>7. promise' \in [{"flush", "shutdown"} -> {"none", "pending", "resolved", "rejected"}]
  BY <1>1 DEF AppTyped
<1>8. send' \in [Senders -> Sendings] /\ send'[s] = App!Idle /\ \A t \in Senders : t # s => send'[t] = send[t]
  BY <1>1, IdleTyped, OneSend
<1>9. AppTyped'
  BY <1>1, <1>6, <1>7, <1>8 DEF AppTyped
<1>10. ASSUME send[s].who = "shutdown", outcome # "sent", ~ opts.failOpen PROVE promise'["shutdown"] = "rejected"
  BY <1>1, <1>10
<1>11. QED BY <1>1, <1>4, <1>5, <1>8, <1>9, <1>10

LEMMA SendOverPlaces ==
  ASSUME AppTyped, PlaceInv, NEW s \in Senders, NEW outcome, SendOver(s, outcome)
  PROVE  PlaceInv'
<1>1. /\ send[s].at = "wait" /\ send'[s] = App!Idle /\ buffer' = buffer
      /\ \A t \in Senders : t # s => send'[t] = send[t]
      /\ \A e \in Events : fate'[e] = "taken" <=> fate[e] = "taken" /\ e \notin Elements(send[s].batch)
  <2>1. /\ \A e \in Events : e \notin Elements(send[s].batch) => fate'[e] = fate[e]
        /\ \A e \in Events : e \in Elements(send[s].batch) => fate'[e] # "taken"
    BY SendOverDoes
  <2>2. QED BY <2>1, SendOverDoes
<1>2. send'[s].batch = <<>> /\ Elements(send'[s].batch) = {} /\ Distinct(send'[s].batch)
  BY <1>1, IdleTyped, ElementsEmpty, DistinctEmpty
<1>3. \A t \in Senders : Distinct(send'[t].batch) /\ (send'[t].at = "idle" => send'[t] = App!Idle)
  BY <1>1, <1>2 DEF PlaceInv
<1>4. \A e \in Events, t \in Senders : e \in Elements(send'[t].batch) <=> t # s /\ e \in Elements(send[t].batch)
  BY <1>1, <1>2
<1>5. ASSUME NEW e \in Events
      PROVE  /\ fate'[e] = "taken" <=> e \in Elements(buffer') \/ \E t \in Senders : e \in Elements(send'[t].batch)
             /\ \A t \in Senders : e \in Elements(send'[t].batch) =>
                  e \notin Elements(buffer') /\ \A u \in Senders : e \in Elements(send'[u].batch) => u = t
  BY <1>1, <1>4 DEF PlaceInv
<1>6. QED BY <1>1, <1>3, <1>5 DEF PlaceInv
-----------------------------------------------------------------------------
(***************************************************************************)
(* Shape, deliveries, copies and promises: what keeps them.                *)
(***************************************************************************)
LEMMA ClientFacts ==
  ASSUME ClientShape
  PROVE  /\ AppTyped /\ CollTyped /\ (\A h \in Requests : HandlerOk(h))
         /\ link \in [Senders -> Requests \cup {NoRequest}]
         /\ \A s \in Senders : link[s] # NoRequest =>
              link[s] \in Requests /\ send[s].at = "wait" /\ req[link[s]].at # "idle"
         /\ \A s, t \in Senders : link[s] = link[t] /\ link[s] # NoRequest => s = t
BY DEF ClientShape, LinkOk

\* A step of the SDK's own, on a send that no request carries.
LEMMA AppSide ==
  ASSUME ClientShape, AppTyped', UNCHANGED <<req, inflight, pending, topic, met, link>>,
         \A s \in Senders : link[s] # NoRequest => send'[s].at = send[s].at
  PROVE  ClientShape'
<1>1. CollTyped' /\ \A h \in Requests : HandlerOk(h)'
  BY ClientFacts DEF CollTyped, HandlerOk
<1>2. LinkOk'
  BY ClientFacts DEF LinkOk
<1>3. QED BY <1>1, <1>2 DEF ClientShape

\* A step of the collector's own: requests that carry an attempt stay in progress.
LEMMA CollSide ==
  ASSUME ClientShape, UNCHANGED <<opts, fate, buffer, send, closed, promise, link>>,
         CollTyped', \A h \in Requests : HandlerOk(h)',
         \A s \in Senders : link[s] # NoRequest => req'[link[s]].at # "idle"
  PROVE  ClientShape'
<1>1. AppTyped'
  BY ClientFacts DEF AppTyped
<1>2. LinkOk'
  BY ClientFacts DEF LinkOk
<1>3. QED BY <1>1, <1>2 DEF ClientShape

LEMMA EventsFinite == IsFiniteSet(Events)
BY PathAssumption, FS_Union DEF Events

LEMMA LossesNat ==
  ASSUME CollTyped'
  PROVE  CollectorLosses' \in Nat /\ topic' \in [Events -> Nat] /\ pending' \in [Events -> Nat]
<1>1. met' \in [accepted : Nat, bad : Nat, busy : Nat, produced : Nat, failed : Nat]
  BY DEF CollTyped
<1>2. met'.bad \in Nat /\ met'.busy \in Nat /\ met'.failed \in Nat
  BY <1>1
<1>3. QED BY <1>2 DEF CollTyped, CollectorLosses

LEMMA DeliveryKept ==
  ASSUME CollTyped, CollTyped', DeliveryInv, NEW C, IsFiniteSet(C), Unwritten' \subseteq Unwritten \cup C,
         NEW k \in Nat, Cardinality(C) <= k, CollectorLosses' >= CollectorLosses + k
  PROVE  DeliveryInv'
<1>1. CollectorLosses \in Nat /\ CollectorLosses' \in Nat
  BY LossesNat, MetTypes
<1>2. Unwritten \in SUBSET Events /\ Unwritten' \in SUBSET Events
  BY DEF Unwritten
<1>3. QED BY <1>1, <1>2, EventsFinite, CountKeepsUp DEF DeliveryInv

\* Nothing more is dealt with.
LEMMA DeliveryStays ==
  ASSUME CollTyped, CollTyped', DeliveryInv, UNCHANGED <<topic, pending, met>>,
         \A e \in Events : DealtWith(e)' => DealtWith(e)
  PROVE  DeliveryInv'
<1>1. PICK C : C = {}
  OBVIOUS
<1>2. IsFiniteSet(C) /\ Cardinality(C) <= 0
  BY <1>1, FS_EmptySet
<1>3. CollectorLosses' >= CollectorLosses + 0
  BY MetTypes DEF CollectorLosses
<1>4. Unwritten' \subseteq Unwritten \cup C
  BY DEF Unwritten
<1>5. QED BY <1>2, <1>3, <1>4, DeliveryKept

LEMMA HoldersFinite ==
  ASSUME NEW e
  PROVE  /\ Holders(e) \subseteq Requests /\ IsFiniteSet(Holders(e)) /\ Cardinality(Holders(e)) \in Nat
         /\ Holders(e)' \subseteq Requests /\ IsFiniteSet(Holders(e)') /\ Cardinality(Holders(e)') \in Nat
<1>1. Holders(e) \subseteq Requests /\ Holders(e)' \subseteq Requests /\ IsFiniteSet(Requests)
  BY PathAssumption DEF Holders
<1>2. IsFiniteSet(Holders(e)) /\ IsFiniteSet(Holders(e)')
  BY <1>1, FS_Subset
<1>3. QED BY <1>1, <1>2, FS_CardinalityType

LEMMA CopiesNat ==
  ASSUME CollTyped, NEW e \in Events
  PROVE  Copies(e) \in Nat /\ topic[e] \in Nat /\ pending[e] \in Nat
BY HoldersFinite, MetTypes DEF Copies

LEMMA CopiesNatNext ==
  ASSUME CollTyped', NEW e \in Events
  PROVE  Copies(e)' \in Nat /\ topic'[e] \in Nat /\ pending'[e] \in Nat
BY HoldersFinite, LossesNat DEF Copies

\* How the requests that hold an event change with one request.
LEMMA HoldersChange ==
  ASSUME NEW h \in Requests, \A g \in Requests : g # h => req'[g] = req[g], NEW e
  PROVE  /\ (e \in Elements(req'[h].todo) <=> e \in Elements(req[h].todo)) => Holders(e)' = Holders(e)
         /\ e \notin Elements(req'[h].todo) /\ e \in Elements(req[h].todo) =>
              Cardinality(Holders(e)') = Cardinality(Holders(e)) - 1
         /\ e \in Elements(req'[h].todo) /\ e \notin Elements(req[h].todo) =>
              Cardinality(Holders(e)') = Cardinality(Holders(e)) + 1
<1>1. /\ h \in Holders(e) <=> e \in Elements(req[h].todo)
      /\ Holders(e)' = IF e \in Elements(req'[h].todo) THEN Holders(e) \cup {h} ELSE Holders(e) \ {h}
  BY DEF Holders
<1>2. /\ Cardinality(Holders(e) \cup {h}) = IF h \in Holders(e) THEN Cardinality(Holders(e)) ELSE Cardinality(Holders(e)) + 1
      /\ Cardinality(Holders(e) \ {h}) = IF h \in Holders(e) THEN Cardinality(Holders(e)) - 1 ELSE Cardinality(Holders(e))
  BY HoldersFinite, FS_AddElement, FS_RemoveElement
<1>3. QED BY <1>1, <1>2

LEMMA CopiesStay ==
  ASSUME UNCHANGED <<topic, pending>>, \A h \in Requests : Elements(req'[h].todo) = Elements(req[h].todo), NEW e
  PROVE  Copies(e)' = Copies(e)
<1>1. Holders(e)' = Holders(e)
  BY DEF Holders
<1>2. QED BY <1>1 DEF Copies

\* No event gains a copy, and every event is covered by the send it was covered by.
LEMMA CopyKept ==
  ASSUME CollTyped, CollTyped', AppTyped, AppTyped', CopyInv,
         \A h \in Requests : Distinct(req'[h].todo),
         \A s \in Senders : send'[s].attempt <= Retries,
         \A e \in Events :
           /\ Copies(e)' <= Copies(e)
           /\ fate'[e] = "new" \/ e \in Elements(buffer') => fate[e] = "new" \/ e \in Elements(buffer)
           /\ \A s \in Senders : e \in Elements(send'[s].batch) =>
                \/ e \in Elements(send[s].batch) /\ Posts(s)' >= Posts(s)
                \/ fate[e] = "new" \/ e \in Elements(buffer)
  PROVE  CopyInv'
<1>1. ASSUME NEW s \in Senders PROVE Posts(s)' \in Nat
  <2>1. send'[s] \in Sendings
    BY DEF AppTyped
  <2>2. send'[s].attempt \in Nat
    BY <2>1 DEF Sendings
  <2>3. QED BY <2>2 DEF Posts
<1>2. ASSUME NEW e \in Events
      PROVE  /\ Copies(e)' <= Retries + 1
             /\ fate'[e] = "new" \/ e \in Elements(buffer') => Copies(e)' = 0
             /\ \A s \in Senders : e \in Elements(send'[s].batch) => Copies(e)' <= Posts(s)'
  <2>1. Copies(e) \in Nat /\ Copies(e)' \in Nat /\ Copies(e)' <= Copies(e) /\ Copies(e) <= Retries + 1
        /\ (fate[e] = "new" \/ e \in Elements(buffer) => Copies(e) = 0)
    BY CopiesNat, CopiesNatNext DEF CopyInv
  <2>2. Copies(e)' <= Retries + 1
    BY <2>1, Sizes
  <2>3. fate[e] = "new" \/ e \in Elements(buffer) => Copies(e)' = 0
    BY <2>1
  <2>4. ASSUME NEW s \in Senders, e \in Elements(send'[s].batch) PROVE Copies(e)' <= Posts(s)'
    <3>1. CASE e \in Elements(send[s].batch) /\ Posts(s)' >= Posts(s)
      <4>1. Copies(e) <= Posts(s)
        BY <3>1 DEF CopyInv
      <4>2. PICK p : p = Posts(s)
        OBVIOUS
      <4>3. Copies(e)' <= Copies(e) /\ Copies(e) <= p /\ p <= Posts(s)'
        BY <2>1, <3>1, <4>1, <4>2
      <4>4. p \in Nat
        BY <4>2, SendTypes DEF Posts
      <4>5. QED BY <1>1, <2>1, <4>3, <4>4
    <3>2. CASE fate[e] = "new" \/ e \in Elements(buffer)
      BY <1>1, <2>1, <3>2
    <3>3. QED BY <2>4, <3>1, <3>2
  <2>5. QED BY <2>2, <2>3, <2>4
<1>3. QED BY <1>2 DEF CopyInv

\* The promise of shutdown is not touched.
LEMMA PromiseQuiet ==
  ASSUME PromiseInv, UNCHANGED <<closed, opts>>, promise'["shutdown"] = promise["shutdown"], closed => buffer' = <<>>,
         \A s \in Senders : send'[s].who = "shutdown" => send[s].who = "shutdown",
         \A e \in Events : fate'[e] = "dropped by shutdown" => fate[e] = "dropped by shutdown"
  PROVE  PromiseInv'
BY DEF PromiseInv
-----------------------------------------------------------------------------
(***************************************************************************)
(* Every step keeps the invariant.                                         *)
(***************************************************************************)
\* A step of the SDK alone: what it must leave as it is, for deliveries and copies.
LEMMA AppAlone ==
  ASSUME ClientShape, ClientShape', DeliveryInv, CopyInv, UNCHANGED <<req, inflight, pending, topic, met, link>>,
         \A e \in Events : fate'[e] = "delivered" => fate[e] = "delivered",
         \A e \in Events : fate'[e] = "new" \/ e \in Elements(buffer') => fate[e] = "new" \/ e \in Elements(buffer),
         \A s \in Senders : send'[s].attempt <= Retries,
         \A s \in Senders : link[s] # NoRequest => send'[s].batch = send[s].batch,
         \A s \in Senders, e \in Events : e \in Elements(send'[s].batch) =>
           \/ e \in Elements(send[s].batch) /\ Posts(s)' >= Posts(s)
           \/ fate[e] = "new" \/ e \in Elements(buffer)
  PROVE  DeliveryInv' /\ CopyInv'
<1>1. CollTyped /\ CollTyped' /\ AppTyped /\ AppTyped'
  BY DEF ClientShape
<1>2. ASSUME NEW e \in Events, DealtWith(e)' PROVE DealtWith(e)
  BY <1>2 DEF DealtWith, TakenOver
<1>3. DeliveryInv'
  BY <1>1, <1>2, DeliveryStays
<1>4. ASSUME NEW e \in Events PROVE Copies(e)' <= Copies(e)
  <2>1. Copies(e)' = Copies(e)
    BY CopiesStay
  <2>2. QED BY <1>1, <2>1, CopiesNat
<1>5. \A h \in Requests : Distinct(req'[h].todo)
  BY DEF CopyInv
<1>6. CopyInv'
  BY <1>1, <1>4, <1>5, CopyKept
<1>7. QED BY <1>3, <1>6

\* A batch is sent.
LEMMA BeginsKeeps ==
  ASSUME ClientShape, PlaceInv, DeliveryInv, CopyInv, UNCHANGED <<req, inflight, pending, topic, met, link>>,
         NEW s \in Senders, NEW q \in Seq(Events), NEW who \in Awaiters, Begins(s, q, who),
         fate' \in [Events -> Fates], UNCHANGED opts, closed' \in BOOLEAN,
         promise' \in [{"flush", "shutdown"} -> {"none", "pending", "resolved", "rejected"}],
         Distinct(q), Elements(buffer) \subseteq Elements(q),
         \A e \in Elements(q) : e \in Elements(buffer) \/ fate[e] = "new",
         \A e \in Events : \/ e \in Elements(q) /\ fate'[e] = "taken"
                           \/ e \notin Elements(q) /\ fate'[e] = fate[e]
  PROVE  /\ ClientShape' /\ PlaceInv' /\ DeliveryInv' /\ CopyInv'
         /\ buffer' = <<>> /\ \A t \in Senders : send'[t].who = "shutdown" => send[t].who = "shutdown" \/ (t = s /\ who = "shutdown")
         /\ \A e \in Events : fate'[e] = "dropped by shutdown" => fate[e] = "dropped by shutdown"
<1>1. AppTyped /\ CollTyped /\ (link[s] = NoRequest) /\ buffer \in Seq(Events)
  BY ClientFacts DEF Begins, AppTyped
<1>2. /\ send' \in [Senders -> Sendings] /\ send'[s] = New(q, who)
      /\ \A t \in Senders : t # s => send'[t] = send[t]
      /\ buffer' = <<>> /\ Elements(buffer') = {}
  BY <1>1, NewTyped, OneSend, ElementsEmpty DEF Begins
<1>3. send'[s].batch = q /\ send'[s].who = who /\ send'[s].attempt = 0
  BY <1>2, NewTyped
<1>4. AppTyped'
  <2>1. buffer' \in Seq(Events)
    BY <1>2
  <2>2. QED BY <1>1, <1>2, <2>1 DEF AppTyped
<1>5. ClientShape'
  BY <1>1, <1>2, <1>4, AppSide
<1>6. ASSUME NEW e \in Events PROVE fate'[e] = "taken" <=> fate[e] = "taken" \/ e \in Elements(q)
  OBVIOUS
<1>7. \A e \in Elements(q) : e \in Elements(buffer) \/ fate[e] # "taken"
  OBVIOUS
<1>8. PlaceInv'
  BY <1>1, <1>6, <1>7, BeginsPlaces
<1>9. \A e \in Events : /\ fate'[e] = "delivered" => fate[e] = "delivered"
                        /\ fate'[e] = "new" \/ e \in Elements(buffer') => fate[e] = "new" \/ e \in Elements(buffer)
                        /\ fate'[e] = "dropped by shutdown" => fate[e] = "dropped by shutdown"
  BY <1>2
<1>10. \A t \in Senders : send'[t].attempt <= Retries
  BY <1>2, <1>3, Sizes DEF CopyInv
<1>11. \A t \in Senders : link[t] # NoRequest => send'[t].batch = send[t].batch
  BY <1>1, <1>2
<1>12. ASSUME NEW t \in Senders, NEW e \in Events, e \in Elements(send'[t].batch)
       PROVE  \/ e \in Elements(send[t].batch) /\ Posts(t)' >= Posts(t)
              \/ fate[e] = "new" \/ e \in Elements(buffer)
  <2>1. CASE t = s
    BY <1>3, <1>12, <2>1
  <2>2. CASE t # s
    <3>1. send'[t] = send[t] /\ send[t].attempt \in Nat
      BY <1>1, <1>2, <2>2, SendTypes
    <3>2. Posts(t)' >= Posts(t)
      BY <3>1 DEF Posts
    <3>3. QED BY <1>12, <3>1, <3>2
  <2>3. QED BY <2>1, <2>2
<1>13. DeliveryInv' /\ CopyInv'
  BY <1>5, <1>9, <1>10, <1>11, <1>12, AppAlone
<1>14. \A t \in Senders : send'[t].who = "shutdown" => send[t].who = "shutdown" \/ (t = s /\ who = "shutdown")
  BY <1>2, <1>3
<1>15. QED BY <1>2, <1>5, <1>8, <1>9, <1>13, <1>14

\* enqueue.
LEMMA TraceKeeps ==
  ASSUME ClientInv, NEW x \in Events, Trace(x)
  PROVE  ClientInv'
<1>1. /\ ClientShape /\ PlaceInv /\ DeliveryInv /\ CopyInv /\ PromiseInv /\ AppTyped
      /\ buffer \in Seq(Events) /\ fate \in [Events -> Fates]
  BY DEF ClientInv, ClientShape, AppTyped
<1>2. /\ UNCHANGED <<req, inflight, pending, topic, met, link>> /\ UNCHANGED <<opts, closed, promise>>
      /\ fate[x] = "new" /\ App!Enqueue(x)
  BY DEF Trace, AppOnly, collVars, App!Enqueue
<1>3. PICK v : v = IF closed THEN "refused" ELSE "taken"
  OBVIOUS
<1>4. /\ v \in Fates /\ fate' = [fate EXCEPT ![x] = v] /\ fate' \in [Events -> Fates] /\ fate'[x] = v
      /\ \A e \in Events : e # x => fate'[e] = fate[e]
  <2>1. fate' = [fate EXCEPT ![x] = v]
    BY <1>2, <1>3 DEF App!Enqueue
  <2>2. v \in Fates
    BY <1>3 DEF Fates
  <2>3. QED BY <1>1, <2>1, <2>2
<1>5. x \notin Elements(buffer)
  BY <1>1, <1>2 DEF PlaceInv
<1>6. \A e \in Events : fate'[e] = "dropped by shutdown" => fate[e] = "dropped by shutdown"
  BY <1>3, <1>4
<1>7. /\ Append(buffer, x) \in Seq(Events) /\ Elements(Append(buffer, x)) = Elements(buffer) \cup {x}
      /\ Distinct(Append(buffer, x))
  BY <1>1, <1>5, ElementsAppend, DistinctAppend DEF PlaceInv
<1>8. CASE UNCHANGED send /\ (IF closed THEN buffer' = buffer ELSE buffer' = Append(buffer, x))
  <2>1. AppTyped'
    BY <1>1, <1>2, <1>4, <1>7, <1>8 DEF AppTyped
  <2>2. ClientShape'
    BY <1>1, <1>2, <1>8, <2>1, AppSide
  <2>3. PlaceInv'
    <3>1. CASE closed
      BY <1>1, <1>2, <1>3, <1>4, <1>8, <3>1, PlacesStay
    <3>2. CASE ~ closed
      BY <1>1, <1>2, <1>3, <1>4, <1>8, <3>2, BufferedPlaces
    <3>3. QED BY <3>1, <3>2
  <2>4. DeliveryInv' /\ CopyInv'
    <3>1. \A e \in Events : /\ fate'[e] = "delivered" => fate[e] = "delivered"
                            /\ fate'[e] = "new" \/ e \in Elements(buffer') => fate[e] = "new" \/ e \in Elements(buffer)
      <4>1. fate[x] = "new" /\ Elements(buffer') \subseteq Elements(buffer) \cup {x}
        BY <1>2, <1>7, <1>8
      <4>2. fate'[x] # "delivered" /\ \A e \in Events : e # x => fate'[e] = fate[e]
        BY <1>3, <1>4
      <4>3. QED BY <4>1, <4>2
    <3>2. ASSUME NEW s \in Senders PROVE Posts(s)' >= Posts(s) /\ send'[s].attempt <= Retries
      <4>1. Posts(s) \in Nat /\ send[s].attempt <= Retries
        BY <1>1, SendTypes DEF Posts, CopyInv
      <4>2. QED BY <1>8, <4>1 DEF Posts
    <3>3. QED BY <1>1, <1>2, <1>8, <2>2, <3>1, <3>2, AppAlone
  <2>5. PromiseInv'
    BY <1>1, <1>2, <1>6, <1>8, PromiseQuiet DEF PromiseInv
  <2>6. QED BY <2>2, <2>3, <2>4, <2>5 DEF ClientInv
<1>9. CASE ~ closed /\ App!Start(Append(buffer, x), "timer")
  <2>1. PICK s \in Senders : Begins(s, Append(buffer, x), "timer")
    BY <1>1, <1>9, StartDoes DEF ClientShape
  <2>2. PICK who \in Awaiters, q \in Seq(Events) : who = "timer" /\ q = Append(buffer, x)
    BY <1>7 DEF Awaiters
  <2>3. /\ Begins(s, q, who) /\ Distinct(q) /\ Elements(buffer) \subseteq Elements(q)
        /\ \A e \in Elements(q) : e \in Elements(buffer) \/ fate[e] = "new"
    BY <1>2, <1>7, <2>1, <2>2
  <2>4. ASSUME NEW e \in Events
        PROVE  \/ e \in Elements(q) /\ fate'[e] = "taken"
               \/ e \notin Elements(q) /\ fate'[e] = fate[e]
    <3>1. e \in Elements(buffer) => fate[e] = "taken"
      BY <1>1 DEF PlaceInv
    <3>2. e \in Elements(q) <=> e \in Elements(buffer) \/ e = x
      BY <1>7, <2>2
    <3>3. QED BY <1>3, <1>4, <1>9, <3>1, <3>2
  <2>5. /\ ClientShape' /\ PlaceInv' /\ DeliveryInv' /\ CopyInv' /\ buffer' = <<>>
        /\ \A t \in Senders : send'[t].who = "shutdown" => send[t].who = "shutdown"
    <3>1. promise' \in [{"flush", "shutdown"} -> {"none", "pending", "resolved", "rejected"}] /\ closed' \in BOOLEAN
      BY <1>1, <1>2 DEF AppTyped
    <3>2. /\ ClientShape' /\ PlaceInv' /\ DeliveryInv' /\ CopyInv' /\ buffer' = <<>>
          /\ \A t \in Senders : send'[t].who = "shutdown" => send[t].who = "shutdown" \/ (t = s /\ who = "shutdown")
      <4>1. ClientShape /\ PlaceInv /\ DeliveryInv /\ CopyInv
        BY <1>1
      <4>2. UNCHANGED <<req, inflight, pending, topic, met, link>> /\ UNCHANGED opts /\ fate' \in [Events -> Fates]
        BY <1>2, <1>4
      <4>3. QED BY <2>3, <2>4, <3>1, <4>1, <4>2, BeginsKeeps
    <3>3. QED BY <2>2, <3>2
  <2>6. PromiseInv'
    BY <1>1, <1>2, <1>6, <2>5, PromiseQuiet
  <2>7. QED BY <2>5, <2>6 DEF ClientInv
<1>10. \/ closed /\ UNCHANGED <<buffer, send>>
       \/ ~ closed /\ App!Start(Append(buffer, x), "timer")
       \/ ~ closed /\ buffer' = Append(buffer, x) /\ UNCHANGED send
  BY <1>2 DEF App!Enqueue
<1>11. QED BY <1>8, <1>9, <1>10

\* The buffer is sent, by the timer, flush or shutdown.
LEMMA FlushKeeps ==
  ASSUME ClientInv, UNCHANGED <<req, inflight, pending, topic, met, link>>, UNCHANGED <<opts, fate>>,
         NEW who \in Awaiters, closed' \in BOOLEAN,
         promise' \in [{"flush", "shutdown"} -> {"none", "pending", "resolved", "rejected"}],
         App!Start(buffer, who)
  PROVE  /\ ClientShape' /\ PlaceInv' /\ DeliveryInv' /\ CopyInv' /\ buffer' = <<>>
         /\ \E s \in Senders : \A t \in Senders :
              send'[t].who = "shutdown" => send[t].who = "shutdown" \/ (t = s /\ who = "shutdown")
<1>1. /\ ClientShape /\ PlaceInv /\ DeliveryInv /\ CopyInv
      /\ buffer \in Seq(Events) /\ fate \in [Events -> Fates]
  BY DEF ClientInv, ClientShape, AppTyped
<1>2. PICK s \in Senders : Begins(s, buffer, who)
  BY <1>1, StartDoes
<1>3. Distinct(buffer) /\ \A e \in Events : e \in Elements(buffer) => fate[e] = "taken"
  BY <1>1 DEF PlaceInv
<1>4. fate' \in [Events -> Fates] /\ UNCHANGED opts
  BY <1>1
<1>5. ASSUME NEW e \in Events
      PROVE  \/ e \in Elements(buffer) /\ fate'[e] = "taken"
             \/ e \notin Elements(buffer) /\ fate'[e] = fate[e]
  BY <1>3
<1>6. PICK q \in Seq(Events) : q = buffer
  BY <1>1
<1>7. /\ Begins(s, q, who) /\ Distinct(q) /\ Elements(buffer) \subseteq Elements(q)
      /\ \A e \in Elements(q) : e \in Elements(buffer) \/ fate[e] = "new"
      /\ \A e \in Events : \/ e \in Elements(q) /\ fate'[e] = "taken"
                           \/ e \notin Elements(q) /\ fate'[e] = fate[e]
  BY <1>2, <1>3, <1>5, <1>6
<1>8. /\ ClientShape' /\ PlaceInv' /\ DeliveryInv' /\ CopyInv' /\ buffer' = <<>>
      /\ \A t \in Senders : send'[t].who = "shutdown" => send[t].who = "shutdown" \/ (t = s /\ who = "shutdown")
  BY <1>1, <1>4, <1>7, BeginsKeeps
<1>9. QED BY <1>8

\* Nothing of it moves: promises, closing and the end of the process.
LEMMA NothingSent ==
  ASSUME ClientInv, UNCHANGED <<req, inflight, pending, topic, met, link>>, UNCHANGED <<opts, fate, buffer, send>>,
         closed' \in BOOLEAN, promise' \in [{"flush", "shutdown"} -> {"none", "pending", "resolved", "rejected"}]
  PROVE  ClientShape' /\ PlaceInv' /\ DeliveryInv' /\ CopyInv'
<1>1. /\ ClientShape /\ PlaceInv /\ DeliveryInv /\ CopyInv /\ AppTyped
  BY DEF ClientInv, ClientShape
<1>2. AppTyped'
  BY <1>1 DEF AppTyped
<1>3. ClientShape'
  BY <1>1, <1>2, AppSide
<1>4. PlaceInv'
  BY <1>1, PlacesStay
<1>5. ASSUME NEW s \in Senders PROVE Posts(s)' >= Posts(s) /\ send'[s].attempt <= Retries
  <2>1. Posts(s) \in Nat /\ send[s].attempt <= Retries
    BY <1>1, SendTypes DEF Posts, CopyInv
  <2>2. QED BY <2>1 DEF Posts
<1>6. DeliveryInv' /\ CopyInv'
  BY <1>1, <1>3, <1>5, AppAlone
<1>7. QED BY <1>3, <1>4, <1>6

\* autoFlush.
LEMMA TickKeeps == ASSUME ClientInv, Tick PROVE ClientInv'
<1>1. /\ UNCHANGED <<req, inflight, pending, topic, met, link>> /\ UNCHANGED <<opts, fate, closed, promise>>
      /\ ~ closed /\ App!Start(buffer, "timer")
  BY DEF Tick, App!Tick, AppOnly, collVars
<1>2. /\ closed \in BOOLEAN /\ promise \in [{"flush", "shutdown"} -> {"none", "pending", "resolved", "rejected"}]
      /\ PromiseInv
  BY DEF ClientInv, ClientShape, AppTyped
<1>3. PICK who \in Awaiters : who = "timer"
  BY DEF Awaiters
<1>4. /\ ClientShape' /\ PlaceInv' /\ DeliveryInv' /\ CopyInv' /\ buffer' = <<>>
      /\ \E s \in Senders : \A t \in Senders :
           send'[t].who = "shutdown" => send[t].who = "shutdown" \/ (t = s /\ who = "shutdown")
  BY <1>1, <1>2, <1>3, FlushKeeps
<1>5. PromiseInv'
  BY <1>1, <1>2, <1>3, <1>4, PromiseQuiet
<1>6. QED BY <1>4, <1>5 DEF ClientInv

\* flush.
LEMMA FlushCallKeeps == ASSUME ClientInv, Flush PROVE ClientInv'
<1>1. /\ UNCHANGED <<req, inflight, pending, topic, met, link>> /\ UNCHANGED <<opts, fate, closed>>
      /\ App!FlushFor("flush")
  BY DEF Flush, App!Flush, AppOnly, collVars
<1>2. /\ closed \in BOOLEAN /\ promise \in [{"flush", "shutdown"} -> {"none", "pending", "resolved", "rejected"}]
      /\ PromiseInv
  BY DEF ClientInv, ClientShape, AppTyped
<1>3. \/ buffer = <<>> /\ promise' = [promise EXCEPT !["flush"] = "resolved"] /\ UNCHANGED <<buffer, send>>
      \/ promise' = [promise EXCEPT !["flush"] = "pending"] /\ App!Start(buffer, "flush")
  BY <1>1 DEF App!FlushFor
<1>4. /\ promise' \in [{"flush", "shutdown"} -> {"none", "pending", "resolved", "rejected"}]
      /\ promise'["shutdown"] = promise["shutdown"]
  BY <1>2, <1>3
<1>5. PICK who \in Awaiters : who = "flush"
  BY DEF Awaiters
<1>6. /\ ClientShape' /\ PlaceInv' /\ DeliveryInv' /\ CopyInv' /\ buffer' = <<>>
      /\ \A t \in Senders : send'[t].who = "shutdown" => send[t].who = "shutdown"
  <2>1. CASE buffer = <<>> /\ UNCHANGED <<buffer, send>>
    <3>1. closed' \in BOOLEAN
      BY <1>1, <1>2
    <3>2. ClientShape' /\ PlaceInv' /\ DeliveryInv' /\ CopyInv'
      BY <1>1, <1>4, <2>1, <3>1, NothingSent
    <3>3. QED BY <2>1, <3>2
  <2>2. CASE App!Start(buffer, "flush")
    BY <1>1, <1>2, <1>4, <1>5, <2>2, FlushKeeps
  <2>3. QED BY <1>3, <2>1, <2>2
<1>7. PromiseInv'
  BY <1>1, <1>2, <1>4, <1>6, PromiseQuiet
<1>8. QED BY <1>6, <1>7 DEF ClientInv

\* shutdown: only the first call of it sends anything.
LEMMA ShutdownKeeps == ASSUME ClientInv, Shutdown PROVE ClientInv'
<1>1. /\ UNCHANGED <<req, inflight, pending, topic, met, link>> /\ UNCHANGED <<opts, fate>>
      /\ ~ closed /\ closed' = TRUE /\ App!FlushFor("shutdown")
  BY DEF Shutdown, App!Shutdown, AppOnly, collVars
<1>2. /\ promise \in [{"flush", "shutdown"} -> {"none", "pending", "resolved", "rejected"}]
      /\ PromiseInv /\ closed' \in BOOLEAN
  BY <1>1 DEF ClientInv, ClientShape, AppTyped
<1>3. \/ buffer = <<>> /\ promise' = [promise EXCEPT !["shutdown"] = "resolved"] /\ UNCHANGED <<buffer, send>>
      \/ promise' = [promise EXCEPT !["shutdown"] = "pending"] /\ App!Start(buffer, "shutdown")
  BY <1>1 DEF App!FlushFor
<1>4. promise' \in [{"flush", "shutdown"} -> {"none", "pending", "resolved", "rejected"}]
  BY <1>2, <1>3
<1>5. /\ \A s \in Senders : send[s].who # "shutdown"
      /\ \A e \in Events : fate'[e] # "dropped by shutdown"
  BY <1>1, <1>2 DEF PromiseInv
<1>6. CASE buffer = <<>> /\ UNCHANGED <<buffer, send>>
  <2>1. ClientShape' /\ PlaceInv' /\ DeliveryInv' /\ CopyInv'
    BY <1>1, <1>2, <1>4, <1>6, NothingSent
  <2>2. PromiseInv'
    BY <1>1, <1>5, <1>6 DEF PromiseInv
  <2>3. QED BY <2>1, <2>2 DEF ClientInv
<1>7. CASE promise' = [promise EXCEPT !["shutdown"] = "pending"] /\ App!Start(buffer, "shutdown")
  <2>1. PICK who \in Awaiters : who = "shutdown"
    BY DEF Awaiters
  <2>2. /\ ClientShape' /\ PlaceInv' /\ DeliveryInv' /\ CopyInv' /\ buffer' = <<>>
        /\ \E s \in Senders : \A t \in Senders :
             send'[t].who = "shutdown" => send[t].who = "shutdown" \/ (t = s /\ who = "shutdown")
    BY <1>1, <1>2, <1>4, <1>7, <2>1, FlushKeeps
  <2>3. promise'["shutdown"] = "pending"
    BY <1>2, <1>7
  <2>4. \A s, t \in Senders : send'[s].who = "shutdown" /\ send'[t].who = "shutdown" => t = s
    BY <1>5, <2>2
  <2>5. PromiseInv'
    BY <1>1, <1>5, <2>2, <2>3, <2>4 DEF PromiseInv
  <2>6. QED BY <2>2, <2>5 DEF ClientInv
<1>8. QED BY <1>3, <1>6, <1>7

\* The process ends.
LEMMA ExitKeeps == ASSUME ClientInv, Exit PROVE ClientInv'
<1>1. /\ UNCHANGED <<req, inflight, pending, topic, met, link>>
      /\ UNCHANGED <<opts, fate, buffer, send, closed, promise>>
  BY DEF Exit, App!Exit, AppOnly, collVars
<1>2. closed' \in BOOLEAN /\ promise' \in [{"flush", "shutdown"} -> {"none", "pending", "resolved", "rejected"}]
  BY <1>1 DEF ClientInv, ClientShape, AppTyped
<1>3. ClientShape' /\ PlaceInv' /\ DeliveryInv' /\ CopyInv'
  BY <1>1, <1>2, NothingSent
<1>4. PromiseInv'
  BY <1>1 DEF ClientInv, PromiseInv
<1>5. QED BY <1>3, <1>4 DEF ClientInv

\* An attempt of s is over, or s does not have one: no request carries it any more.
LEMMA DetachedShape ==
  ASSUME ClientShape, AppTyped', CollTyped', \A g \in Requests : HandlerOk(g)', NEW s \in Senders,
         link' = [link EXCEPT ![s] = NoRequest],
         \A t \in Senders : t # s => send'[t] = send[t],
         \A t \in Senders : t # s /\ link[t] # NoRequest => req'[link[t]] = req[link[t]]
  PROVE  /\ ClientShape' /\ link'[s] = NoRequest
         /\ \A t \in Senders : t # s => link'[t] = link[t]
<1>1. /\ link' \in [Senders -> Requests \cup {NoRequest}] /\ link'[s] = NoRequest
      /\ \A t \in Senders : t # s => link'[t] = link[t]
  BY ClientFacts
<1>2. LinkOk'
  BY <1>1, ClientFacts DEF LinkOk
<1>3. QED BY <1>1, <1>2, ClientFacts DEF ClientShape

\* What is dealt with then was so before.
LEMMA DetachedDealt ==
  ASSUME ClientShape, NEW s \in Senders, link'[s] = NoRequest,
         \A t \in Senders : t # s => send'[t] = send[t] /\ link'[t] = link[t],
         \A t \in Senders : t # s /\ link[t] # NoRequest => req'[link[t]] = req[link[t]],
         NEW e \in Events, fate'[e] = "delivered" => DealtWith(e), DealtWith(e)'
  PROVE  DealtWith(e)
<1>1. CASE fate'[e] = "delivered"
  BY <1>1
<1>2. CASE \E t \in Senders : TakenOver(t)' /\ e \in Elements(send'[t].batch) /\ e \notin Elements(req'[link'[t]].todo)
  <2>1. PICK t \in Senders : TakenOver(t)' /\ e \in Elements(send'[t].batch) /\ e \notin Elements(req'[link'[t]].todo)
    BY <1>2
  <2>2. t # s
    BY <2>1 DEF TakenOver
  <2>3. link'[t] = link[t] /\ link[t] # NoRequest /\ send'[t] = send[t] /\ req'[link[t]] = req[link[t]]
    BY <2>1, <2>2 DEF TakenOver
  <2>4. TakenOver(t)
    BY <2>1, <2>3 DEF TakenOver
  <2>5. QED BY <2>1, <2>3, <2>4 DEF DealtWith
<1>3. QED BY <1>1, <1>2 DEF DealtWith

LEMMA DetachedGoesOn ==
  ASSUME ClientInv, CollTyped', \A g \in Requests : HandlerOk(g)', NEW s \in Senders, GoesOn(s),
         link' = [link EXCEPT ![s] = NoRequest], UNCHANGED <<pending, topic, met>>,
         \A g \in Requests : req'[g].todo = req[g].todo,
         \A t \in Senders : t # s /\ link[t] # NoRequest => req'[link[t]] = req[link[t]]
  PROVE  ClientInv'
<1>1. /\ ClientShape /\ PlaceInv /\ DeliveryInv /\ CopyInv /\ PromiseInv /\ AppTyped /\ CollTyped
  BY DEF ClientInv, ClientShape
<1>2. /\ AppTyped'
      /\ \A t \in Senders : t # s => send'[t] = send[t]
      /\ \A t \in Senders : /\ send'[t].who = send[t].who /\ send'[t].batch = send[t].batch
                            /\ (send[t].attempt <= Retries => send'[t].attempt <= Retries) /\ Posts(t)' >= Posts(t)
      /\ UNCHANGED <<opts, fate, buffer, closed, promise>>
  BY <1>1, GoesOnFacts
<1>3. /\ ClientShape' /\ link'[s] = NoRequest
      /\ \A t \in Senders : t # s => link'[t] = link[t]
  BY <1>1, <1>2, DetachedShape
<1>4. PlaceInv'
  BY <1>1, GoesOnPlaces
<1>5. DeliveryInv'
  <2>1. ASSUME NEW e \in Events, DealtWith(e)' PROVE DealtWith(e)
    <3>1. fate'[e] = "delivered" => DealtWith(e)
      BY <1>2 DEF DealtWith
    <3>2. \A t \in Senders : t # s => send'[t] = send[t] /\ link'[t] = link[t]
      BY <1>2, <1>3
    <3>3. QED BY <1>1, <1>3, <2>1, <3>1, <3>2, DetachedDealt
  <2>2. QED BY <1>1, <2>1, DeliveryStays
<1>6. CopyInv'
  <2>1. ASSUME NEW e \in Events PROVE Copies(e)' <= Copies(e)
    <3>1. Copies(e)' = Copies(e)
      BY CopiesStay
    <3>2. QED BY <1>1, <3>1, CopiesNat
  <2>2. \A h \in Requests : Distinct(req'[h].todo)
    BY <1>1 DEF CopyInv
  <2>3. \A t \in Senders : send'[t].attempt <= Retries
    BY <1>1, <1>2 DEF CopyInv
  <2>4. QED BY <1>1, <1>2, <2>1, <2>2, <2>3, CopyKept
<1>7. PromiseInv'
  <2>1. closed => buffer' = <<>>
    BY <1>1, <1>2 DEF PromiseInv
  <2>2. QED BY <1>1, <1>2, <2>1, PromiseQuiet
<1>8. QED BY <1>3, <1>4, <1>5, <1>6, <1>7 DEF ClientInv

LEMMA DetachedOver ==
  ASSUME ClientInv, CollTyped', \A g \in Requests : HandlerOk(g)', NEW s \in Senders, NEW outcome, SendOver(s, outcome),
         outcome = "sent" => TakenOver(s) /\ req[link[s]].todo = <<>>,
         link' = [link EXCEPT ![s] = NoRequest], UNCHANGED <<pending, topic, met>>,
         \A g \in Requests : req'[g].todo = req[g].todo,
         \A t \in Senders : t # s /\ link[t] # NoRequest => req'[link[t]] = req[link[t]]
  PROVE  ClientInv'
<1>1. /\ ClientShape /\ PlaceInv /\ DeliveryInv /\ CopyInv /\ PromiseInv /\ AppTyped /\ CollTyped
  BY DEF ClientInv, ClientShape
<1>2. /\ AppTyped' /\ send'[s] = App!Idle
      /\ \A t \in Senders : t # s => send'[t] = send[t]
      /\ UNCHANGED <<opts, buffer, closed>>
  BY <1>1, SendOverDoes
<1>3. /\ \A e \in Events : e \notin Elements(send[s].batch) => fate'[e] = fate[e]
      /\ outcome = "sent" => \A e \in Events : e \in Elements(send[s].batch) => fate'[e] = "delivered"
      /\ outcome # "sent" => \A e \in Events : e \in Elements(send[s].batch) =>
           /\ fate'[e] \in {"dropped by timer", "dropped by flush", "dropped by shutdown"}
           /\ (fate'[e] = "dropped by shutdown" => send[s].who = "shutdown")
  <2>1. \A e \in Events : e \notin Elements(send[s].batch) => fate'[e] = fate[e]
    BY <1>1, SendOverDoes
  <2>2. outcome = "sent" => \A e \in Events : e \in Elements(send[s].batch) => fate'[e] = "delivered"
    BY <1>1, SendOverDoes
  <2>3. ASSUME outcome # "sent", NEW e \in Events, e \in Elements(send[s].batch)
        PROVE  /\ fate'[e] \in {"dropped by timer", "dropped by flush", "dropped by shutdown"}
               /\ (fate'[e] = "dropped by shutdown" => send[s].who = "shutdown")
    BY <1>1, <2>3, SendOverDoes
  <2>4. QED BY <2>1, <2>2, <2>3
<1>4. /\ \A w \in {"flush", "shutdown"} : w # send[s].who => promise'[w] = promise[w]
      /\ send[s].who = "shutdown" /\ outcome # "sent" => opts.failOpen \/ promise'["shutdown"] = "rejected"
  BY <1>1, SendOverDoes
<1>5. /\ ClientShape' /\ link'[s] = NoRequest
      /\ \A t \in Senders : t # s => link'[t] = link[t]
  BY <1>1, <1>2, DetachedShape
<1>6. PlaceInv'
  BY <1>1, SendOverPlaces
<1>7. DeliveryInv'
  <2>1. ASSUME NEW e \in Events, DealtWith(e)' PROVE DealtWith(e)
    <3>1. ASSUME fate'[e] = "delivered" PROVE DealtWith(e)
      <4>1. CASE e \notin Elements(send[s].batch)
        BY <1>3, <3>1, <4>1 DEF DealtWith
      <4>2. CASE e \in Elements(send[s].batch)
        <5>1. outcome = "sent"
          BY <1>3, <3>1, <4>2
        <5>2. TakenOver(s) /\ e \notin Elements(req[link[s]].todo)
          BY <5>1, ElementsEmpty
        <5>3. QED BY <4>2, <5>2 DEF DealtWith
      <4>3. QED BY <4>1, <4>2
    <3>2. \A t \in Senders : t # s => send'[t] = send[t] /\ link'[t] = link[t]
      BY <1>2, <1>5
    <3>3. QED BY <1>1, <1>5, <2>1, <3>1, <3>2, DetachedDealt
  <2>2. QED BY <1>1, <2>1, DeliveryStays
<1>8. CopyInv'
  <2>1. ASSUME NEW e \in Events PROVE Copies(e)' <= Copies(e)
    <3>1. Copies(e)' = Copies(e)
      BY CopiesStay
    <3>2. QED BY <1>1, <3>1, CopiesNat
  <2>2. \A h \in Requests : Distinct(req'[h].todo)
    BY <1>1 DEF CopyInv
  <2>3. \A t \in Senders : send'[t].attempt <= Retries
    BY <1>1, <1>2, IdleTyped, Sizes DEF CopyInv
  <2>4. ASSUME NEW e \in Events, fate'[e] = "new" \/ e \in Elements(buffer') PROVE fate[e] = "new" \/ e \in Elements(buffer)
    BY <1>2, <1>3, <2>4
  <2>5. ASSUME NEW e \in Events, NEW t \in Senders, e \in Elements(send'[t].batch)
        PROVE  e \in Elements(send[t].batch) /\ Posts(t)' >= Posts(t)
    <3>1. t # s
      BY <1>2, <2>5, IdleTyped, ElementsEmpty
    <3>2. send'[t] = send[t] /\ send[t].attempt \in Nat
      BY <1>1, <1>2, <3>1, SendTypes
    <3>3. Posts(t)' >= Posts(t)
      BY <3>2 DEF Posts
    <3>4. QED BY <2>5, <3>2, <3>3
  <2>6. QED BY <1>1, <1>2, <2>1, <2>2, <2>3, <2>4, <2>5, CopyKept
<1>9. /\ \A t \in Senders : send'[t].who = "shutdown" => t # s /\ send[t].who = "shutdown"
      /\ closed => buffer' = <<>>
  BY <1>1, <1>2, IdleTyped DEF PromiseInv
<1>10. CASE send[s].who = "shutdown"
  <2>1. /\ closed' /\ \A t \in Senders : send'[t].who # "shutdown"
    BY <1>1, <1>2, <1>9, <1>10 DEF PromiseInv
  <2>2. ASSUME NEW e \in Events, fate'[e] = "dropped by shutdown" PROVE opts'.failOpen \/ promise'["shutdown"] = "rejected"
    <3>1. e \in Elements(send[s].batch)
      BY <1>1, <1>3, <1>10, <2>2 DEF PromiseInv
    <3>2. outcome # "sent"
      BY <1>3, <2>2, <3>1
    <3>3. QED BY <1>2, <1>4, <1>10, <3>2
  <2>3. PromiseInv'
    BY <1>2, <1>9, <2>1, <2>2 DEF PromiseInv
  <2>4. QED BY <1>5, <1>6, <1>7, <1>8, <2>3 DEF ClientInv
<1>11. CASE send[s].who # "shutdown"
  <2>1. promise'["shutdown"] = promise["shutdown"]
    BY <1>4, <1>11
  <2>2. \A e \in Events : fate'[e] = "dropped by shutdown" => fate[e] = "dropped by shutdown"
    BY <1>3, <1>11
  <2>3. PromiseInv'
    BY <1>1, <1>2, <1>9, <2>1, <2>2, PromiseQuiet
  <2>4. QED BY <1>5, <1>6, <1>7, <1>8, <2>3 DEF ClientInv
<1>12. QED BY <1>10, <1>11

\* A send that no request carries, in a step the collector has no part in.
LEMMA Unattended ==
  ASSUME ClientInv, NEW s \in Senders, link[s] = NoRequest, UNCHANGED <<req, inflight, pending, topic, met, link>>
  PROVE  /\ CollTyped' /\ (\A g \in Requests : HandlerOk(g)') /\ link' = [link EXCEPT ![s] = NoRequest]
         /\ UNCHANGED <<pending, topic, met>> /\ \A g \in Requests : req'[g].todo = req[g].todo
         /\ \A t \in Senders : t # s /\ link[t] # NoRequest => req'[link[t]] = req[link[t]]
<1>1. CollTyped /\ (\A g \in Requests : HandlerOk(g)) /\ link \in [Senders -> Requests \cup {NoRequest}]
  BY ClientFacts DEF ClientInv
<1>2. CollTyped' /\ \A g \in Requests : HandlerOk(g)'
  BY <1>1 DEF CollTyped, HandlerOk
<1>3. link' = [link EXCEPT ![s] = NoRequest]
  BY <1>1
<1>4. QED BY <1>2, <1>3

\* delay is over; a request is lost on its way.
LEMMA AttemptKeeps ==
  ASSUME ClientInv, NEW s \in Senders, Retry(s) \/ SendLost(s)
  PROVE  ClientInv'
<1>1. AppTyped /\ send[s].attempt <= Retries
  BY DEF ClientInv, ClientShape, CopyInv
<1>2. UNCHANGED <<req, inflight, pending, topic, met, link>> /\ (App!Retry(s) \/ App!Post(s))
  BY DEF Retry, SendLost, AppOnly, collVars
<1>3. GoesOn(s)
  BY <1>1, <1>2, RetryDoes, PostDoes
<1>4. link[s] = NoRequest
  <2>1. send[s].at # "wait"
    BY <1>2 DEF App!Retry, App!Post
  <2>2. QED BY <2>1, ClientFacts DEF ClientInv
<1>5. /\ CollTyped' /\ (\A g \in Requests : HandlerOk(g)') /\ link' = [link EXCEPT ![s] = NoRequest]
      /\ UNCHANGED <<pending, topic, met>> /\ \A g \in Requests : req'[g].todo = req[g].todo
      /\ \A t \in Senders : t # s /\ link[t] # NoRequest => req'[link[t]] = req[link[t]]
  BY <1>2, <1>4, Unattended
<1>6. QED BY <1>3, <1>5, DetachedGoesOn

\* A failed attempt, answered or not.
LEMMA FailureKeeps ==
  ASSUME ClientInv, NEW s \in Senders, send[s].at = "wait", App!Fails(s), UNCHANGED <<opts, buffer, closed>>,
         CollTyped', \A g \in Requests : HandlerOk(g)',
         link' = [link EXCEPT ![s] = NoRequest], UNCHANGED <<pending, topic, met>>,
         \A g \in Requests : req'[g].todo = req[g].todo,
         \A t \in Senders : t # s /\ link[t] # NoRequest => req'[link[t]] = req[link[t]]
  PROVE  ClientInv'
<1>1. PICK outcome : outcome = "failed"
  OBVIOUS
<1>2. GoesOn(s) \/ SendOver(s, outcome)
  BY <1>1, FailsDoes DEF ClientInv, ClientShape
<1>3. CASE GoesOn(s)
  BY <1>3, DetachedGoesOn
<1>4. CASE SendOver(s, outcome)
  BY <1>1, <1>4, DetachedOver
<1>5. QED BY <1>2, <1>3, <1>4

\* The abort or a transport error, and the answer of a proxy.
LEMMA NoAnswerKeeps ==
  ASSUME ClientInv, NEW s \in Senders, GivesUp(s) \/ ProxyAnswers(s)
  PROVE  ClientInv'
<1>1. CASE GivesUp(s)
  <2>1. /\ send[s].at = "wait" /\ App!Fails(s) /\ UNCHANGED <<opts, buffer, closed>>
        /\ link' = [link EXCEPT ![s] = NoRequest] /\ UNCHANGED <<req, inflight, pending, topic, met>>
    BY <1>1 DEF GivesUp, App!NoReply, Connected, collVars
  <2>2. CollTyped' /\ \A g \in Requests : HandlerOk(g)'
    BY <2>1, ClientFacts DEF ClientInv, CollTyped, HandlerOk
  <2>3. QED BY <2>1, <2>2, FailureKeeps
<1>2. CASE ProxyAnswers(s)
  <2>1. /\ link[s] = NoRequest /\ UNCHANGED <<req, inflight, pending, topic, met, link>>
        /\ send[s].at = "wait" /\ App!Fails(s) /\ UNCHANGED <<opts, buffer, closed>>
    BY <1>2 DEF ProxyAnswers, App!Reply, AppOnly, collVars
  <2>2. /\ CollTyped' /\ (\A g \in Requests : HandlerOk(g)') /\ link' = [link EXCEPT ![s] = NoRequest]
        /\ UNCHANGED <<pending, topic, met>> /\ \A g \in Requests : req'[g].todo = req[g].todo
        /\ \A t \in Senders : t # s /\ link[t] # NoRequest => req'[link[t]] = req[link[t]]
    BY <2>1, Unattended
  <2>3. QED BY <2>1, <2>2, FailureKeeps
<1>3. QED BY <1>1, <1>2

\* The answer to a request that is through with its events.
LEMMA AnswerKeeps == ASSUME ClientInv, NEW s \in Senders, AnswerArrives(s) PROVE ClientInv'
<1>1. CollTyped /\ (\A g \in Requests : HandlerOk(g))
  BY ClientFacts DEF ClientInv
<1>2. PICK h : h = link[s]
  OBVIOUS
<1>3. /\ h # NoRequest /\ req[h].at = "done" /\ Coll!Return(h) /\ link' = [link EXCEPT ![s] = NoRequest]
      /\ App!Reply(s, req[h].status)
  BY <1>2 DEF AnswerArrives, Connected
<1>4. h \in Requests
  BY <1>2, <1>3, ClientFacts DEF ClientInv
<1>5. /\ CollTyped' /\ (\A g \in Requests : HandlerOk(g)')
      /\ req[h].todo = <<>> /\ req'[h].todo = <<>>
      /\ \A g \in Requests : g # h => req'[g] = req[g]
      /\ UNCHANGED <<inflight, pending, topic, met>>
  BY <1>1, <1>3, <1>4, ReturnDoes
<1>6. \A g \in Requests : req'[g].todo = req[g].todo
  BY <1>5
<1>7. ASSUME NEW t \in Senders, t # s, link[t] # NoRequest PROVE req'[link[t]] = req[link[t]]
  <2>1. link[t] \in Requests /\ link[t] # h
    BY <1>2, <1>7, ClientFacts DEF ClientInv
  <2>2. QED BY <1>5, <2>1
<1>8. /\ send[s].at = "wait" /\ UNCHANGED <<opts, buffer, closed>>
      /\ IF req[h].status \in 200..299 THEN App!Settle(s, "sent") ELSE App!Fails(s)
  BY <1>3 DEF App!Reply
<1>9. CASE req[h].status \in 200..299
  <2>1. PICK outcome : outcome = "sent"
    OBVIOUS
  <2>2. SendOver(s, outcome)
    BY <1>8, <1>9, <2>1 DEF SendOver
  <2>3. TakenOver(s) /\ req[link[s]].todo = <<>>
    <3>1. req[h].status \notin {400, 413}
      BY <1>9
    <3>2. QED BY <1>2, <1>3, <1>5, <3>1 DEF TakenOver
  <2>4. QED BY <1>3, <1>5, <1>6, <1>7, <2>2, <2>3, DetachedOver
<1>10. CASE ~ (req[h].status \in 200..299)
  BY <1>3, <1>5, <1>6, <1>7, <1>8, <1>10, FailureKeeps
<1>11. QED BY <1>9, <1>10

\* A request reaches the collector.
LEMMA PostKeeps == ASSUME ClientInv, NEW s \in Senders, SendArrives(s) PROVE ClientInv'
<1>1. /\ ClientShape /\ PlaceInv /\ DeliveryInv /\ CopyInv /\ PromiseInv /\ AppTyped /\ CollTyped
      /\ (\A g \in Requests : HandlerOk(g)) /\ send[s].attempt <= Retries
  BY DEF ClientInv, ClientShape, CopyInv
<1>2. PICK h \in Requests : /\ App!Post(s) /\ Coll!Accept(h, "events", send[s].batch)
                            /\ link' = [link EXCEPT ![s] = h]
  BY DEF SendArrives, Connected
<1>3. /\ GoesOn(s) /\ send[s].at = "post" /\ send'[s].at = "wait" /\ send'[s].attempt = send[s].attempt
  BY <1>1, <1>2, PostDoes
<1>4. /\ AppTyped'
      /\ \A t \in Senders : t # s => send'[t] = send[t]
      /\ \A t \in Senders : /\ send'[t].who = send[t].who /\ send'[t].batch = send[t].batch
                            /\ (send[t].attempt <= Retries => send'[t].attempt <= Retries) /\ Posts(t)' >= Posts(t)
      /\ UNCHANGED <<opts, fate, buffer, closed, promise>>
  BY <1>1, <1>3, GoesOnFacts
<1>5. PICK q \in Seq(Events) : q = send[s].batch
  BY <1>1, SendTypes
<1>6. /\ CollTyped' /\ (\A g \in Requests : HandlerOk(g)')
      /\ req[h].at = "idle" /\ req[h].todo = <<>>
      /\ \/ req'[h].at = "loop" /\ req'[h].todo = q
         \/ req'[h].at = "done" /\ req'[h].todo = <<>> /\ req'[h].status \in {400, 413}
      /\ \A g \in Requests : g # h => req'[g] = req[g]
      /\ UNCHANGED <<inflight, pending, topic, met>>
  <2>1. PICK api \in {"events", "otel"} : Coll!Accept(h, api, q)
    BY <1>2, <1>5
  <2>2. QED BY <1>1, <2>1, AcceptDoes
<1>7. /\ link' \in [Senders -> Requests \cup {NoRequest}] /\ link'[s] = h
      /\ \A t \in Senders : t # s => link'[t] = link[t]
  BY <1>1, <1>2, ClientFacts
<1>8. ASSUME NEW t \in Senders, link[t] # NoRequest
      PROVE  link[t] \in Requests /\ link[t] # h /\ req'[link[t]] = req[link[t]] /\ t # s
  BY <1>1, <1>3, <1>6, <1>8, ClientFacts
<1>9. ClientShape'
  <2>1. ASSUME NEW t \in Senders, link'[t] # NoRequest PROVE send'[t].at = "wait" /\ req'[link'[t]].at # "idle"
    <3>1. CASE t = s
      BY <1>3, <1>6, <1>7, <3>1
    <3>2. CASE t # s
      BY <1>1, <1>4, <1>7, <1>8, <2>1, <3>2, ClientFacts
    <3>3. QED BY <3>1, <3>2
  <2>2. ASSUME NEW t \in Senders, NEW u \in Senders, link'[t] = link'[u], link'[t] # NoRequest PROVE t = u
    BY <1>1, <1>7, <1>8, <2>2, ClientFacts
  <2>3. LinkOk'
    BY <1>7, <2>1, <2>2 DEF LinkOk
  <2>4. QED BY <1>1, <1>4, <1>6, <2>3, ClientFacts DEF ClientShape
<1>10. PlaceInv'
  BY <1>1, <1>3, GoesOnPlaces
<1>11. DeliveryInv'
  <2>1. ASSUME NEW e \in Events, DealtWith(e)' PROVE DealtWith(e)
    <3>1. CASE fate'[e] = "delivered"
      BY <1>4, <3>1 DEF DealtWith
    <3>2. CASE \E t \in Senders : TakenOver(t)' /\ e \in Elements(send'[t].batch) /\ e \notin Elements(req'[link'[t]].todo)
      <4>1. PICK t \in Senders : TakenOver(t)' /\ e \in Elements(send'[t].batch) /\ e \notin Elements(req'[link'[t]].todo)
        BY <3>2
      <4>2. t # s
        BY <1>4, <1>5, <1>6, <1>7, <4>1 DEF TakenOver
      <4>3. link'[t] = link[t] /\ link[t] # NoRequest /\ send'[t] = send[t]
        BY <1>4, <1>7, <4>1, <4>2 DEF TakenOver
      <4>4. req'[link[t]] = req[link[t]]
        BY <1>8, <4>3
      <4>5. TakenOver(t)
        BY <4>1, <4>3, <4>4 DEF TakenOver
      <4>6. QED BY <4>1, <4>3, <4>4, <4>5 DEF DealtWith
    <3>3. QED BY <2>1, <3>1, <3>2 DEF DealtWith
  <2>2. QED BY <1>1, <1>6, <2>1, DeliveryStays
<1>12. CopyInv'
  <2>1. ASSUME NEW g \in Requests PROVE Distinct(req'[g].todo)
    <3>1. Distinct(q) /\ Distinct(req[g].todo)
      BY <1>1, <1>5 DEF PlaceInv, CopyInv
    <3>2. QED BY <1>6, <3>1, DistinctEmpty
  <2>2. ASSUME NEW e \in Events
        PROVE  /\ e \notin Elements(q) => Copies(e)' = Copies(e)
               /\ Copies(e)' <= Copies(e) + 1 /\ Copies(e) \in Nat /\ Copies(e)' \in Nat
    <3>1. e \notin Elements(req[h].todo) /\ (e \in Elements(req'[h].todo) => e \in Elements(q))
      BY <1>6, ElementsEmpty
    <3>2. /\ e \notin Elements(req'[h].todo) => Holders(e)' = Holders(e)
          /\ e \in Elements(req'[h].todo) => Cardinality(Holders(e)') = Cardinality(Holders(e)) + 1
      BY <1>6, <3>1, HoldersChange
    <3>3. Copies(e) \in Nat /\ Copies(e)' \in Nat
      BY <1>1, <1>6, CopiesNat, CopiesNatNext
    <3>4. CASE e \notin Elements(req'[h].todo)
      <4>1. Copies(e)' = Copies(e)
        BY <1>6, <3>2, <3>4 DEF Copies
      <4>2. QED BY <3>3, <4>1
    <3>5. CASE e \in Elements(req'[h].todo)
      <4>1. Copies(e)' = Copies(e) + 1
        <5>1. /\ Cardinality(Holders(e)') = Cardinality(Holders(e)) + 1 /\ Cardinality(Holders(e)) \in Nat
              /\ topic[e] \in Nat /\ pending[e] \in Nat /\ UNCHANGED <<topic, pending>>
          BY <1>1, <1>6, <3>2, <3>5, HoldersFinite, CopiesNat
        <5>2. /\ Copies(e) = topic[e] + pending[e] + Cardinality(Holders(e))
              /\ Copies(e)' = topic'[e] + pending'[e] + Cardinality(Holders(e)')
          BY DEF Copies
        <5>3. topic'[e] = topic[e] /\ pending'[e] = pending[e]
          BY <5>1
        <5>4. QED BY <5>1, <5>2, <5>3
      <4>2. QED BY <3>1, <3>3, <3>5, <4>1
    <3>6. QED BY <3>4, <3>5
  <2>3. Posts(s) = send[s].attempt /\ Posts(s)' = send[s].attempt + 1 /\ send[s].attempt \in Nat
    BY <1>1, <1>3, SendTypes DEF Posts
  <2>4. ASSUME NEW e \in Events
        PROVE  /\ Copies(e)' <= Retries + 1
               /\ fate'[e] = "new" \/ e \in Elements(buffer') => Copies(e)' = 0
               /\ \A t \in Senders : e \in Elements(send'[t].batch) => Copies(e)' <= Posts(t)'
    <3>1. CASE e \in Elements(q)
      <4>1. Copies(e) <= send[s].attempt
        BY <1>1, <1>5, <2>3, <3>1 DEF CopyInv
      <4>2. Copies(e)' <= send[s].attempt + 1
        BY <2>2, <2>3, <4>1
      <4>3. Copies(e)' <= Retries + 1
        BY <1>1, <2>2, <2>3, <4>2, Sizes
      <4>4. fate'[e] # "new" /\ e \notin Elements(buffer')
        BY <1>1, <1>4, <1>5, <3>1 DEF PlaceInv
      <4>5. \A t \in Senders : e \in Elements(send'[t].batch) => t = s
        BY <1>1, <1>4, <1>5, <3>1 DEF PlaceInv
      <4>6. QED BY <2>3, <4>2, <4>3, <4>4, <4>5
    <3>2. CASE e \notin Elements(q)
      <4>1. Copies(e)' = Copies(e) /\ Copies(e) <= Retries + 1
        BY <1>1, <2>2, <3>2 DEF CopyInv
      <4>2. fate'[e] = "new" \/ e \in Elements(buffer') => Copies(e)' = 0
        BY <1>1, <1>4, <4>1 DEF CopyInv
      <4>3. ASSUME NEW t \in Senders, e \in Elements(send'[t].batch) PROVE Copies(e)' <= Posts(t)'
        <5>1. t # s /\ e \in Elements(send[t].batch)
          BY <1>4, <1>5, <3>2, <4>3
        <5>2. send'[t] = send[t] /\ Copies(e) <= Posts(t)
          BY <1>1, <1>4, <5>1 DEF CopyInv
        <5>3. Posts(t)' = Posts(t)
          BY <5>2 DEF Posts
        <5>4. QED BY <4>1, <5>2, <5>3
      <4>4. QED BY <4>1, <4>2, <4>3
    <3>3. QED BY <3>1, <3>2
  <2>5. \A t \in Senders : send'[t].attempt <= Retries
    BY <1>1, <1>4 DEF CopyInv
  <2>6. QED BY <2>1, <2>4, <2>5 DEF CopyInv
<1>13. PromiseInv'
  <2>1. closed => buffer' = <<>>
    BY <1>1, <1>4 DEF PromiseInv
  <2>2. QED BY <1>1, <1>4, <2>1, PromiseQuiet
<1>14. QED BY <1>9, <1>10, <1>11, <1>12, <1>13 DEF ClientInv

\* A step of the collector: what it refuses or fails to produce is counted, and it makes
\* no copies.
LEMMA CollectorKeeps ==
  ASSUME ClientInv, UNCHANGED <<opts, fate, buffer, send, closed, promise, link>>,
         CollTyped', \A g \in Requests : HandlerOk(g)',
         \A s \in Senders : link[s] # NoRequest => req'[link[s]].at # "idle",
         \A s \in Senders : TakenOver(s)' => TakenOver(s),
         NEW C, IsFiniteSet(C), NEW k \in Nat, Cardinality(C) <= k, CollectorLosses' = CollectorLosses + k,
         \A e \in Events \ C : topic'[e] = 0 /\ pending'[e] = 0 =>
           /\ topic[e] = 0 /\ pending[e] = 0
           /\ \A g \in Requests : e \in Elements(req[g].todo) => e \in Elements(req'[g].todo),
         \A g \in Requests : Distinct(req'[g].todo),
         \A e \in Events : Copies(e)' <= Copies(e)
  PROVE  ClientInv'
<1>1. /\ ClientShape /\ PlaceInv /\ DeliveryInv /\ CopyInv /\ PromiseInv /\ AppTyped /\ CollTyped
  BY DEF ClientInv, ClientShape
<1>2. ClientShape'
  BY <1>1, CollSide
<1>3. AppTyped'
  BY <1>2 DEF ClientShape
<1>4. PlaceInv'
  BY <1>1, PlacesStay
<1>5. DeliveryInv'
  <2>1. ASSUME NEW e \in Unwritten', e \notin C PROVE e \in Unwritten
    <3>1. e \in Events /\ topic'[e] = 0 /\ pending'[e] = 0 /\ DealtWith(e)'
      BY <2>1 DEF Unwritten
    <3>2. /\ topic[e] = 0 /\ pending[e] = 0
          /\ \A g \in Requests : e \in Elements(req[g].todo) => e \in Elements(req'[g].todo)
      BY <2>1, <3>1
    <3>3. CASE fate'[e] = "delivered"
      BY <3>1, <3>2, <3>3 DEF Unwritten, DealtWith
    <3>4. CASE \E s \in Senders : TakenOver(s)' /\ e \in Elements(send'[s].batch) /\ e \notin Elements(req'[link'[s]].todo)
      <4>1. PICK s \in Senders : TakenOver(s)' /\ e \in Elements(send'[s].batch) /\ e \notin Elements(req'[link'[s]].todo)
        BY <3>4
      <4>2. TakenOver(s) /\ link[s] \in Requests
        BY <1>1, <4>1, ClientFacts DEF TakenOver
      <4>3. e \in Elements(send[s].batch) /\ e \notin Elements(req[link[s]].todo)
        BY <3>2, <4>1, <4>2
      <4>4. QED BY <3>1, <3>2, <4>2, <4>3 DEF Unwritten, DealtWith
    <3>5. QED BY <3>1, <3>3, <3>4 DEF DealtWith
  <2>2. Unwritten' \subseteq Unwritten \cup C
    BY <2>1
  <2>3. CollectorLosses' >= CollectorLosses + k
    BY <1>1, MetTypes
  <2>4. QED BY <1>1, <2>2, <2>3, DeliveryKept
<1>6. CopyInv'
  <2>1. \A s \in Senders : send'[s].attempt <= Retries
    BY <1>1 DEF CopyInv
  <2>2. ASSUME NEW s \in Senders PROVE Posts(s)' >= Posts(s)
    <3>1. send[s].attempt \in Nat
      BY <1>1, SendTypes
    <3>2. QED BY <3>1 DEF Posts
  <2>3. QED BY <1>1, <1>3, <2>1, <2>2, CopyKept
<1>7. PromiseInv'
  BY <1>1 DEF PromiseInv
<1>8. QED BY <1>2, <1>4, <1>5, <1>6, <1>7 DEF ClientInv

\* A request loses the first of its events, which is then on its way, or counted.
LEMMA HeadLeaves ==
  ASSUME ClientInv, NEW h \in Requests, req[h].todo # <<>>, req'[h].todo = Tail(req[h].todo),
         \A g \in Requests : g # h => req'[g] = req[g]
  PROVE  \E x \in Events :
           /\ x = Head(req[h].todo)
           /\ Elements(req[h].todo) = {x} \cup Elements(req'[h].todo)
           /\ \A g \in Requests : Distinct(req'[g].todo)
           /\ Cardinality(Holders(x)') = Cardinality(Holders(x)) - 1
           /\ \A e : e # x => Holders(e)' = Holders(e)
<1>1. CollTyped /\ CopyInv
  BY DEF ClientInv, ClientShape
<1>2. PICK q \in Seq(Events) : q = req[h].todo
  BY <1>1, ReqTypes
<1>3. /\ Head(q) \in Events /\ Tail(q) \in Seq(Events) /\ Elements(q) = {Head(q)} \cup Elements(Tail(q))
      /\ Distinct(Tail(q)) /\ Head(q) \notin Elements(Tail(q))
  BY <1>1, <1>2, ElementsTail, DistinctTail DEF CopyInv
<1>4. PICK x \in Events : x = Head(q)
  BY <1>3
<1>5. \A g \in Requests : Distinct(req'[g].todo)
  BY <1>1, <1>2, <1>3 DEF CopyInv
<1>6. Cardinality(Holders(x)') = Cardinality(Holders(x)) - 1
  BY <1>2, <1>3, <1>4, HoldersChange
<1>7. \A e : e # x => Holders(e)' = Holders(e)
  BY <1>2, <1>3, <1>4, HoldersChange
<1>8. QED BY <1>2, <1>3, <1>4, <1>5, <1>6, <1>7

LEMMA HandlerKeeps == ASSUME ClientInv, NEW h \in Requests, Handles(h) PROVE ClientInv'
<1>1. /\ CollTyped /\ (\A g \in Requests : HandlerOk(g)) /\ CopyInv
      /\ Coll!Handler(h) /\ UNCHANGED <<opts, fate, buffer, send, closed, promise, link>>
  BY DEF Handles, BesideApp, appVars, ClientInv, ClientShape
<1>2. /\ CollTyped' /\ (\A g \in Requests : HandlerOk(g)')
      /\ req[h].at \in {"loop", "undo"}
      /\ req'[h].at \in {"loop", "undo"} \/ (req'[h].at = "done" /\ req'[h].status \in {200, 202, 422, 429})
      /\ \A g \in Requests : g # h => req'[g] = req[g]
  <2>1. CASE Coll!RejectInvalid(h) \/ Coll!Backpressure(h)
    BY <1>1, <2>1, RefusalDoes
  <2>2. CASE Coll!TryProduce(h)
    BY <1>1, <2>2, TryProduceDoes
  <2>3. CASE Coll!TryProduceFull(h)
    BY <1>1, <2>3, TryProduceFullDoes
  <2>4. CASE Coll!Respond(h)
    BY <1>1, <2>4, RespondDoes
  <2>5. QED BY <1>1, <2>1, <2>2, <2>3, <2>4 DEF Coll!Handler
<1>3. ASSUME NEW s \in Senders
      PROVE  (link[s] # NoRequest => req'[link[s]].at # "idle") /\ (TakenOver(s)' => TakenOver(s))
  <2>1. link[s] # NoRequest => link[s] \in Requests /\ req[link[s]].at # "idle"
    BY ClientFacts DEF ClientInv
  <2>2. CASE link[s] = h
    BY <1>1, <1>2, <2>2 DEF TakenOver
  <2>3. CASE link[s] # h
    BY <1>1, <1>2, <2>1, <2>3 DEF TakenOver
  <2>4. QED BY <2>2, <2>3
<1>4. PICK C : C = {}
  OBVIOUS
<1>5. IsFiniteSet(C) /\ Cardinality(C) <= 0
  BY <1>4, FS_EmptySet
<1>6. CollectorLosses \in Nat /\ pending \in [Events -> Nat]
  BY <1>1, MetTypes
<1>7. CASE Coll!RejectInvalid(h) \/ Coll!Backpressure(h)
  <2>1. /\ req[h].todo # <<>> /\ req'[h].todo = Tail(req[h].todo)
        /\ UNCHANGED <<pending, topic>> /\ CollectorLosses' = CollectorLosses + 1
    BY <1>1, <1>7, RefusalDoes
  <2>2. PICK x \in Events :
          /\ Elements(req[h].todo) = {x} \cup Elements(req'[h].todo)
          /\ \A g \in Requests : Distinct(req'[g].todo)
          /\ Cardinality(Holders(x)') = Cardinality(Holders(x)) - 1
          /\ \A e : e # x => Holders(e)' = Holders(e)
    BY <1>2, <2>1, HeadLeaves
  <2>3. PICK D : D = {x}
    OBVIOUS
  <2>4. IsFiniteSet(D) /\ Cardinality(D) <= 1
    <3>1. IsFiniteSet(D) /\ Cardinality(D) = 1
      BY <2>3, FS_Singleton
    <3>2. QED BY <3>1
  <2>5. ASSUME NEW e \in Events \ D, NEW g \in Requests, e \in Elements(req[g].todo) PROVE e \in Elements(req'[g].todo)
    BY <1>2, <2>2, <2>3, <2>5
  <2>6. ASSUME NEW e \in Events PROVE Copies(e)' <= Copies(e)
    <3>1. /\ topic[e] \in Nat /\ pending[e] \in Nat /\ Cardinality(Holders(e)) \in Nat
          /\ topic'[e] = topic[e] /\ pending'[e] = pending[e]
      BY <1>1, <2>1, CopiesNat, HoldersFinite
    <3>2. Cardinality(Holders(e)') = Cardinality(Holders(e)) \/ Cardinality(Holders(e)') = Cardinality(Holders(e)) - 1
      BY <2>2
    <3>3. QED BY <3>1, <3>2 DEF Copies
  <2>7. QED BY <1>1, <1>2, <1>3, <2>1, <2>2, <2>4, <2>5, <2>6, CollectorKeeps
<1>8. CASE Coll!TryProduce(h)
  <2>1. /\ req[h].todo # <<>> /\ req'[h].todo = Tail(req[h].todo)
        /\ topic' = topic /\ CollectorLosses' = CollectorLosses
        /\ pending' = [pending EXCEPT ![Head(req[h].todo)] = @ + 1]
    BY <1>1, <1>8, TryProduceDoes
  <2>2. PICK x \in Events :
          /\ x = Head(req[h].todo)
          /\ Elements(req[h].todo) = {x} \cup Elements(req'[h].todo)
          /\ \A g \in Requests : Distinct(req'[g].todo)
          /\ Cardinality(Holders(x)') = Cardinality(Holders(x)) - 1
          /\ \A e : e # x => Holders(e)' = Holders(e)
    BY <1>2, <2>1, HeadLeaves
  <2>3. pending'[x] = pending[x] + 1 /\ pending'[x] # 0 /\ \A d \in Events : d # x => pending'[d] = pending[d]
    <3>1. pending' = [pending EXCEPT ![x] = @ + 1]
      BY <2>1, <2>2
    <3>2. QED BY <1>6, <3>1
  <2>4. ASSUME NEW e \in Events, pending'[e] = 0
        PROVE  pending[e] = 0 /\ \A g \in Requests : e \in Elements(req[g].todo) => e \in Elements(req'[g].todo)
    BY <1>2, <2>2, <2>3, <2>4
  <2>5. CollectorLosses' = CollectorLosses + 0
    BY <1>6, <2>1
  <2>6. ASSUME NEW e \in Events PROVE Copies(e)' <= Copies(e)
    <3>1. topic[e] \in Nat /\ pending[e] \in Nat /\ Cardinality(Holders(e)) \in Nat /\ topic'[e] = topic[e]
      BY <1>1, <2>1, CopiesNat, HoldersFinite
    <3>2. \/ Cardinality(Holders(e)') = Cardinality(Holders(e)) /\ pending'[e] = pending[e]
          \/ Cardinality(Holders(e)') = Cardinality(Holders(e)) - 1 /\ pending'[e] = pending[e] + 1
      BY <2>2, <2>3
    <3>3. QED BY <3>1, <3>2 DEF Copies
  <2>7. QED BY <1>1, <1>2, <1>3, <1>5, <2>1, <2>2, <2>4, <2>5, <2>6, CollectorKeeps
<1>9. CASE Coll!TryProduceFull(h) \/ Coll!Respond(h)
  <2>1. req'[h].todo = req[h].todo /\ UNCHANGED <<pending, topic, met>>
    <3>1. CASE Coll!TryProduceFull(h)
      BY <1>1, <3>1, TryProduceFullDoes
    <3>2. CASE Coll!Respond(h)
      BY <1>1, <3>2, RespondDoes
    <3>3. QED BY <1>9, <3>1, <3>2
  <2>2. \A g \in Requests : req'[g].todo = req[g].todo
    BY <1>2, <2>1
  <2>3. CollectorLosses' = CollectorLosses + 0
    BY <1>6, <2>1 DEF CollectorLosses
  <2>4. ASSUME NEW e \in Events PROVE Copies(e)' <= Copies(e)
    <3>1. Copies(e)' = Copies(e)
      BY <2>1, <2>2, CopiesStay
    <3>2. QED BY <1>1, <3>1, CopiesNat
  <2>5. \A g \in Requests : Distinct(req'[g].todo)
    BY <1>1, <2>2 DEF CopyInv
  <2>6. QED BY <1>1, <1>2, <1>3, <1>5, <2>1, <2>2, <2>3, <2>4, <2>5, CollectorKeeps
<1>10. QED BY <1>1, <1>7, <1>8, <1>9 DEF Coll!Handler

\* A handler whose client is gone returns.
LEMMA DiscardKeeps == ASSUME ClientInv, NEW h \in Requests, AnswerDiscarded(h) PROVE ClientInv'
<1>1. /\ CollTyped /\ (\A g \in Requests : HandlerOk(g)) /\ CopyInv
      /\ Coll!Return(h) /\ UNCHANGED <<opts, fate, buffer, send, closed, promise, link>>
      /\ \A s \in Senders : link[s] # h
  BY DEF AnswerDiscarded, BesideApp, appVars, ClientInv, ClientShape, Senders
<1>2. /\ CollTyped' /\ (\A g \in Requests : HandlerOk(g)')
      /\ req[h].todo = <<>> /\ req'[h].todo = <<>>
      /\ \A g \in Requests : g # h => req'[g] = req[g]
      /\ UNCHANGED <<inflight, pending, topic, met>>
  BY <1>1, ReturnDoes
<1>3. ASSUME NEW s \in Senders
      PROVE  (link[s] # NoRequest => req'[link[s]].at # "idle") /\ (TakenOver(s)' => TakenOver(s))
  <2>1. link[s] # NoRequest => link[s] \in Requests /\ req[link[s]].at # "idle" /\ req'[link[s]] = req[link[s]]
    BY <1>1, <1>2, ClientFacts DEF ClientInv
  <2>2. QED BY <1>1, <2>1 DEF TakenOver
<1>4. PICK C : C = {}
  OBVIOUS
<1>5. IsFiniteSet(C) /\ Cardinality(C) <= 0
  BY <1>4, FS_EmptySet
<1>6. \A g \in Requests : req'[g].todo = req[g].todo
  BY <1>2
<1>7. CollectorLosses' = CollectorLosses + 0
  BY <1>1, <1>2, MetTypes DEF CollectorLosses
<1>8. ASSUME NEW e \in Events PROVE Copies(e)' <= Copies(e)
  <2>1. Copies(e)' = Copies(e)
    BY <1>2, <1>6, CopiesStay
  <2>2. QED BY <1>1, <2>1, CopiesNat
<1>9. \A g \in Requests : Distinct(req'[g].todo)
  BY <1>1, <1>6 DEF CopyInv
<1>10. QED BY <1>1, <1>2, <1>3, <1>5, <1>6, <1>7, <1>8, <1>9, CollectorKeeps

\* The produce callback.
LEMMA SettleKeeps == ASSUME ClientInv, NEW x \in Events, Settled(x) PROVE ClientInv'
<1>1. /\ CollTyped /\ (\A g \in Requests : HandlerOk(g)) /\ CopyInv
      /\ Coll!Settle(x) /\ UNCHANGED <<opts, fate, buffer, send, closed, promise, link>>
  BY DEF Settled, BesideApp, appVars, ClientInv, ClientShape
<1>2. /\ CollTyped' /\ UNCHANGED req
      /\ pending[x] > 0 /\ pending' = [pending EXCEPT ![x] = @ - 1]
      /\ \A d \in Events : topic'[d] >= topic[d] /\ (d # x => topic'[d] = topic[d] /\ pending'[d] = pending[d])
      /\ topic'[x] <= topic[x] + 1
      /\ \/ topic'[x] > 0 /\ CollectorLosses' = CollectorLosses
         \/ CollectorLosses' = CollectorLosses + 1
  BY <1>1, SettleDoes
<1>3. \A g \in Requests : HandlerOk(g)' /\ Distinct(req'[g].todo)
  BY <1>1, <1>2 DEF HandlerOk, CopyInv
<1>4. ASSUME NEW s \in Senders
      PROVE  (link[s] # NoRequest => req'[link[s]].at # "idle") /\ (TakenOver(s)' => TakenOver(s))
  <2>1. link[s] # NoRequest => req[link[s]].at # "idle"
    BY ClientFacts DEF ClientInv
  <2>2. QED BY <1>1, <1>2, <2>1 DEF TakenOver
<1>5. ASSUME NEW e \in Events PROVE Copies(e)' <= Copies(e)
  <2>1. /\ topic[e] \in Nat /\ pending[e] \in Nat /\ topic'[e] \in Nat /\ pending'[e] \in Nat
        /\ Cardinality(Holders(e)) \in Nat /\ Holders(e)' = Holders(e)
    BY <1>1, <1>2, CopiesNat, CopiesNatNext, HoldersFinite DEF Holders
  <2>2. topic'[e] + pending'[e] <= topic[e] + pending[e]
    <3>1. CASE e = x
      <4>1. pending'[x] = pending[x] - 1
        BY <1>1, <1>2, MetTypes
      <4>2. QED BY <1>2, <2>1, <3>1, <4>1
    <3>2. CASE e # x
      BY <1>2, <2>1, <3>2
    <3>3. QED BY <3>1, <3>2
  <2>3. QED BY <2>1, <2>2 DEF Copies
<1>6. CollectorLosses \in Nat /\ topic \in [Events -> Nat]
  BY <1>1, MetTypes
<1>7. CASE topic'[x] > 0 /\ CollectorLosses' = CollectorLosses
  <2>1. PICK C : C = {}
    OBVIOUS
  <2>2. IsFiniteSet(C) /\ Cardinality(C) <= 0
    BY <2>1, FS_EmptySet
  <2>3. CollectorLosses' = CollectorLosses + 0
    BY <1>6, <1>7
  <2>4. ASSUME NEW e \in Events, topic'[e] = 0, pending'[e] = 0 PROVE topic[e] = 0 /\ pending[e] = 0
    BY <1>2, <1>6, <1>7, <2>4
  <2>5. QED BY <1>1, <1>2, <1>3, <1>4, <1>5, <2>2, <2>3, <2>4, CollectorKeeps
<1>8. CASE CollectorLosses' = CollectorLosses + 1
  <2>1. PICK C : C = {x}
    OBVIOUS
  <2>2. IsFiniteSet(C) /\ Cardinality(C) <= 1
    <3>1. IsFiniteSet(C) /\ Cardinality(C) = 1
      BY <2>1, FS_Singleton
    <3>2. QED BY <3>1
  <2>3. ASSUME NEW e \in Events \ C, topic'[e] = 0, pending'[e] = 0 PROVE topic[e] = 0 /\ pending[e] = 0
    BY <1>2, <2>1, <2>3
  <2>4. QED BY <1>1, <1>2, <1>3, <1>4, <1>5, <1>8, <2>2, <2>3, CollectorKeeps
<1>9. QED BY <1>2, <1>7, <1>8

LEMMA ClientInit == SdkInit => ClientInv
<1> SUFFICES ASSUME SdkInit PROVE ClientInv
  OBVIOUS
<1>1. /\ opts \in [failOpen : BOOLEAN, script : BOOLEAN]
      /\ fate = [e \in Events |-> "new"]
      /\ buffer = <<>> /\ send = [s \in Senders |-> App!Idle]
      /\ closed = FALSE /\ promise = [w \in {"flush", "shutdown"} |-> "none"]
      /\ link = [s \in Senders |-> NoRequest]
  BY DEF SdkInit, App!Init, App!Callers, Senders
<1>2. /\ req = [h \in Requests |-> Coll!NoHandler]
      /\ inflight = 0 /\ pending = [e \in Events |-> 0] /\ topic = [e \in Events |-> 0]
      /\ met = [accepted |-> 0, bad |-> 0, busy |-> 0, produced |-> 0, failed |-> 0]
  BY DEF SdkInit, Init, Coll!Init, Coll!NoHandler, Events
<1>3. AppTyped
  <2>1. /\ fate \in [Events -> Fates] /\ send \in [Senders -> Sendings]
        /\ promise \in [{"flush", "shutdown"} -> {"none", "pending", "resolved", "rejected"}]
    BY <1>1, IdleTyped DEF Fates
  <2>2. buffer \in Seq(Events) /\ closed \in BOOLEAN
    <3>1. buffer = <<>> /\ <<>> \in Seq(Events)
      BY <1>1
    <3>2. QED BY <1>1, <3>1
  <2>3. opts \in [failOpen : BOOLEAN, script : BOOLEAN]
    BY <1>1
  <2>4. QED BY <2>1, <2>2, <2>3 DEF AppTyped
<1>4. /\ Coll!NoHandler \in Handlers /\ Coll!NoHandler.at = "idle" /\ Coll!NoHandler.todo = <<>>
  <2>1. <<>> \in Seq(Events)
    OBVIOUS
  <2>2. QED BY <2>1 DEF Coll!NoHandler, Handlers
<1>5. CollTyped /\ (\A h \in Requests : HandlerOk(h)) /\ \A h \in Requests : req[h].todo = <<>>
  BY <1>2, <1>4 DEF CollTyped, HandlerOk
<1>6. LinkOk
  BY <1>1 DEF LinkOk
<1>7. \A s \in Senders : send[s].batch = <<>> /\ send[s].attempt = 0 /\ send[s].who = "timer" /\ link[s] = NoRequest
  BY <1>1, IdleTyped
<1>8. PlaceInv
  BY <1>1, <1>7, DistinctEmpty, ElementsEmpty DEF PlaceInv
<1>9. DeliveryInv
  <2>1. Unwritten = {}
    BY <1>1, <1>7, ElementsEmpty DEF Unwritten, DealtWith
  <2>2. Cardinality(Unwritten) = 0
    BY <2>1, FS_EmptySet
  <2>3. QED BY <1>5, <2>2, MetTypes DEF DeliveryInv
<1>10. CopyInv
  <2>1. ASSUME NEW e \in Events PROVE Copies(e) = 0
    <3>1. Holders(e) = {}
      BY <1>5, ElementsEmpty DEF Holders
    <3>2. Cardinality(Holders(e)) = 0
      BY <3>1, FS_EmptySet
    <3>3. QED BY <1>2, <3>2 DEF Copies
  <2>2. ASSUME NEW s \in Senders PROVE send[s].attempt <= Retries
    BY <1>7, Sizes
  <2>3. QED BY <1>5, <1>7, <2>1, <2>2, Sizes, DistinctEmpty, ElementsEmpty DEF CopyInv
<1>11. PromiseInv
  BY <1>1, <1>7 DEF PromiseInv
<1>12. QED BY <1>3, <1>5, <1>6, <1>8, <1>9, <1>10, <1>11 DEF ClientInv, ClientShape

LEMMA ClientStep == ClientInv /\ [SdkNext]_sdkVars => ClientInv'
<1> SUFFICES ASSUME ClientInv, [SdkNext]_sdkVars PROVE ClientInv'
  OBVIOUS
<1>1. CASE \E e \in Events : Trace(e) \/ Settled(e)
  BY <1>1, TraceKeeps, SettleKeeps
<1>2. CASE Flush \/ Shutdown \/ Exit \/ Tick
  BY <1>2, FlushCallKeeps, ShutdownKeeps, ExitKeeps, TickKeeps
<1>3. CASE \E s \in Senders : Retry(s) \/ SendLost(s)
  BY <1>3, AttemptKeeps
<1>4. CASE \E s \in Senders : SendArrives(s)
  BY <1>4, PostKeeps
<1>5. CASE \E s \in Senders : AnswerArrives(s)
  BY <1>5, AnswerKeeps
<1>6. CASE \E s \in Senders : GivesUp(s) \/ ProxyAnswers(s)
  BY <1>6, NoAnswerKeeps
<1>7. CASE \E h \in Requests : Handles(h) \/ AnswerDiscarded(h)
  BY <1>7, HandlerKeeps, DiscardKeeps
<1>8. CASE UNCHANGED sdkVars
  <2>1. /\ UNCHANGED <<opts, fate, buffer, send, closed, promise>>
        /\ UNCHANGED <<req, inflight, pending, topic, met, link>>
    BY <1>8 DEF sdkVars, appVars, collVars
  <2>2. /\ closed' \in BOOLEAN
        /\ promise' \in [{"flush", "shutdown"} -> {"none", "pending", "resolved", "rejected"}]
    BY <2>1 DEF ClientInv, ClientShape, AppTyped
  <2>3. ClientShape' /\ PlaceInv' /\ DeliveryInv' /\ CopyInv'
    BY <2>1, <2>2, NothingSent
  <2>4. PromiseInv'
    BY <2>1 DEF ClientInv, PromiseInv
  <2>5. QED BY <2>3, <2>4 DEF ClientInv
<1>9. QED
  BY <1>1, <1>2, <1>3, <1>4, <1>5, <1>6, <1>7, <1>8 DEF SdkNext, ByItself, Senders

\* However flushes, timers and retries of index.ts overlap, an event the SDK took is in the
\* buffer or in one send until its send settles it; what was delivered is in the topic or on
\* its way there, or counted by the collector as lost, one by one; the topic has no more
\* copies of an event than it was posted; and a shutdown that resolves fail-closed lost
\* nothing itself.
THEOREM TracesAreAccounted == SdkSpec => []TracesAccounted
<1>1. ClientInv => TracesAccounted
  <2> SUFFICES ASSUME ClientInv PROVE TracesAccounted
    OBVIOUS
  <2>1. /\ PlaceInv /\ DeliveryInv /\ CopyInv /\ PromiseInv /\ AppTyped /\ CollTyped
    BY DEF ClientInv, ClientShape
  <2>2. \A e : Carrying(e) = {s \in Senders : e \in Elements(send[s].batch)}
    BY DEF Carrying, Senders, Elements
  <2>3. ASSUME NEW e \in Events
        PROVE  /\ (fate[e] = "taken") = (e \in Elements(buffer) \/ Carrying(e) # {})
               /\ Cardinality(Carrying(e)) <= (IF e \in Elements(buffer) THEN 0 ELSE 1)
    <3>1. fate[e] = "taken" <=> e \in Elements(buffer) \/ Carrying(e) # {}
      BY <2>1, <2>2 DEF PlaceInv
    <3>2. CASE Carrying(e) = {}
      <4>1. Cardinality(Carrying(e)) = 0
        BY <3>2, FS_EmptySet
      <4>2. QED BY <3>1, <4>1
    <3>3. CASE Carrying(e) # {}
      <4>1. PICK s \in Senders : e \in Elements(send[s].batch)
        BY <2>2, <3>3
      <4>2. e \notin Elements(buffer) /\ \A t \in Senders : e \in Elements(send[t].batch) => t = s
        BY <2>1, <4>1 DEF PlaceInv
      <4>3. Carrying(e) = {s}
        BY <2>2, <4>1, <4>2
      <4>4. Cardinality(Carrying(e)) = 1
        BY <4>3, FS_Singleton
      <4>5. QED BY <3>1, <4>2, <4>4
    <3>4. QED BY <3>2, <3>3
  <2>4. Cardinality({e \in Events : fate[e] = "delivered" /\ ~ InTopicOrPending(e)}) <= met.bad + met.busy + met.failed
    <3> DEFINE Gone == {e \in Events : fate[e] = "delivered" /\ ~ InTopicOrPending(e)}
    <3>1. Gone \subseteq Unwritten
      <4>1. ASSUME NEW e \in Events, ~ InTopicOrPending(e) PROVE topic[e] = 0 /\ pending[e] = 0
        <5>1. topic[e] \in Nat /\ pending[e] \in Nat /\ ~ (topic[e] > 0) /\ ~ (pending[e] > 0)
          BY <2>1, <4>1, CopiesNat DEF InTopicOrPending
        <5>2. QED BY <5>1
      <4>2. QED BY <4>1 DEF Unwritten, DealtWith
    <3>2. IsFiniteSet(Unwritten)
      <4>1. Unwritten \subseteq Events
        BY DEF Unwritten
      <4>2. QED BY <4>1, EventsFinite, FS_Subset
    <3> HIDE DEF Gone
    <3>3. /\ Cardinality(Gone) <= Cardinality(Unwritten)
          /\ Cardinality(Gone) \in Nat /\ Cardinality(Unwritten) \in Nat
      BY <3>1, <3>2, FS_Subset, FS_CardinalityType
    <3>4. CollectorLosses \in Nat /\ CollectorLosses = met.bad + met.busy + met.failed /\ Cardinality(Unwritten) <= CollectorLosses
      BY <2>1, MetTypes DEF DeliveryInv
    <3>5. Cardinality(Gone) <= met.bad + met.busy + met.failed
      BY <3>3, <3>4
    <3>6. QED BY <3>5 DEF Gone
  <2>5. ASSUME NEW e \in Events PROVE topic[e] + pending[e] <= Retries + 1
    <3>1. /\ Copies(e) <= Retries + 1 /\ Copies(e) = topic[e] + pending[e] + Cardinality(Holders(e))
          /\ topic[e] \in Nat /\ pending[e] \in Nat /\ Cardinality(Holders(e)) \in Nat
      BY <2>1, CopiesNat, HoldersFinite DEF CopyInv, Copies
    <3>2. QED BY <3>1, Sizes
  <2>6. ASSUME promise["shutdown"] = "resolved", ~ opts.failOpen, NEW e \in Events
        PROVE  /\ fate[e] # "dropped by shutdown" /\ e \notin Elements(buffer)
               /\ \A s \in Carrying(e) : send[s].who # "shutdown"
    <3>1. fate[e] # "dropped by shutdown" /\ buffer = <<>> /\ \A s \in Senders : send[s].who # "shutdown"
      BY <2>1, <2>6 DEF PromiseInv
    <3>2. QED BY <2>2, <3>1, ElementsEmpty
  <2>7. promise["shutdown"] = "resolved" /\ ~ opts.failOpen =>
          \A e \in Events : /\ fate[e] # "dropped by shutdown" /\ e \notin Elements(buffer)
                           /\ \A s \in Carrying(e) : send[s].who # "shutdown"
    BY <2>6
  <2>8. QED BY <2>3, <2>4, <2>5, <2>7 DEF TracesAccounted, CollectorLosses, Elements
<1>2. QED BY <1>1, ClientInit, ClientStep, PTL DEF SdkSpec
=============================================================================
