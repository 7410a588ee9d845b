------------------------------ MODULE EventSink ------------------------------
(***************************************************************************)
(* gateway/events.go: the buffered sink between the request handlers and   *)
(* the collector.  Handlers call Emit concurrently; one goroutine (run)    *)
(* drains the channel into a batch and flushes it, by HTTP with retries or *)
(* to a file.  main closes the sink after http.Server.Shutdown, which      *)
(* gives up after 15 s: handlers may still be running when it does.        *)
(***************************************************************************)
EXTENDS Integers, Sequences, FiniteSets

CONSTANTS
  Events,       \* the events the handlers offer, one Emit call each
  BufferSize,   \* capacity of the channel
  BatchMax,     \* events per flush (256 in the code)
  Retries       \* extra HTTP attempts

VARIABLES
  cfg,       \* EventSinkCfg: [strict, spoolDir, http]
  emit,      \* where each Emit call is
  ch,        \* EventSink.ch
  open,      \* FALSE once Close has closed the channel
  batch,     \* run's batch
  loop,      \* run: "select", "post" (about to try), "wait" (request sent), "stopped"
  attempt,   \* flushHTTP's attempt
  count,     \* the counters emitted, dropped, flushErrors, flushRejected
  spool,     \* events in spool files
  sent       \* history: events whose flush returned nil

queue == <<ch, open>>
flusher == <<batch, loop, attempt>>
vars == <<cfg, emit, queue, flusher, count, spool, sent>>

Range(s) == {s[i] : i \in DOMAIN s}

TypeOK ==
  /\ cfg \in [strict : BOOLEAN, spoolDir : BOOLEAN, http : BOOLEAN]
  /\ emit \in [Events -> {"new", "blocked", "accepted", "dropped", "panicked"}]
  /\ ch \in Seq(Events) /\ Len(ch) <= BufferSize
  /\ open \in BOOLEAN
  /\ batch \in Seq(Events) /\ Len(batch) <= BatchMax
  /\ loop \in {"select", "post", "wait", "stopped"}
  /\ attempt \in 0..Retries
  /\ count \in [emitted : Nat, dropped : Nat, flushErrors : Nat, flushRejected : Nat]
  /\ spool \subseteq Events /\ sent \subseteq Events

Init ==
  /\ cfg \in [strict : BOOLEAN, spoolDir : BOOLEAN, http : BOOLEAN]
  /\ emit = [e \in Events |-> "new"]
  /\ ch = <<>> /\ open = TRUE
  /\ batch = <<>> /\ loop = "select" /\ attempt = 0
  /\ count = [emitted |-> 0, dropped |-> 0, flushErrors |-> 0, flushRejected |-> 0]
  /\ spool = {} /\ sent = {}
-----------------------------------------------------------------------------
(***************************************************************************)
(* Emit, called by a request handler.                                      *)
(***************************************************************************)
Full == Len(ch) >= BufferSize

EmitAccept(e) ==
  /\ emit[e] \in {"new", "blocked"} /\ open /\ ~ Full
  /\ emit' = [emit EXCEPT ![e] = "accepted"]
  /\ ch' = Append(ch, e)
  /\ count' = [count EXCEPT !.emitted = @ + 1]
  /\ UNCHANGED <<cfg, open, flusher, spool, sent>>

Drop(e) ==
  /\ emit' = [emit EXCEPT ![e] = "dropped"]
  /\ count' = [count EXCEPT !.dropped = @ + 1]
  /\ UNCHANGED <<cfg, queue, flusher, spool, sent>>

\* Observe-only mode: a full buffer drops at once.
EmitDrop(e) == emit[e] = "new" /\ open /\ ~ cfg.strict /\ Full /\ Drop(e)

\* Strict mode: wait for room, at most strictEnqueueWait.
EmitBlock(e) ==
  /\ emit[e] = "new" /\ open /\ cfg.strict /\ Full
  /\ emit' = [emit EXCEPT ![e] = "blocked"]
  /\ UNCHANGED <<cfg, queue, flusher, count, spool, sent>>

EmitTimeout(e) == emit[e] = "blocked" /\ Drop(e)

\* A send on the closed channel panics; net/http recovers the handler.
EmitPanic(e) ==
  /\ emit[e] \in {"new", "blocked"} /\ ~ open
  /\ emit' = [emit EXCEPT ![e] = "panicked"]
  /\ UNCHANGED <<cfg, queue, flusher, count, spool, sent>>

\* main, after Shutdown returned or timed out.
Close ==
  /\ open /\ open' = FALSE
  /\ UNCHANGED <<cfg, emit, ch, flusher, count, spool, sent>>
-----------------------------------------------------------------------------
(***************************************************************************)
(* run and flush.                                                          *)
(***************************************************************************)
RunReceive ==
  /\ loop = "select" /\ ch # <<>>
  /\ ch' = Tail(ch)
  /\ batch' = Append(batch, Head(ch))
  /\ loop' = IF Len(batch') >= BatchMax THEN "post" ELSE "select"
  /\ UNCHANGED <<cfg, emit, open, attempt, count, spool, sent>>

\* Mutant: only a full batch is flushed.
RunTickFullOnly ==
  /\ loop = "select" /\ Len(batch) >= BatchMax
  /\ loop' = "post"
  /\ UNCHANGED <<cfg, emit, queue, batch, attempt, count, spool, sent>>

RunTick ==
  /\ loop = "select" /\ batch # <<>>
  /\ loop' = "post"
  /\ UNCHANGED <<cfg, emit, queue, batch, attempt, count, spool, sent>>

\* The channel is closed and empty: a last flush, then return.
RunDrained ==
  /\ loop = "select" /\ ~ open /\ ch = <<>>
  /\ loop' = IF batch = <<>> THEN "stopped" ELSE "post"
  /\ UNCHANGED <<cfg, emit, queue, batch, attempt, count, spool, sent>>

\* flush returns to the loop; the batch is reused.
FlushReturns == batch' = <<>> /\ loop' = "select" /\ attempt' = 0

FlushSucceeds ==
  /\ FlushReturns
  /\ sent' = sent \cup Range(batch)
  /\ UNCHANGED <<cfg, emit, queue, count, spool>>

\* Mutant: the spool replaces the counters.
FlushFailsUncounted(counter) ==
  /\ FlushReturns
  /\ count' = IF cfg.spoolDir THEN count ELSE [count EXCEPT ![counter] = @ + 1]
  /\ spool' \in {spool} \cup (IF cfg.spoolDir THEN {spool \cup Range(batch)} ELSE {})
  /\ UNCHANGED <<cfg, emit, queue, sent>>

\* The failed batch is counted once and spooled when a directory is configured;
\* opening or writing the spool file may fail, which is only logged.
FlushFails(counter) ==
  /\ FlushReturns
  /\ count' = [count EXCEPT ![counter] = @ + 1]
  /\ spool' \in {spool} \cup (IF cfg.spoolDir THEN {spool \cup Range(batch)} ELSE {})
  /\ UNCHANGED <<cfg, emit, queue, sent>>

FlushFile ==
  /\ loop = "post" /\ ~ cfg.http
  /\ FlushSucceeds \/ FlushFails("flushErrors")

\* flushHTTP sends the request of this attempt.
Post ==
  /\ loop = "post" /\ cfg.http
  /\ loop' = "wait"
  /\ UNCHANGED <<cfg, emit, queue, batch, attempt, count, spool, sent>>

\* Mutant: retries are not counted.
RetriesForever ==
  /\ loop' = "post"
  /\ UNCHANGED <<cfg, emit, queue, batch, attempt, count, spool, sent>>

Retry ==
  /\ loop' = "post" /\ attempt' = attempt + 1
  /\ UNCHANGED <<cfg, emit, queue, batch, count, spool, sent>>

\* The collector answered: 2xx ends the flush, 5xx is retried, the rest is a rejection.
Reply(status) ==
  /\ loop = "wait"
  /\ \/ status \in 200..299 /\ FlushSucceeds
     \/ status >= 500 /\ attempt < Retries /\ Retry
     \/ /\ status \notin 200..299 /\ ~ (status >= 500 /\ attempt < Retries)
        /\ FlushFails("flushRejected")

\* Mutant: giving up is reported as success.
NoReplyIsSuccess ==
  /\ loop = "wait"
  /\ IF attempt < Retries THEN Retry ELSE FlushSucceeds

\* The client saw a transport error or its timeout.
NoReply ==
  /\ loop = "wait"
  /\ IF attempt < Retries THEN Retry ELSE FlushFails("flushErrors")

Handlers(e) == EmitAccept(e) \/ EmitDrop(e) \/ EmitBlock(e) \/ EmitTimeout(e) \/ EmitPanic(e)
=============================================================================
