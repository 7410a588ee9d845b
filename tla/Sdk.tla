--------------------------------- MODULE Sdk ---------------------------------
(***************************************************************************)
(* packages/sdk-typescript: the client an instrumented application traces  *)
(* its agents with.  Events are pushed to a buffer; a timer, a full buffer *)
(* or the application takes the whole buffer and sends it as one request,  *)
(* tried again when it fails.  Code between two awaits runs undisturbed,   *)
(* and a send does not wait for those before it.  Nothing but requests in  *)
(* progress keeps a Node process alive: the timers are unref'd.            *)
(***************************************************************************)
EXTENDS Integers, Sequences

CONSTANTS
  Events,       \* the events the application emits, one call each
  MaxBatch,     \* maxBatch
  MaxRetries,   \* maxRetries
  MaxSends      \* bound on sends under way at a time

VARIABLES
  opts,      \* [failOpen, script]: the option, and whether the process ends by itself
  fate,      \* of each event: where it got to
  buffer,    \* LedgerAI.buffer
  send,      \* the sends under way
  closed,    \* LedgerAI.closed
  promise,   \* what the application's last flush and its shutdown came to
  exited     \* the process is gone

vars == <<opts, fate, buffer, send, closed, promise, exited>>

Sends == 1..MaxSends
Callers == {"flush", "shutdown"}   \* who awaits a send; "timer": nobody does
DroppedBy == [timer |-> "dropped by timer", flush |-> "dropped by flush", shutdown |-> "dropped by shutdown"]

Idle == [at |-> "idle", who |-> "timer", batch |-> <<>>, attempt |-> 0]

TypeOK ==
  /\ opts \in [failOpen : BOOLEAN, script : BOOLEAN]
  /\ fate \in [Events -> {"new", "refused", "taken", "delivered"} \union {DroppedBy[w] : w \in DOMAIN DroppedBy}]
  /\ buffer \in Seq(Events) /\ Len(buffer) < MaxBatch
  /\ \A s \in Sends : /\ send[s].at \in {"idle", "post", "wait", "delay"} /\ send[s].who \in Callers \union {"timer"}
                      /\ send[s].batch \in Seq(Events) /\ send[s].attempt \in 0..MaxRetries
  /\ closed \in BOOLEAN /\ exited \in BOOLEAN
  /\ promise \in [Callers -> {"none", "pending", "resolved", "rejected"}]

Init ==
  /\ opts \in [failOpen : BOOLEAN, script : BOOLEAN]
  /\ fate = [e \in Events |-> "new"]
  /\ buffer = <<>> /\ send = [s \in Sends |-> Idle]
  /\ closed = FALSE /\ exited = FALSE
  /\ promise = [w \in Callers |-> "none"]
-----------------------------------------------------------------------------
Free == {s \in Sends : send[s].at = "idle"}

\* Mutant: the buffer is emptied when the send is over.
StartUnspliced(events, who) ==
  /\ Free # {}
  /\ LET s == CHOOSE f \in Free : \A g \in Free : f <= g
     IN send' = [send EXCEPT ![s] = [at |-> "post", who |-> who, batch |-> events, attempt |-> 0]]
  /\ buffer' = buffer

\* flush: the whole buffer becomes a batch, and send makes its first request.
Start(events, who) ==
  /\ Free # {}
  /\ LET s == CHOOSE f \in Free : \A g \in Free : f <= g
     IN send' = [send EXCEPT ![s] = [at |-> "post", who |-> who, batch |-> events, attempt |-> 0]]
  /\ buffer' = <<>>

\* enqueue: after shutdown an event is only logged; a full buffer is flushed.
Enqueue(e) ==
  /\ ~ exited /\ fate[e] = "new"
  /\ fate' = [fate EXCEPT ![e] = IF closed THEN "refused" ELSE "taken"]
  /\ IF closed THEN UNCHANGED <<buffer, send>>
     ELSE IF Len(buffer) + 1 >= MaxBatch THEN Start(Append(buffer, e), "timer")
     ELSE buffer' = Append(buffer, e) /\ UNCHANGED send
  /\ UNCHANGED <<opts, closed, promise, exited>>

\* autoFlush, by the timer, which does not look at the sends under way.
Tick ==
  /\ ~ exited /\ ~ closed /\ buffer # <<>>
  /\ Start(buffer, "timer")
  /\ UNCHANGED <<opts, fate, closed, promise, exited>>

\* flush, awaited: it returns at once when nothing is buffered.
FlushFor(who) ==
  IF buffer = <<>> THEN promise' = [promise EXCEPT ![who] = "resolved"] /\ UNCHANGED <<buffer, send>>
  ELSE promise' = [promise EXCEPT ![who] = "pending"] /\ Start(buffer, who)

Flush ==
  /\ ~ exited /\ promise["flush"] # "pending"
  /\ FlushFor("flush")
  /\ UNCHANGED <<opts, fate, closed, exited>>

Shutdown ==
  /\ ~ exited /\ ~ closed
  /\ closed' = TRUE
  /\ FlushFor("shutdown")
  /\ UNCHANGED <<opts, fate, exited>>
-----------------------------------------------------------------------------
(***************************************************************************)
(* send.                                                                   *)
(***************************************************************************)
Post(s) ==
  /\ send[s].at = "post"
  /\ send' = [send EXCEPT ![s].at = "wait"]
  /\ UNCHANGED <<opts, fate, buffer, closed, promise, exited>>

\* The promise of send settles, and with it that of the flush that awaits it.
Settle(s, outcome) ==
  /\ send' = [send EXCEPT ![s] = Idle]
  /\ fate' = [e \in Events |-> IF \E i \in DOMAIN send[s].batch : send[s].batch[i] = e
                               THEN (IF outcome = "sent" THEN "delivered" ELSE DroppedBy[send[s].who]) ELSE fate[e]]
  /\ promise' = [w \in Callers |-> IF w # send[s].who THEN promise[w]
                                   ELSE IF outcome = "sent" \/ opts.failOpen THEN "resolved" ELSE "rejected"]

\* Mutant: the last retry is followed by another.
FailsForever(s) ==
  /\ send' = [send EXCEPT ![s].at = "delay"]
  /\ UNCHANGED <<fate, promise>>

\* Any failure is tried again: an answer in the 400s is thrown where the loop catches it.
Fails(s) ==
  IF send[s].attempt < MaxRetries
  THEN send' = [send EXCEPT ![s].at = "delay", ![s].attempt = @ + 1] /\ UNCHANGED <<fate, promise>>
  ELSE Settle(s, "failed")

Reply(s, status) ==
  /\ send[s].at = "wait"
  /\ IF status \in 200..299 THEN Settle(s, "sent") ELSE Fails(s)
  /\ UNCHANGED <<opts, buffer, closed, exited>>

\* A transport error, or the abort after timeoutMs.
NoReply(s) ==
  /\ send[s].at = "wait"
  /\ Fails(s)
  /\ UNCHANGED <<opts, buffer, closed, exited>>

\* delay is over.
Retry(s) ==
  /\ ~ exited /\ send[s].at = "delay"
  /\ send' = [send EXCEPT ![s].at = "post"]
  /\ UNCHANGED <<opts, fate, buffer, closed, promise, exited>>

\* A script ends when its code has: nothing waits for the flush timer or for a delay.
Exit ==
  /\ opts.script /\ ~ exited
  /\ \A s \in Sends : send[s].at \in {"idle", "delay"}
  /\ exited' = TRUE
  /\ UNCHANGED <<opts, fate, buffer, send, closed, promise>>
=============================================================================
