------------------------------- MODULE SdkPath -------------------------------
(***************************************************************************)
(* An application with the SDK in place of the gateway, and the collector  *)
(* of EventPath: each attempt of a send becomes a request at the collector *)
(* or is lost on the way, and the collector may still be at work on it     *)
(* when the SDK has given up and tried again, or when a later send         *)
(* overtakes it.  The gateway emits nothing, and nobody exports spans: an  *)
(* event of either kind is one the application emits.                      *)
(***************************************************************************)
EXTENDS EventPath

CONSTANTS
  SdkBatch,     \* maxBatch of the SDK
  MaxSends      \* as in Sdk

ASSUME SdkAssumption == MaxSends \in Nat

VARIABLES
  opts, fate, buffer, send, closed, promise, exited,   \* Sdk
  link       \* the collector request that carries the current attempt of each send

Events == Calls \cup Spans

App == INSTANCE Sdk WITH MaxBatch <- SdkBatch, MaxRetries <- Retries

appVars == <<opts, fate, buffer, send, closed, promise, exited>>
gatewayVars == <<sinkVars, conn, exported>>
sdkVars == <<appVars, collVars, link, gatewayVars>>

SdkTypeOK == TypeOK /\ App!TypeOK /\ link \in [App!Sends -> Requests \union {NoRequest}]

SdkInit == Init /\ App!Init /\ link = [s \in App!Sends |-> NoRequest]
-----------------------------------------------------------------------------
AppOnly == UNCHANGED <<collVars, link, gatewayVars>>
BesideApp == UNCHANGED <<appVars, link, gatewayVars>>
Connected(s, h) == link' = [link EXCEPT ![s] = h] /\ UNCHANGED gatewayVars

Trace(e) == App!Enqueue(e) /\ AppOnly
Flush == App!Flush /\ AppOnly
Shutdown == App!Shutdown /\ AppOnly
Exit == App!Exit /\ AppOnly
Tick == App!Tick /\ AppOnly
Retry(s) == App!Retry(s) /\ AppOnly

SendArrives(s) ==
  \E h \in Requests : App!Post(s) /\ Coll!Accept(h, "events", send[s].batch) /\ Connected(s, h)

SendLost(s) == App!Post(s) /\ AppOnly

\* The response arrives in time.
AnswerArrives(s) ==
  /\ link[s] # NoRequest /\ req[link[s]].at = "done"
  /\ App!Reply(s, req[link[s]].status) /\ Coll!Return(link[s])
  /\ Connected(s, NoRequest)

\* A proxy in front of an unreachable collector answers in its place.
ProxyAnswers(s) == link[s] = NoRequest /\ App!Reply(s, 503) /\ AppOnly

\* A transport error, or the abort; the collector may still be at work.
GivesUp(s) == App!NoReply(s) /\ Connected(s, NoRequest) /\ UNCHANGED collVars

AnswerDiscarded(h) == (\A s \in App!Sends : link[s] # h) /\ Coll!Return(h) /\ BesideApp
Handles(h) == Coll!Handler(h) /\ BesideApp
Settled(e) == Coll!Settle(e) /\ BesideApp

\* What happens by itself: a timer or a timeout is due, a request is on its way.
ByItself == Tick \/ \E s \in App!Sends : Retry(s) \/ SendArrives(s) \/ SendLost(s) \/ GivesUp(s)

SdkNext ==
  \/ \E e \in Events : Trace(e) \/ Settled(e)
  \/ Flush \/ Shutdown \/ Exit \/ ByItself
  \/ \E s \in App!Sends : AnswerArrives(s) \/ ProxyAnswers(s)
  \/ \E h \in Requests : Handles(h) \/ AnswerDiscarded(h)

\* Timers fire and every attempt ends by its timeout; no response need arrive, and
\* nothing makes the application emit, flush, shut down or end.
SdkSpec == SdkInit /\ [][SdkNext]_sdkVars
SdkFairSpec == SdkSpec /\ WF_sdkVars(ByItself)
-----------------------------------------------------------------------------
(***************************************************************************)
(* Correctness.                                                            *)
(***************************************************************************)
Carrying(e) == {s \in App!Sends : e \in Sink!Range(send[s].batch)}
InTopicOrPending(e) == topic[e] > 0 \/ pending[e] > 0

\* However flushes, timers and retries overlap, an event the SDK took is in one place
\* until its send settles it: in the buffer or in one send.  The collector has what
\* was delivered, or counted that it lost it, and no more copies of an event than it
\* may be sent (a resent batch keeps its call ids).  A shutdown that resolves without
\* failOpen loses nothing itself (index.ts: "In fail-closed mode, throws"); what a
\* timer's send or an earlier flush took it does not wait for.
TracesAccounted ==
  /\ \A e \in Events :
       /\ (fate[e] = "taken") = (e \in Sink!Range(buffer) \/ Carrying(e) # {})
       /\ Cardinality(Carrying(e)) <= (IF e \in Sink!Range(buffer) THEN 0 ELSE 1)
  /\ Cardinality({e \in Events : fate[e] = "delivered" /\ ~ InTopicOrPending(e)}) <= CollectorLosses
  /\ \A e \in Events : topic[e] + pending[e] <= Retries + 1
  /\ promise["shutdown"] = "resolved" /\ ~ opts.failOpen =>
       \A e \in Events : /\ fate[e] # "dropped by shutdown" /\ e \notin Sink!Range(buffer)
                         /\ \A s \in Carrying(e) : send[s].who # "shutdown"

\* Every event the SDK took is delivered or dropped with a log line, and a shutdown
\* ends, whatever the collector does; unless the process ends first, on events that
\* are buffered or whose send waits to try again.
EveryTraceSettled ==
  []<>(\/ exited
       \/ /\ \A e \in Events : fate[e] # "taken"
          /\ closed => promise["shutdown"] \in {"resolved", "rejected"})
=============================================================================
