----------------------------- MODULE MCEventPath -----------------------------
(***************************************************************************)
(* Two gateway events, in batches of up to two, against a gate of one      *)
(* record, which a batch of two or a retry beside the request it repeats   *)
(* fills; and a malformed OTel span beside one event.                      *)
(***************************************************************************)
EXTENDS EventPath, TLC

CONSTANTS e1, e2, o1, h1, h2, none

\* The first event offered is e1, and a request uses the first free handler.
InOrder ==
  /\ emit'[e2] # "new" => emit[e1] # "new"
  /\ req[h2].at = "idle" /\ req'[h2].at # "idle" => req[h1].at # "idle"

SinkRequests == {h \in Requests : req[h].at # "idle" /\ req[h].api = "events"}

\* Three scenarios by the mode of the sink.  Without a spool, requests of a strict sink overlap
\* each other, and that of an exporter an attempt of the other sink, which gets one event; with a
\* spool, there is one request at a time.
Overlap ==
  /\ exported' # exported => ~ cfg.strict /\ ~ cfg.spoolDir /\ conn # NoRequest /\ emit[e2] = "new"
  /\ exported # {} => emit'[e2] = "new"
  /\ ~ (cfg.strict /\ ~ cfg.spoolDir) => Cardinality(SinkRequests') <= 1
=============================================================================
