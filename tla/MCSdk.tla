-------------------------------- MODULE MCSdk --------------------------------
(***************************************************************************)
(* Two events, sent together or one by one, against a gate of one record.  *)
(***************************************************************************)
EXTENDS SdkPath, TLC

CONSTANTS t1, t2, h1, h2, none

\* One of the modes of the gateway's sink, which does nothing here.
OneGateway == cfg = [strict |-> FALSE, spoolDir |-> FALSE, http |-> TRUE]

\* The first event is t1, and a request uses the first free handler.
InOrder ==
  /\ fate'[t2] # "new" => fate[t1] # "new"
  /\ req[h2].at = "idle" /\ req'[h2].at # "idle" => req[h1].at # "idle"

\* A handler whose answer nobody waits for returns at once, and one at work is only
\* interrupted by the end of the SDK's patience.  The application is a script that wants
\* to know of failures and awaits one flush, or a server with the default options
\* that never flushes.
Scenario ==
  LET loose == \E h \in Requests : req[h].at = "done" /\ \A s \in App!Sends : link[s] # h
      working == \E h \in Requests : req[h].at \in {"loop", "undo"}
  IN /\ loose => req' # req /\ appVars' = appVars
     /\ working => (req' # req /\ appVars' = appVars) \/ (req' = req /\ link' # link)
     /\ opts.failOpen # opts.script
     /\ opts.failOpen \/ promise["flush"] \in {"resolved", "rejected"} => promise["flush"]' # "pending"
=============================================================================
