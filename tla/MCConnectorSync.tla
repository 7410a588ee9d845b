-------------------------- MODULE MCConnectorSync --------------------------
(* One connector of each kind in turn, with activity on the first day and spend on the last. *)
EXTENDS ConnectorSync

CONSTANTS c1

MCConnectors == {c1}
MCRecords == {[c |-> c1, day |-> MaxDay, what |-> "spend"], [c |-> c1, day |-> 1, what |-> "activity"]}
=============================================================================
