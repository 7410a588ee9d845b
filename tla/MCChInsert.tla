----------------------------- MODULE MCChInsert -----------------------------
(***************************************************************************)
(* Two partitions: one with a good and a poison llm_call, the other with   *)
(* an unroutable message and a good tool_call.                             *)
(***************************************************************************)
EXTENDS ChInsert, TLC

CONSTANTS p1, p2, good, poison, stray, tool

MCLog == (p1 :> <<good, poison>>) @@ (p2 :> <<stray, tool>>)
MCKind == (good :> "llm_calls") @@ (poison :> "llm_calls") @@ (stray :> "unroutable") @@ (tool :> "agent_tool_calls")
=============================================================================
