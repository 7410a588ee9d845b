------------------------------ MODULE MCGateway ------------------------------
(***************************************************************************)
(* Two scenarios, told apart by the tables a behaviour starts with.        *)
(* Spending (a policy that redacts): a streamed request with sensitive     *)
(* data and a buffered one that declares a tool, both on one capped key,   *)
(* while reloads bring in another price book; nobody changes the tables.   *)
(* Configuration (a policy that blocks): the streamed request alone, at    *)
(* one price, under changes of the control plane, enough of them to move   *)
(* its key to another policy and to disable the first.                     *)
(***************************************************************************)
EXTENDS Gateway, TLC

CONSTANTS k1, p1, p2, m1, m2, t1, t2

MCKeyOf == <<k1, k1>>
MCMonthlyBudget == k1 :> 2
MCShape == <<[model |-> m1, tools |-> {t1}, findings |-> "data", stream |-> TRUE, maxTokens |-> 2],
             [model |-> m1, tools |-> {}, findings |-> "injection", stream |-> FALSE, maxTokens |-> 0]>>
MCKeyRows == {[allow |-> {}, policy |-> p1], [allow |-> {m1}, policy |-> p2], [allow |-> {m2}, policy |-> p2]}
Start(action) ==
  [keys |-> k1 :> [live |-> TRUE, row |-> [allow |-> {}, policy |-> p1]],
   dlp |-> (p1 :> action) @@ (p2 :> action), tools |-> {}]
Spending == Start("redact")
Configuration == Start("block")
MCStartTables == {Spending, Configuration}

MCMaxChanges == Spending :> 0 @@ Configuration :> 2

\* The bounds of the scenarios, as an action constraint.  Spending needs one other
\* price, and no gateway that fails closed; configuration needs no cost.
ScenarioBounds ==
  /\ hist[1] = Spending => ~ failClosed /\ (snap.prices = 1 \/ reload'.at = "idle" \/ reload.boot)
  /\ hist[1] = Configuration =>
       req'[2] = req[2] /\ req'[1].usage = 0 /\ snap.prices = 1 /\ snap'.prices = 1
=============================================================================
