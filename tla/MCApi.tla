------------------------------- MODULE MCApi -------------------------------
(***************************************************************************)
(* Imports: two people, a console export over two days, a spend report     *)
(* that ends on the second, a file of another vendor and two that cannot   *)
(* be imported.                                                            *)
(* Directory: two people of one display name, two departments, and groups  *)
(* named like a department or like neither, one request after another.     *)
(***************************************************************************)
EXTENDS ApiServices, Sequences

CONSTANTS ann, bob
-----------------------------------------------------------------------------
Persons == 1..N
NoTeam == "no team"
NoName == "no name"

MCNames == <<"kim", "kim">>

Create(p, n) == [kind |-> "createUser", who |-> p, dept |-> n, active |-> TRUE]
Tidy == <<[kind |-> "reconcile"], [kind |-> "heal"]>>
Groups(ps) == {[kind |-> "createGroup", team |-> t, name |-> n, members |-> ms] :
                 t \in {"t1"}, n \in {"sales"}, ms \in ps}

\* One request after another.
MCSerial ==
  {<<Create(p, n)>> \o Tidy : p \in Persons, n \in {NoName, "sales"}}
  \union {<<[kind |-> "updateUser", who |-> p, dept |-> n, active |-> a]>> :
            p \in {1}, n \in {NoName, "support"}, a \in BOOLEAN}
  \union {<<[kind |-> "patchTeam", who |-> 2, team |-> t]>> : t \in {NoTeam, "t1", "t2"}}
  \union {<<g>> : g \in Groups({{}, {1}})}
  \union {<<[kind |-> "createGroup", team |-> "t2", name |-> "staff", members |-> {2}]>>}
  \union {<<[kind |-> "replaceGroup", team |-> t, name |-> NoName, members |-> {2}]>> : t \in {"t1", "t2"}}
  \union {<<[kind |-> "patchGroup", team |-> t, patch |-> a, members |-> {1}]>> :
            t \in {"t1", "t2"}, a \in {"add", "remove", "replace"}}
  \union {<<[kind |-> "patchGroup", team |-> "t1", patch |-> "rename", name |-> "staff", members |-> {}]>>}
  \union {<<[kind |-> "deleteGroup", team |-> t]>> : t \in {"t1", "t2"}}
  \union {<<[kind |-> "backfill"]>>}
  \union {Tidy, <<[kind |-> "reconcile"], [kind |-> "link", who |-> 2]>>}

-----------------------------------------------------------------------------
Line(user, model, cost, day, n) == [user |-> user, model |-> model, cost |-> cost, day |-> day, n |-> n]

Console ==
  [headers |-> {"usage_date", "cost"}, named |-> FALSE, reportTo |-> 0, picked |-> None,
   lines |-> {Line(ann, "opus", 1, 1, 1), Line(ann, "opus", 1, 1, 2), Line(bob, "opus", 0, 2, 3),
              Line(OrgUsage, "opus", 1, 2, 4), Line(bob, "opus", 0 - 1, 1, 5)}]
SpendReport ==
  [headers |-> {"user_email", "net_spend"}, named |-> TRUE, reportTo |-> 2, picked |-> None,
   lines |-> {Line(ann, "opus", 2, 0, 1)}]
CursorFile ==
  [headers |-> {"usage_date", "cost"}, named |-> FALSE, reportTo |-> 0, picked |-> "cursor",
   lines |-> {Line(bob, "composer", 1, 2, 1)}]
Mislabelled == [CursorFile EXCEPT !.picked = None]
Unknown ==
  [headers |-> {"cost"}, named |-> FALSE, reportTo |-> 0, picked |-> "anthropic", lines |-> {Line(ann, "opus", 1, 1, 1)}]

MCBatches == {{SpendReport, Unknown}, {Console, CursorFile, Mislabelled}, {Unknown}}
MCEmails == {ann, bob}
MCPreferred == {bob}
MCLegacyRows == {[provider |-> "anthropic", day |-> 1, user |-> ann, model |-> "opus", cost |-> 3]}
=============================================================================
