---------------------------- MODULE MCAnalytics -----------------------------
EXTENDS Analytics

Blank ==
  [id |-> "", day |-> 1, provider |-> "", model |-> "", cost |-> 0, amount |-> 0, unit |-> "", input |-> 0, output |-> 0,
   product |-> "", chargeable |-> "", op |-> "", costSource |-> "", usageValue |-> 0, metered |-> -1,
   user |-> "", email |-> "", name |-> "", apiKey |-> "", project |-> "", workspace |-> "", serviceAccount |-> "",
   team |-> "", source |-> "", risk |-> "", outcome |-> "", outcomeValue |-> 0, confidence |-> 0, tool |-> "",
   requests |-> 0, linesAccepted |-> 0, commit |-> "", linesTotal |-> 0, linesAi |-> 0, production |-> FALSE]

OpenAi == [Blank EXCEPT !.provider = "openai", !.model = "gpt"]
Cursor == [Blank EXCEPT !.provider = "cursor", !.model = "auto"]

MCPriceBook ==
  {[provider |-> "anthropic", models |-> {"sonnet"}, length |-> 1, type |-> "input", from |-> 1, to |-> 0, rate |-> 3],
   [provider |-> "anthropic", models |-> {"sonnet"}, length |-> 2, type |-> "input", from |-> 4, to |-> 0, rate |-> 5],
   [provider |-> "anthropic", models |-> {"sonnet"}, length |-> 1, type |-> "output", from |-> 1, to |-> 0, rate |-> 9],
   [provider |-> "anthropic", models |-> {"haiku"}, length |-> 1, type |-> "input", from |-> 1, to |-> 0, rate |-> 1],
   [provider |-> "anthropic", models |-> {"haiku"}, length |-> 1, type |-> "output", from |-> 1, to |-> 0, rate |-> 2]}

\* The provider's amount, included and on-demand requests, an estimate behind a mapped key, an unmapped project.
MCRecords ==
  {[OpenAi EXCEPT !.id = "c1", !.email = "ann@a", !.amount = 150],
   [OpenAi EXCEPT !.id = "c2", !.model = "o1", !.email = "ann@a", !.amount = 70, !.unit = "cents"],
   [Cursor EXCEPT !.id = "c3", !.day = 2, !.user = "ann@b", !.cost = 60, !.product = "included"],
   [Cursor EXCEPT !.id = "c4", !.day = 4, !.email = "bob@a", !.cost = 80, !.product = "usage-based"],
   [Blank EXCEPT !.id = "c5", !.day = 4, !.provider = "anthropic", !.model = "sonnet", !.apiKey = "k1", !.input = 4],
   [OpenAi EXCEPT !.id = "c6", !.day = 5, !.project = "p9", !.cost = 30]}

MCMappings == {[type |-> "api_key", key |-> "k1", user |-> "bob@a", team |-> "core"],
               [type |-> "team", key |-> "t1", user |-> "", team |-> "web"]}

\* A line that covers c1, one without cost, one under the second address.
MCPortalLines ==
  {[OpenAi EXCEPT !.id = "p1", !.email = "ann@a", !.cost = 100],
   [OpenAi EXCEPT !.id = "p2", !.day = 2, !.email = "ann@b", !.input = 3],
   [Blank EXCEPT !.id = "p3", !.day = 4, !.provider = "anthropic", !.email = "ann@b", !.cost = 50]}

MCImportRows ==
  {[Cursor EXCEPT !.id = "i1", !.day = 2, !.user = "bob@a", !.tool = "cursor", !.cost = 20, !.requests = 3],
   [Blank EXCEPT !.id = "i2", !.day = 4, !.user = "ann@a", !.outcome = "merge", !.outcomeValue = 40, !.confidence = 60,
                 !.commit = "h", !.linesTotal = 3, !.linesAi = 1]}

GatewayRow == [BuildLlmCallEvent([Blank EXCEPT !.op = "chat"]) EXCEPT !.source = "gateway"]

MCGatewayCalls ==
  {[agent |-> "", row |-> [GatewayRow EXCEPT !.id = "g1", !.team = "core", !.user = "ann-gh", !.provider = "openai", !.model = "gpt",
                                             !.input = 1, !.output = 1, !.cost = 40]]}

MCFixedCosts ==
  {[month |-> 1, vendor |-> "openai", type |-> "subscription", line |-> "", seats |-> 0, unit |-> 0, cost |-> 101],
   [month |-> 1, vendor |-> "cursor", type |-> "seat_license", line |-> "team", seats |-> 2, unit |-> 0, cost |-> 90],
   [month |-> 2, vendor |-> "cursor", type |-> "seat_license", line |-> "max", seats |-> 1, unit |-> 99, cost |-> 99]}

MCChanges == {[seats |-> 3, unit |-> -1, cost |-> -1], [seats |-> -1, unit |-> -1, cost |-> 60]}

MCTierChanges ==
  {[user |-> "id-a", vendor |-> "openai", tier |-> "basic"], [user |-> "id-b", vendor |-> "openai", tier |-> "premium"],
   [user |-> "id-a", vendor |-> "openai", tier |-> "none"]}

MCEmails == [e \in {"ann@a", "ann@b", "bob@a", "x@demo"} |->
               [local |-> [x \in {"ann@a", "ann@b", "bob@a", "x@demo"} |->
                             CASE x = "bob@a" -> "bob" [] x = "x@demo" -> "x" [] OTHER -> "ann"][e],
                rank |-> CASE e = "ann@a" -> 1 [] e = "ann@b" -> 2 [] e = "bob@a" -> 3 [] OTHER -> 4]]

Ann(active) == [id |-> "id-a", email |-> "ann@a", name |-> "Ann", team |-> "", active |-> active, aliases |-> {"ann-gh"}]
Ann2(active) == [id |-> "id-a2", email |-> "ann@b", name |-> "Ann", team |-> "core", active |-> active, aliases |-> {}]
Bob(active) == [id |-> "id-b", email |-> "bob@a", name |-> "", team |-> "core", active |-> active, aliases |-> {}]

\* Two addresses of one person, merged or not; a person who left; nobody known.
MCIdentities == {{Ann(TRUE), Ann2(FALSE), Bob(TRUE)}, {Ann(TRUE), Ann2(TRUE), Bob(FALSE)}, {}}

NoCopilot == [connected |-> FALSE, price |-> 0, seats |-> {}, spend |-> {}, usage |-> {}, roi |-> {}, idle |-> {}]

MCCopilotTables ==
  {NoCopilot,
   [connected |-> TRUE, price |-> 19, seats |-> {"ann-gh", "eve-gh"},
    spend |-> {[login |-> "ann-gh", day |-> 2, seat |-> 6, overage |-> 4, total |-> 10, lines |-> 3, turns |-> 1, value |-> 30],
               [login |-> "eve-gh", day |-> 4, seat |-> 6, overage |-> 0, total |-> 6, lines |-> 0, turns |-> 0, value |-> 0]},
    usage |-> {[login |-> "ann-gh", model |-> "", day |-> 2, lines |-> 3, turns |-> 1]}, roi |-> {}, idle |-> {"eve-gh"}],
   [connected |-> TRUE, price |-> 19, seats |-> {"ann-gh"}, spend |-> {},
    usage |-> {[login |-> "ann-gh", model |-> "m", day |-> 2, lines |-> 3, turns |-> 1]}, roi |-> {}, idle |-> {}]}

MCSeatTables == {{}, {[user |-> "id-b", provider |-> "cursor", price |-> 40]}}

MCRanges == {<<2, 3>>, <<1, 6>>}

NoBooks == [roi |-> {}, plans |-> {}, invoices |-> {}, risks |-> {}, edges |-> {}, agentCalls |-> {}]

\* Nobody known and no Copilot, else the tables in pairs, with assigned seats where Copilot is connected.
MCStarts ==
  {[identities |-> i, copilot |-> c, seats |-> s, books |-> NoBooks] :
     <<i, c, s>> \in {t \in MCIdentities \X MCCopilotTables \X MCSeatTables :
                       (t[2] = NoCopilot) = (t[3] = {}) /\ (t[1] = {} => t[2] = NoCopilot) /\ (Ann2(TRUE) \in t[1] => t[2].spend # {})}}
-----------------------------------------------------------------------------
(***************************************************************************)
(* The instance for the CFO view and LARI: fewer records, larger amounts.  *)
(***************************************************************************)
LariRecords ==
  {[OpenAi EXCEPT !.id = "c1", !.email = "ann@a", !.amount = 150],
   [Cursor EXCEPT !.id = "c4", !.day = 4, !.email = "bob@a", !.cost = 8000, !.product = "usage-based"]}

LariLines == {[OpenAi EXCEPT !.id = "p1", !.email = "ann@a", !.cost = 100]}

LariRows == {[Cursor EXCEPT !.id = "i1", !.day = 2, !.user = "bob@a", !.tool = "cursor", !.cost = 20, !.requests = 3, !.linesAccepted = 2]}

\* One agent on two providers, another on one.
LariCalls ==
  {[agent |-> "a1", row |-> [GatewayRow EXCEPT !.id = "g2", !.user = "bob@a", !.provider = "anthropic", !.model = "sonnet",
                                               !.input = 600, !.output = 200, !.cost = 12000]],
   [agent |-> "a1", row |-> [GatewayRow EXCEPT !.id = "g3", !.day = 2, !.user = "ann@a", !.provider = "openai", !.model = "gpt", !.cost = 3000]],
   [agent |-> "a2", row |-> [GatewayRow EXCEPT !.id = "g4", !.day = 4, !.provider = "openai", !.model = "o1", !.cost = 5001]]}

Scored ==
  [id |-> "", day |-> 2, type |-> "merge", agent |-> "a1", value |-> 30000, ai |-> 100, loaded |-> 160, riskAdjusted |-> 20000,
   confidence |-> 100, qa |-> 40, infra |-> 20, exposure |-> 50, completed |-> TRUE, source |-> "github"]

LariOutcomes ==
  {[Scored EXCEPT !.id = "o1"],
   [Scored EXCEPT !.id = "o2", !.day = 4, !.type = "ticket", !.agent = "a2", !.value = 9000, !.ai = 33, !.loaded = 33,
                  !.confidence = 60, !.qa = 0, !.infra = 0, !.source = "manual"]}

LariRisks ==
  {[agent |-> "a1", day |-> 2, severity |-> "low"], [agent |-> "a1", day |-> 3, severity |-> "critical"]}

Bought ==
  [NoBooks EXCEPT
     !.plans = {[id |-> "pl1", provider |-> "openai", purchased |-> 3, price |-> 3000, contract |-> 9000, tier |-> "high"],
                [id |-> "pl2", provider |-> "cursor", purchased |-> 1, price |-> 4000, contract |-> 4000, tier |-> "standard"]},
     !.invoices = {[day |-> 1, provider |-> "anthropic", model |-> "sonnet", cost |-> 11000]},
     !.edges = {[agent |-> "a1", outcome |-> "o1", method |-> "probabilistic", delta |-> 80]},
     !.roi = {[Scored EXCEPT !.id = "o0", !.day = 1, !.value = 4000, !.confidence = 70]}]

LariFixed == {[month |-> 1, vendor |-> "cursor", type |-> "seat_license", line |-> "team", seats |-> 2, unit |-> 0, cost |-> 9000]}

LariSeats == {{[user |-> "id-b", provider |-> "cursor", price |-> 4000]}}
LariIdentities == {{Ann(TRUE), Ann2(TRUE), Bob(TRUE)}}
LariCopilot == {NoCopilot,
  [connected |-> TRUE, price |-> 19, seats |-> {"ann-gh", "eve-gh"},
    spend |-> {[login |-> "ann-gh", day |-> 2, seat |-> 6, overage |-> 4, total |-> 10, lines |-> 3, turns |-> 1, value |-> 30],
               [login |-> "eve-gh", day |-> 4, seat |-> 6, overage |-> 0, total |-> 6, lines |-> 0, turns |-> 0, value |-> 0]},
    usage |-> {[login |-> "ann-gh", model |-> "", day |-> 2, lines |-> 3, turns |-> 1]},
    roi |-> {[day |-> 2, base |-> 38, overage |-> 4, value |-> 30]}, idle |-> {"eve-gh"}]}

LariRanges == {<<1, 3>>, <<2, 6>>}

LariStarts == {[identities |-> i, copilot |-> c, seats |-> s, books |-> Bought] : i \in LariIdentities, c \in LariCopilot, s \in LariSeats}

MCRecency == [d \in 0..6 |-> <<100, 97, 94, 90, 88, 85, 82>>[d + 1]]
MCFamilies == [m \in {"sonnet", "haiku"} |-> "Claude"]
=============================================================================
