------------------------------ MODULE MCCopilot ------------------------------
(***************************************************************************)
(* A Copilot connection with two members in one team or the other, over a  *)
(* month's end. Between the two worlds a seat vanishes, a member changes   *)
(* teams, a new one comes whose seat is pending cancellation, and the bill *)
(* of a day already billed grows. Days, prices and thresholds are small;   *)
(* their order is that of the code's (14 < 28 < 30 days).                  *)
(***************************************************************************)
EXTENDS CopilotSync

Seat(id, login, team, pending, last) == [id |-> id, login |-> login, team |-> team, pending |-> pending, last |-> last]
Link(login, team) == [login |-> login, team |-> team]
Row(day, login, team, credits, lines) ==
  [day |-> day, login |-> login, team |-> team, model |-> "m", credits |-> credits, lines |-> lines, turns |-> 0,
   accepted |-> lines]
Line(day, login, quantity, gross, net) ==
  [day |-> day, login |-> login, sku |-> "ai", quantity |-> quantity, gross |-> gross, net |-> net]

MCWorlds ==
  <<[seats |-> {Seat(1, "a", "t1", FALSE, 5), Seat(2, "b", "", FALSE, 0)},
     links |-> {Link("a", "t1")},
     reports |-> <<{Row(3, "", "", 9, 0)}, {Row(5, "a", "", 6, 3), Row(4, "a", "", 2, 0)}>>,
     lines |-> {Line(4, "a", 5, 6, 4)},
     users |-> {Line(4, "a", 5, 6, 4), Line(3, "a", 2, 2, 1)}],
    [seats |-> {Seat(1, "a", "t2", FALSE, 5), Seat(3, "c", "t2", TRUE, 2)},
     links |-> {Link("a", "t2")},
     reports |-> <<{Row(3, "", "", 9, 0)}, {Row(5, "a", "", 8, 4), Row(5, "c", "t2", 1, 0)}>>,
     lines |-> {},
     users |-> {Line(4, "a", 8, 9, 7)}]>>

\* Bound: only a sync that runs alone fails, and none overlap after that.
Alone == Cardinality({s \in Syncs : sync[s].at \notin {"idle", "start"}}) <= 1
Scenario == (faults' # faults => Alone) /\ (faults' > 0 => Alone')

-----------------------------------------------------------------------------
(***************************************************************************)
(* The properties.                                                         *)
(***************************************************************************)
\* What GitHub bills is charged to a member once in each team, whichever days, syncs and answers the rows
\* come from: the overage on a member's rows of a month and team is within a bill that GitHub gave of that
\* month. A member who changes teams keeps the rows of the earlier one, whose overage is charged again: that
\* "credit overage is counted once" (github-copilot-billing.ts:67) holds within a team only.
BilledOncePerTeam ==
  \A r \in {q \in tables.spend : q.overage > 0} :
    LET month == {q \in tables.spend : /\ q.login = r.login /\ q.team = r.team /\ Month(q.day) = Month(r.day)
                                       /\ q.source = "billing_api"}
        bill(w) == {l \in Worlds[w].lines \union Worlds[w].users : l.login = r.login /\ Month(l.day) = Month(r.day)}
    IN \E w \in 1 .. world : Total(month, LAMBDA q : q.overage) <= Total(bill(w), LAMBDA l : l.net)

\* Everything that GitHub answers is stored, and the figures are those of what is stored.
ComputedAgree ==
  /\ RoiOf(tables.seats, tables.usage) \subseteq tables.roi
  /\ \E primary \in TeamChoices(tables) : MemberSpendOf(tables, primary) \subseteq tables.spend
Agrees ==
  /\ Github.seats \subseteq tables.seats /\ Github.links \subseteq tables.links
  /\ Merged(Github.reports, DOMAIN Github.reports) \subseteq tables.usage
  /\ Github.lines \subseteq tables.lines
  /\ ComputedAgree

\* A sync that nothing interfered with leaves the tables in agreement with GitHub: the figures are
\* computed after all that they are computed from (syncConnection, sync.service.ts:84-213).
QuietSyncAgrees == [][\A s \in quiet : WriteSpend(s) => Agrees']_vars

\* Whatever syncs overlapped, failed or were cut short, once GitHub no longer changes the tables come to
\* agree with it and stay so: no sync blocks the scheduler for ever, no stale write lasts.
Converges == <>[](conn = "created" /\ scheduled = "on" => Agrees)

\* The pages agree on what was spent and wasted, whatever rows the syncs left: the overview's total is the
\* sum of the members', as its disclaimer says (github-copilot.service.ts:364), by team, and by day, and
\* the findings name the members and the seats that the charts of waste show.
TotalsAgree ==
  LET t == tables
      teams == SpendByTeam(t)
      trend == UsageTrendByDate(t)
      shown == Overview(t)
      summary == MemberSummary(t)
      waste == InactiveSeatWaste(t)
      findings == MemberFindings(t)
      alarms == OverviewFindings(t)
      bins == SeatWaste(t)
  IN /\ t.spend # {} => shown.spend = summary.total
     /\ Total(DOMAIN teams, LAMBDA m : teams[m]) = summary.total
     /\ Total(DOMAIN trend, LAMBDA d : trend[d]) = summary.total
     /\ summary.activeSeats = shown.activeSeats /\ summary.inactiveSeats = shown.inactiveSeats
     /\ summary.wasted = Total(waste, LAMBDA w : w.waste) /\ findings.inactive = {w.login : w \in waste}
     /\ alarms.idle30.affected = bins[3].seats /\ alarms.idle30.waste = bins[3].waste
     /\ alarms.pending = Cardinality({s \in t.seats : SeatStatus(t, s.login) = "pending_cancel"})
PagesAgree == [][\A s \in Syncs : Begin(s) => TotalsAgree]_vars
=============================================================================
