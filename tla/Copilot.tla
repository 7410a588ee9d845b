------------------------------ MODULE Copilot -------------------------------
(***************************************************************************)
(* The figures of the Copilot dashboard, as functions of the rows a sync   *)
(* stored (api/src/github-copilot: sync.util, roi, billing, member-spend): *)
(* return by day and team, and what each member costs on each day; below,  *)
(* what the pages show of the tables t of CopilotSync: the member spend    *)
(* page (CopilotMemberSpendService), the overview and its charts           *)
(* (GitHubCopilotService), and the findings of both, for all connections   *)
(* and the whole range of days.                                            *)
(* Amounts are integers; the rates of CopilotRoiAssumptions are constants. *)
(*   seat   [id, login, team, pending, last]   last = 0: never active      *)
(*   link   [login, team]                                                  *)
(*   usage  [day, login, team, model, credits, lines, turns, accepted]     *)
(*   line   [day, login, sku, quantity, gross, net]                        *)
(***************************************************************************)
EXTENDS Integers, FiniteSets, FiniteSetsExt

CONSTANTS
  Today, DaysPerMonth,
  SeatPrice, IncludedCredits, CreditValue,      \* of a seat and month, of a credit
  LineValue, TurnValue,                         \* of an accepted line, of a chat turn
  ActiveDays, LowUsageDays, InactiveDays,       \* 28, 14, 30
  HighRoi,                                      \* 100 per cent
  Peers,                                        \* from 5 on there is high usage
  NearLimit,                                    \* per cent of the included credits that is near the limit: 85
  ManySeats                                     \* seats from which on a team's adoption is judged: 3

ASSUME CopilotAssumption ==
  /\ DaysPerMonth \in Nat \ {0} /\ Today \in Nat /\ Peers \in Nat
  /\ {SeatPrice, IncludedCredits, CreditValue, LineValue, TurnValue} \subseteq Nat

Total(S, value(_)) == MapThenSumSet(value, S)

AtLeastZero(n) == IF n > 0 THEN n ELSE 0

\* round2: amounts are rounded part by part.
Rounded(a, b) == (2 * a + b) \div (2 * b)

Month(day) == (day - 1) \div DaysPerMonth

IsActive(seat) == ~ seat.pending

\* daysSince: a seat that was never used is idle for ever.
IdleDays(seat, days) == seat.last = 0 \/ Today - seat.last >= days

UsedLately(seat) == IsActive(seat) /\ seat.last # 0 /\ Today - seat.last <= ActiveDays

ValueOf(u) == u.lines * LineValue + u.turns * TurnValue

\* roiPercentage, defined for a positive cost only
RoiPercentage(value, cost) == (100 * (value - cost)) \div cost
-----------------------------------------------------------------------------
(***************************************************************************)
(* Return by day and team.                                                 *)
(***************************************************************************)

\* buildRoiDayTeamAggregates: the organisation's own rows (login "") are added to those of the members.
RoiDays(usage, seats) ==
  IF usage = {} /\ seats # {} THEN {[day |-> Today, team |-> ""]} ELSE {[day |-> u.day, team |-> u.team] : u \in usage}

OfDayTeam(usage, k) == {u \in usage : u.day = k.day /\ u.team = k.team}

\* buildTeamSeatCounts; a team nobody's seat is assigned to is given all seats.
TeamSeats(seats, team) ==
  LET own == {s \in seats : s.team = team}
  IN IF own # {} THEN [assigned |-> Cardinality(own), active |-> Cardinality({s \in own : UsedLately(s)})]
     ELSE [assigned |-> Cardinality(seats), active |-> Cardinality({s \in seats : IsActive(s)})]

\* calculateCopilotRoi: the month's price and credits of the seats against the usage of one day.
CalculateCopilotRoi(k, count, rows) ==
  LET credits == Total(rows, LAMBDA u : u.credits)
      overage == AtLeastZero(credits - count.assigned * IncludedCredits) * CreditValue
      base == count.assigned * SeatPrice
      value == Total(rows, ValueOf)
  IN [day |-> k.day, team |-> k.team, assigned |-> count.assigned, active |-> count.active, base |-> base,
      credits |-> credits, overage |-> overage, total |-> base + overage, value |-> value,
      roi |-> IF base + overage > 0 THEN RoiPercentage(value, base + overage) ELSE 0]

\* The rows that computeRoiDaily writes.
RoiOf(seats, usage) ==
  {CalculateCopilotRoi(k, TeamSeats(seats, k.team), OfDayTeam(usage, k)) : k \in RoiDays(usage, seats)}
-----------------------------------------------------------------------------
(***************************************************************************)
(* Spend by member and day.                                                *)
(***************************************************************************)
NoTeam == ""

\* The team of a login is its first link, in no particular order, else the team its seat was assigned
\* through: every choice for all logins. A login with neither is of the team on its usage of the day.
LoginsOf(t) == {s.login : s \in t.seats} \union {l.login : l \in t.links} \union {u.login : u \in t.usage}

PrimaryTeams(t, login) ==
  LET linked == {l.team : l \in {m \in t.links : m.login = login}}
      assigned == {s.team : s \in {r \in t.seats : r.login = login}}
  IN IF linked # {} THEN linked ELSE IF assigned # {} THEN assigned ELSE {NoTeam}

TeamChoices(t) ==
  LET teams == {NoTeam} \union {l.team : l \in t.links} \union {s.team : s \in t.seats}
  IN {f \in [LoginsOf(t) -> teams] : \A login \in DOMAIN f : f[login] \in PrimaryTeams(t, login)}

TeamOfDay(t, primary, k) ==
  LET reported == {u.team : u \in {v \in t.usage : v.login = k.login /\ v.day = k.day}}
  IN IF primary # NoTeam \/ reported = {} THEN primary ELSE CHOOSE team \in reported : TRUE

\* buildMemberSpendAggregates: the usage of a member on a day, and a day without usage for every
\* active seat on every day there is data of, or of the last days when there is none.
ObservedDays(usage, roi) ==
  LET days == {u.day : u \in usage} \union {r.day : r \in {q \in roi : q.team = NoTeam}}
  IN IF days # {} THEN days ELSE AtLeastZero(Today - ActiveDays) + 1 .. Today

MemberDays(seats, usage, roi) ==
  {[day |-> u.day, login |-> u.login] : u \in {v \in usage : v.login # ""}}
    \union {[day |-> d, login |-> s.login] : d \in ObservedDays(usage, roi), s \in {t \in seats : IsActive(t)}}

DayUsage(usage, k) ==
  LET rows == {u \in usage : u.login = k.login /\ u.day = k.day}
  IN [credits |-> Total(rows, LAMBDA u : u.credits), lines |-> Total(rows, LAMBDA u : u.lines),
      turns |-> Total(rows, LAMBDA u : u.turns)]

BuildMemberSpendAggregates(t) ==
  {[day |-> k.day, login |-> k.login, usage |-> DayUsage(t.usage, k)] : k \in MemberDays(t.seats, t.usage, t.roi)}

SeatsOf(seats, login) == {s \in seats : s.login = login /\ IsActive(s)}

\* dailySeatCost
DailySeatCost(seats, login) == IF SeatsOf(seats, login) = {} THEN 0 ELSE Rounded(SeatPrice, DaysPerMonth)

\* allocatedOverageCost: the organisation's overage of the day, by share of the credits.
AllocatedOverageCost(roi, k, credits) ==
  LET org == {r \in roi : r.day = k.day /\ r.team = NoTeam}
      all == Total(org, LAMBDA r : r.credits)
  IN IF all <= 0 \/ credits <= 0 THEN 0 ELSE Rounded(Total(org, LAMBDA r : r.overage) * credits, all)

UsageScore(u) == u.credits + u.turns + u.lines

\* isHighUsage: among the upper fifth of the day.
IsHighUsage(score, scores) ==
  /\ Cardinality(scores) >= Peers /\ score > 0
  /\ Cardinality({p \in scores : p.score > score}) <= AtLeastZero(Cardinality(scores) \div 5 - 1)

\* resolveUtilizationStatus, isInactiveSeat, isLowUsageSeat
ResolveUtilizationStatus(seats, login, score, value, cost, scores) ==
  LET mine == SeatsOf(seats, login)
  IN CASE score = 0 /\ \E s \in mine : IdleDays(s, InactiveDays) -> "inactive"
       [] score > 0 /\ cost > 0 /\ value < cost -> "negative_roi"
       [] ~ (score = 0 /\ \E s \in mine : IdleDays(s, InactiveDays)) /\ ~ (score > 0 /\ cost > 0 /\ value < cost) ->
            IF score <= 5 /\ \E s \in mine : IdleDays(s, LowUsageDays) THEN "low_usage"
            ELSE IF cost > 0 /\ RoiPercentage(value, cost) >= HighRoi THEN "high_roi"
            ELSE IF IsHighUsage(score, scores) THEN "high_usage" ELSE "active"

\* Mutant: a month's bill is charged on each of its days.
BillingOfMonth(lines, k) == {l \in lines : l.login = k.login /\ Month(l.day) = Month(k.day)}

\* aggregateBillingByUserDay, billingMonthsFromUserDay
Billing(lines, k) == {l \in lines : l.login = k.login /\ l.day = k.day}
MonthHasBilling(lines, k) == \E l \in lines : l.login = k.login /\ Month(l.day) = Month(k.day)

\* calculateMemberDailySpend, ...SeatOnly and ...WithBilling: a day costs a share of the seat and, if it
\* was billed, the net amount; nothing more on the other days of a month with a bill; an estimate else.
CalculateMemberDailySpend(t, k, team, aggregates) ==
  LET u == k.usage
      bill == Billing(t.lines, k)
      billed == MonthHasBilling(t.lines, k)
      seat == DailySeatCost(t.seats, k.login)
      credit == IF billed THEN Total(bill, LAMBDA l : l.gross) ELSE AtLeastZero(u.credits) * CreditValue
      overage == IF billed THEN Total(bill, LAMBDA l : l.net) ELSE AllocatedOverageCost(t.roi, k, u.credits)
      total == IF billed THEN seat + overage ELSE seat + credit + overage
      \* the status of a billed day is still that of its estimate
      judged == IF bill = {} THEN total
                ELSE seat + AtLeastZero(u.credits) * CreditValue + AllocatedOverageCost(t.roi, k, u.credits)
      scores == {[login |-> j.login, score |-> UsageScore(j.usage)] : j \in {a \in aggregates : a.day = k.day}}
  IN [day |-> k.day, login |-> k.login, team |-> team, seat |-> seat, credit |-> credit, overage |-> overage,
      total |-> total, credits |-> IF bill # {} THEN Total(bill, LAMBDA l : l.quantity) ELSE u.credits,
      lines |-> u.lines, turns |-> u.turns, value |-> ValueOf(u),
      status |-> ResolveUtilizationStatus(t.seats, k.login, UsageScore(u), ValueOf(u), judged, scores),
      source |-> IF billed THEN "billing_api" ELSE "estimate"]

\* The rows that computeMemberSpendDaily writes from the tables t, given the teams of the logins.
MemberSpendOf(t, primary) ==
  UNION {{CalculateMemberDailySpend(t, k, TeamOfDay(t, primary[k.login], k), all) : k \in all} :
           all \in {BuildMemberSpendAggregates(t)}}
-----------------------------------------------------------------------------
(***************************************************************************)
(* Spend by member.                                                        *)
(***************************************************************************)
\* Mutant: a member is counted in one team only, the others' rows are left out.
RowsOfOneTeam(t, login) ==
  LET rows == {r \in t.spend : r.login = login} IN {r \in rows : r.team = (CHOOSE q \in rows : TRUE).team}

RowsOfMember(t, login) == {r \in t.spend : r.login = login}

\* A member's status is that of one of the rows, unless a day was judged inactive or a loss.
StatusOf(rows) ==
  LET bad == {r \in rows : r.status \in {"inactive", "negative_roi"}}
  IN (CHOOSE r \in (IF bad = {} THEN rows ELSE bad) : TRUE).status

\* aggregateSpendByMember, and the row of getMemberSpend
MemberRow(t, login) ==
  LET rows == RowsOfMember(t, login)
      sum(value(_)) == Total(rows, value)
      total == sum(LAMBDA r : r.total)
      value == sum(LAMBDA r : r.value)
  IN [login |-> login, team |-> (CHOOSE r \in rows : TRUE).team, status |-> StatusOf(rows), total |-> total,
      seat |-> sum(LAMBDA r : r.seat), credits |-> sum(LAMBDA r : r.credits), value |-> value,
      output |-> sum(LAMBDA r : r.lines + r.turns),
      roi |-> IF total > 0 THEN {RoiPercentage(value, total)} ELSE {},
      source |-> IF \E r \in rows : r.source = "billing_api" THEN "billing_api" ELSE "estimate"]

Members(t) == {MemberRow(t, login) : login \in {r.login : r \in t.spend}}

\* resolveSeatStatus; a seat is inactive for GitHub when its cancellation is pending
SeatStatus(t, login) ==
  LET seats == {s \in t.seats : s.login = login}
  IN IF seats = {} THEN "no_seat" ELSE IF \E s \in seats : s.pending THEN "pending_cancel" ELSE "active"

Wasting(members) == {m \in members : m.status = "inactive"}

\* buildSummary
MemberSummary(t) ==
  LET members == Members(t)
      spend == Total(members, LAMBDA m : m.total)
      active == Cardinality({m \in members : m.status \in {"active", "high_usage"}})
      engaged == Cardinality({m \in members : m.output > 0})
      used == Cardinality({s \in t.seats : UsedLately(s)})
  IN [total |-> spend, activeSeats |-> used,
      inactiveSeats |-> Cardinality({s \in t.seats : IsActive(s)}) - used,
      wasted |-> Total(Wasting(members), LAMBDA m : m.seat),
      perActive |-> IF active = 0 THEN 0 ELSE Rounded(spend, active),
      perEngaged |-> IF engaged = 0 THEN 0 ELSE Rounded(spend, engaged)]

\* buildCharts of the member page
SpendByTeam(t) ==
  LET members == Members(t)
  IN [team \in {m.team : m \in members} |-> Total({m \in members : m.team = team}, LAMBDA m : m.total)]

UsageTrendByDate(t) ==
  [day \in {r.day : r \in t.spend} |-> Total({r \in t.spend : r.day = day}, LAMBDA r : r.total)]

InactiveSeatWaste(t) == {[login |-> m.login, waste |-> m.seat] : m \in Wasting(Members(t))}

\* generateMemberSpendFindings
MemberFindings(t) ==
  LET members == Members(t)
      wasting == Wasting(members)
  IN [inactive |-> {m.login : m \in wasting},
      losing |-> {m.login : m \in {n \in members : n.total > 0 /\ \E p \in n.roi : p < 0}},
      winning |-> {m.login : m \in {n \in members : \E p \in n.roi : p >= HighRoi}},
      wasteByTeam |-> [team \in {m.team : m \in wasting} |-> Cardinality({m \in wasting : m.team = team})],
      reallocate |-> Cardinality(wasting) >= 2]
-----------------------------------------------------------------------------
(***************************************************************************)
(* The overview.                                                           *)
(***************************************************************************)
\* getSpendSummary: from the members' rows, or from the seats while there are none
SpendSummary(t) ==
  LET org == {r \in t.roi : r.team = NoTeam}
      seats == Cardinality({s \in t.seats : IsActive(s)})
      base == IF org = {} THEN seats * SeatPrice ELSE Max({r.base : r \in org})
  IN IF t.spend # {} THEN Total({r.day : r \in t.spend}, LAMBDA day : UsageTrendByDate(t)[day])
     ELSE Today * Rounded(base, DaysPerMonth) + Total(org, LAMBDA r : r.overage)

\* getOverview
Overview(t) ==
  LET assigned == Cardinality({s \in t.seats : IsActive(s)})
      used == Cardinality({s \in t.seats : UsedLately(s)})
      credits == Total(t.usage, LAMBDA u : u.credits)
      value == Total({r \in t.roi : r.team = NoTeam}, LAMBDA r : r.value)
      spend == SpendSummary(t)
      included == assigned * IncludedCredits
  IN [spend |-> spend, activeSeats |-> used, inactiveSeats |-> AtLeastZero(assigned - used), credits |-> credits,
      utilization |-> IF included = 0 THEN 0 ELSE (100 * credits) \div included,
      value |-> value, roi |-> IF spend > 0 THEN RoiPercentage(value, spend) ELSE 0]

\* buildCharts of the overview: seats by how long they are idle, and what they cost.
SeatWaste(t) ==
  LET active == {s \in t.seats : IsActive(s)}
      over == {s \in active : IdleDays(s, InactiveDays)}
      some == {s \in active : IdleDays(s, LowUsageDays + 1)} \ over
      bucket(seats, cost) == [seats |-> Cardinality(seats), waste |-> Cardinality(seats) * cost]
  IN <<bucket(active \ (over \union some), 0), bucket(some, SeatPrice), bucket(over, SeatPrice)>>

\* generateCopilotFindings; a team is judged by one of its rows.
Idle14(t) == {s \in t.seats : IsActive(s) /\ IdleDays(s, LowUsageDays)}
Idle30(t) == {s \in t.seats : IsActive(s) /\ IdleDays(s, InactiveDays)}

CreditsOf(t, login) == Total({u \in t.usage : u.login = login}, LAMBDA u : u.credits)

TeamRoi(t) == {CHOOSE r \in {q \in t.roi : q.team = team} : TRUE : team \in {q.team : q \in t.roi}}

OverviewFindings(t) ==
  LET logins == {u.login : u \in t.usage} \ {""}
      team(r) == Cardinality({s \in Idle30(t) : s.team = r})
      wasteful == {r \in {s.team : s \in t.seats} : team(r) >= 2}
  IN [idle14 |-> [affected |-> Cardinality(Idle14(t)), waste |-> Cardinality(Idle14(t)) * SeatPrice],
      idle30 |-> [affected |-> Cardinality(Idle30(t)), waste |-> Cardinality(Idle30(t)) * SeatPrice],
      strong |-> {r.team : r \in {q \in TeamRoi(t) : q.roi >= 100 /\ q.active >= 2}},
      lowAdoption |-> {r.team : r \in {q \in TeamRoi(t) : q.assigned >= ManySeats /\ 10 * q.active < 4 * q.assigned}},
      nearLimit |-> {l \in logins : 100 * CreditsOf(t, l) >= NearLimit * IncludedCredits},
      wastingCredits |-> {l \in logins : /\ 2 * CreditsOf(t, l) >= IncludedCredits
                                         /\ Total({u \in t.usage : u.login = l}, LAMBDA u : u.lines) < 20
                                         /\ Total({u \in t.usage : u.login = l}, LAMBDA u : u.accepted) < 30},
      pending |-> Cardinality({s \in t.seats : s.pending}),
      \* one of the teams with the most idle seats
      reallocate |-> {r \in wasteful : \A o \in wasteful : team(r) >= team(o)}]
=============================================================================
