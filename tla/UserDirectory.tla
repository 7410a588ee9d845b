--------------------------- MODULE UserDirectory ----------------------------
(***************************************************************************)
(* The member directory (AnalyticsService.users): spend handles of the     *)
(* sources resolved to people (api/src/reports/identity-resolver.ts,       *)
(* identity-merge.ts), one row for each person, with the person's part of  *)
(* the seat charges (api/src/analytics).  A handle is an identity's id, an *)
(* email address, an alias or the raw name a source uses.                  *)
(***************************************************************************)
EXTENDS SpendReports, SequencesExt

CONSTANTS
  Emails,      \* the email-like handles: a function to [local, rank]; the rank orders them
  Preferred,   \* the emails of a preferred domain
  Demo         \* handles of the demonstration data

VARIABLES
  identities,  \* [id, email, name, team, active, aliases]
  tags,        \* identity_seat_tiers: [user, vendor, tier]
  aiSeats      \* ai_seats joined with their plans: [user, provider, price]

IsEmailLike(h) == h \in DOMAIN Emails

ResolveDisplayName(name, email, handle) == Either(name, IF email # "" THEN Emails[email].local ELSE handle)

NameOf(i) == ResolveDisplayName(i.name, i.email, i.id)
-----------------------------------------------------------------------------
(***************************************************************************)
(* identity-merge: identities with one display name are one person.        *)
(***************************************************************************)

\* pickPrimaryIdentity: preferred address, then a team, then more aliases, then the address.
Before(i, j) ==
  LET key(k) == <<IF k.email \in Preferred THEN 0 ELSE 1, IF k.team # "" THEN 0 ELSE 1, - Cardinality(k.aliases),
                  Emails[k.email].rank>>
  IN \E n \in 1..4 : key(i)[n] < key(j)[n] /\ \A m \in 1..(n - 1) : key(i)[m] = key(j)[m]

PickPrimaryIdentity(group) == CHOOSE i \in group : \A j \in group \ {i} : Before(i, j)

Namesakes(i) == {j \in identities : NameOf(j) = NameOf(i)}

\* primaryUserIdByIdentityId: a deactivated identity belongs to the active one of its name.
PrimaryOf(i) ==
  LET active == {j \in Namesakes(i) : j.active}
  IN PickPrimaryIdentity(IF active # {} THEN active ELSE Namesakes(i))

\* listHumanIdentityRoster
Roster == {i \in identities : i.active /\ PrimaryOf(i) = i /\ i.id \notin Demo /\ i.email \notin Demo}
-----------------------------------------------------------------------------
(***************************************************************************)
(* identity-resolver.                                                      *)
(***************************************************************************)

\* Entry of the lookup tables: a primary without a team takes one of its namesakes'.
EntryOf(i) ==
  LET teams == {j.team : j \in Namesakes(i)} \ {""}
  IN [i EXCEPT !.team = IF @ # "" \/ PrimaryOf(i) # i \/ teams = {} THEN @ ELSE CHOOSE t \in teams : TRUE]

\* The identities registered under a handle.
Holders(h) ==
  LET byId == {i \in identities : i.id = h}
      byEmail == {i \in identities : i.email = h \/ (IsEmailLike(h) /\ h \in i.aliases)}
  IN IF byId # {} THEN byId ELSE IF byEmail # {} THEN byEmail ELSE {i \in identities : h \in i.aliases}

\* Mutant: what is registered last stays, deactivated or not.
MatchIdentityRaw(h) == IF Holders(h) = {} THEN {} ELSE {EntryOf(CHOOSE i \in Holders(h) : \A j \in Holders(h) : j.active => i.active)}

\* loadIdentityLookups and matchIdentity: {} or the entry; secondaries lead to their primary.
MatchIdentity(h) ==
  LET active == {i \in Holders(h) : i.active}
      primaries == {PrimaryOf(i) : i \in {j \in Holders(h) : PrimaryOf(j) # j}}
      merged == {i \in primaries : i.active}
  IN IF Holders(h) = {} THEN {}
     ELSE {EntryOf(IF merged # {} THEN CHOOSE i \in merged : TRUE
                   ELSE IF active # {} THEN CHOOSE i \in active : TRUE
                   ELSE CHOOSE i \in Holders(h) \union primaries : PrimaryOf(i) = i \/ primaries = {})}

\* resolveUserDirectoryIdentity
Resolve(h) ==
  IF MatchIdentity(h) # {}
  THEN LET i == CHOOSE i \in MatchIdentity(h) : TRUE
       IN [name |-> NameOf(i), email |-> i.email, team |-> i.team, resolved |-> TRUE, active |-> i.active]
  ELSE [name |-> IF IsEmailLike(h) THEN Emails[h].local ELSE h, email |-> IF IsEmailLike(h) THEN h ELSE "",
        team |-> "", resolved |-> FALSE, active |-> TRUE]
-----------------------------------------------------------------------------
(***************************************************************************)
(* What is known of each handle, from all sources.                         *)
(***************************************************************************)
NoUsage == [cost |-> 0, calls |-> 0, onDemand |-> 0, included |-> 0]

\* fetchUserSpendFromCh
MeteredUsers(from, to) ==
  LET spent == ReconciledUserSpend(InRange(calls, from, to))
  IN [u \in {v \in DOMAIN spent \ {Unassigned} : spent[v].cost > 0 \/ spent[v].calls > 0} |-> spent[u]]

\* mergeCursorActivityIntoUserSpend: Copilot members replace a metered user of the same handle.
Usage(from, to) ==
  LET metered == MeteredUsers(from, to)
      members == CopilotMembers(from, to)
      cursor == CursorUserActivity(from, to)
      base(u) == CASE u \in DOMAIN members -> [cost |-> members[u].total, calls |-> members[u].calls]
                   [] u \notin DOMAIN members /\ u \in DOMAIN metered -> [cost |-> metered[u].cost, calls |-> metered[u].calls]
                   [] OTHER -> [cost |-> cursor[u].onDemand, calls |-> 0]
  IN [u \in DOMAIN metered \union DOMAIN members \union DOMAIN cursor |->
        [cost |-> base(u).cost,
         calls |-> IF u \notin DOMAIN cursor THEN base(u).calls
                   ELSE IF base(u).calls > 0 THEN base(u).calls + cursor[u].included ELSE cursor[u].calls,
         onDemand |-> IF u \in DOMAIN cursor THEN cursor[u].onDemand ELSE 0,
         included |-> IF u \in DOMAIN cursor THEN cursor[u].value ELSE 0]]

\* The same by platform: Cursor's own figure counts where it is larger.
PlatformsOf(from, to, u) ==
  LET rows == ReconciledBreakdown(InRange(calls, from, to))
      members == CopilotMembers(from, to)
      cursor == CursorUserBreakdown(from, to)
      models == {k[2] : k \in {q \in DOMAIN cursor : q[1] = u}} \union {k[3] : k \in {q \in DOMAIN rows : q[1] = u /\ q[2] = "cursor"}}
      row(p, m) == IF <<u, p, m>> \in DOMAIN rows THEN rows[<<u, p, m>>].cost ELSE 0
      billed(m) == IF <<u, m>> \in DOMAIN cursor THEN cursor[<<u, m>>].onDemand ELSE 0
      of(p) == Total({k \in DOMAIN rows : k[1] = u /\ k[2] = p}, LAMBDA k : rows[k].cost)
  IN [p \in {k[2] : k \in {q \in DOMAIN rows : q[1] = u}} \union (IF models # {} THEN {"cursor"} ELSE {})
            \union (IF u \in DOMAIN members THEN {CopilotProvider} ELSE {}) |->
        CASE p = "cursor" -> Total(models, LAMBDA m : Biggest(row(p, m), billed(m)))
          [] p = CopilotProvider -> of(p) + members[u].total
          [] OTHER -> of(p)]
-----------------------------------------------------------------------------
(***************************************************************************)
(* assembleUserDirectory.                                                  *)
(***************************************************************************)

\* canonicalUserKey, for the identity a row is merged under
CanonicalUserKey(h, x) ==
  CASE x.resolved /\ x.name # "" -> <<"name", x.name>>
    [] ~ (x.resolved /\ x.name # "") /\ x.email # "" -> <<"email", x.email>>
    [] OTHER -> IF IsEmailLike(h) THEN <<"email", h>> ELSE IF x.name # "" THEN <<"name", x.name>> ELSE <<"raw", h>>

\* The row of one handle; a handle with an email counts as resolved.
EntryRow(from, to, usage, h) ==
  LET x == Resolve(h)
      use == IF h \in DOMAIN usage THEN usage[h] ELSE NoUsage
  IN [id |-> h, name |-> x.name, email |-> x.email, team |-> x.team, resolved |-> x.resolved \/ x.email # "",
      cost |-> use.cost, calls |-> use.calls, onDemand |-> use.onDemand, included |-> use.included,
      platforms |-> PlatformsOf(from, to, h)]

\* Who is listed: no demonstration data, nobody deactivated, nobody without activity except members.
Listed(from, to, usage, h) ==
  LET x == Resolve(h)
      use == IF h \in DOMAIN usage THEN usage[h] ELSE NoUsage
  IN /\ h \notin Demo /\ x.email \notin Demo
     /\ ~ (x.resolved /\ ~ x.active)
     /\ \/ use.cost > 0 \/ use.calls > 0 \/ use.included > 0 \/ use.onDemand > 0
        \/ h \in {i.id : i \in Roster} \/ h \in DOMAIN CopilotMembers(from, to)

\* mergeUserDirectoryRows
MergeUserDirectoryRows(a, b) ==
  LET primary == IF a.cost >= b.cost THEN a ELSE b
      known == IF a.resolved THEN a ELSE IF b.resolved THEN b ELSE primary
  IN [id |-> primary.id, name |-> known.name, email |-> Either(known.email, Either(primary.email, Either(a.email, b.email))),
      team |-> Either(known.team, Either(a.team, b.team)), resolved |-> a.resolved \/ b.resolved,
      cost |-> a.cost + b.cost, calls |-> a.calls + b.calls, onDemand |-> a.onDemand + b.onDemand,
      included |-> a.included + b.included, platforms |-> Plus(a.platforms, b.platforms)]

\* In the order of the sources: metered users by cost, Copilot members, Cursor users, the roster.
InOrder(from, to, rows) ==
  LET source(r) == CASE r.id \in DOMAIN MeteredUsers(from, to) -> 1
                     [] r.id \in DOMAIN CopilotMembers(from, to) \ DOMAIN MeteredUsers(from, to) -> 2
                     [] OTHER -> IF r.cost + r.included > 0 THEN 3 ELSE 4
  IN SetToSortSeq(rows, LAMBDA r, s : source(r) < source(s) \/ (source(r) = source(s) /\ r.cost > s.cost))

\* Rows of one key become one; collapseDirectoryRowsByDisplayName then finds no two of one name.
Assembled(from, to) ==
  LET usage == Usage(from, to)
      handles == {h \in DOMAIN usage \union {i.id : i \in Roster} : Listed(from, to, usage, h)}
      rows == {EntryRow(from, to, usage, h) : h \in handles}
      merged(G) == LET s == InOrder(from, to, G) IN FoldLeft(MergeUserDirectoryRows, s[1], Tail(s))
  IN {merged(G) : G \in Grouped(rows, LAMBDA r : CanonicalUserKey(r.id, r))}
-----------------------------------------------------------------------------
(***************************************************************************)
(* Seats of the people in the directory.                                   *)
(***************************************************************************)

\* cursorSeatUsdByUser: by handle; assigned seats first, else an equal share of the licence.
CursorSeatByHandle(from, to, today) ==
  LET users == DOMAIN CursorUserActivity(from, to)
      mine(u) == {s \in aiSeats : s.user = u /\ s.provider = "cursor" /\ s.price > 0}
      assigned == {s.user : s \in {t \in aiSeats : t.provider = "cursor" /\ t.price > 0}}
      emailsOf(S) == {i.email : i \in {j \in identities : j.id \in S}}
      share == RoundDiv(CursorSeatLicense(from, to, today).usd, Cardinality(users))
  IN IF users = {} THEN [u \in {} |-> 0]
     ELSE [u \in assigned \union (users \ emailsOf(assigned)) |->
             IF u \in assigned THEN Total(mine(u), LAMBDA s : ProrateMonthlyCost(s.price, Month(from), from, to)) ELSE share]

\* remapCopilotKeysToDirectory: the row of a login, by handle or by its person's email.
CopilotOfRow(from, to, rows, r) ==
  LET members == CopilotMembers(from, to)
      direct(l) == {s \in rows : s.id = l}
      byEmail(l) == IF Resolve(l).email = "" THEN {} ELSE {s \in rows : s.email = Resolve(l).email}
      mine == {l \in DOMAIN members : r \in direct(l) \/ (direct(l) = {} /\ r \in byEmail(l))}
      bySeat(l) == IF members[l].seat > 0 \/ members[l].overage > 0 THEN members[l].seat ELSE members[l].total
  IN [present |-> mine # {}, seat |-> Total(mine, bySeat), overage |-> Total(mine, LAMBDA l : members[l].overage)]

\* loadSeatTier: the tags of a person, whichever identity carries them.
TagsOf(rows) ==
  {[user |-> r.id, vendor |-> t.vendor, tier |-> t.tier] :
     <<r, t>> \in {p \in rows \X tags :
                     \/ p[2].user = p[1].id
                     \/ \E i \in MatchIdentity(p[2].user) : i.email = p[1].email
                     \/ MatchIdentity(p[2].user) # {} /\ MatchIdentity(p[2].user) = MatchIdentity(p[1].id)}}

\* presenceVendorsFromBreakdown, with the memberships allocateFixedSeatsToUsers adds
PresenceOf(r, cursorSeats, github, rowTags) ==
  {PlatformToVendor(p) : p \in DOMAIN r.platforms}
    \union (IF ValueOf(cursorSeats, r.id) > 0 \/ r.onDemand > 0 THEN {"cursor"} ELSE {})
    \union (IF github.present THEN {"github"} ELSE {})
    \union {t.vendor : t \in {u \in rowTags : u.user = r.id}}

\* allocateFixedSeatsToUsers, enrichUsersWithVendorData: what each person of the directory costs.
Users(from, to, today) ==
  LET rows == Assembled(from, to)
      pools == SeatPoolsForRange(fixed, from, to)
      cursorSeats == CursorSeatByHandle(from, to, today)
      github == [r \in rows |-> CopilotOfRow(from, to, rows, r)]
      rowTags == TagsOf(rows)
      presence == [id \in {r.id : r \in rows} |->
                     LET r == CHOOSE r \in rows : r.id = id IN PresenceOf(r, cursorSeats, github[r], rowTags)]
      alloc == AllocateSeatPools(pools, presence, rowTags)
      connector == [id \in {r.id : r \in rows} |->
                      LET r == CHOOSE r \in rows : r.id = id
                      IN [v \in {"cursor", "github"} |-> IF v = "cursor" THEN ValueOf(cursorSeats, id) ELSE github[r].seat]]
      vendors == VendorsWithFixedSeatPools(pools) \union {"cursor", "github"} \union {t.vendor : t \in rowTags}
      seats(r) == [v \in vendors |-> SeatUsd(alloc, connector, rowTags, VendorsWithFixedSeatPools(pools), r.id, v)]
      slices(r) == BuildUserVendorSpend(r.platforms, [seat |-> ValueOf(cursorSeats, r.id), overage |-> r.onDemand],
                                        [seat |-> github[r].seat, overage |-> github[r].overage], seats(r))
  IN {[id |-> r.id, name |-> r.name, email |-> r.email, team |-> r.team, slices |-> slices(r),
       total |-> SumUserVendorSpend(slices(r)), calls |-> r.calls] : r \in rows}

\* userDetail, among the rows of the directory
UserDetail(handle, rows) == {u \in rows : u.id = handle \/ (u.email # "" /\ u.email = handle)}
-----------------------------------------------------------------------------
(***************************************************************************)
(* UserValueService.assembleUserUtilization: activity against seats.       *)
(***************************************************************************)
UtilizationKey(h) == Either(Resolve(h).email, h)

\* computeUtilizationScore: days, calls and sessions, in percent.
ComputeUtilizationScore(days, count, sessions, period) ==
  LET least(a, b) == IF a < b THEN a ELSE b
      d == Biggest(2, period)
  IN RoundDiv(40 * least(d, 2 * days) * 500 + 35 * least(50, count) * 10 * d + 25 * least(10, sessions) * 50 * d, 500 * d)

\* computeUserStatus
ComputeUserStatus(count, sessions, score, hasSeat) ==
  IF count = 0 /\ sessions = 0 THEN "inactive"
  ELSE IF (hasSeat /\ score < 30) \/ score < 20 THEN "low_use" ELSE "active"

SeatHandle(s) ==
  LET owner == {i \in identities : i.id = s.user}
  IN IF owner # {} THEN (CHOOSE i \in owner : TRUE).email ELSE s.user

Utilization(from, to) ==
  LET spent == ReconciledUserSpend(InRange(calls, from, to))
      daily == ReconciledUserDaily(InRange(calls, from, to))
      tools == {c \in InRange(coding, from, to) : c.user # ""}
      handles == (DOMAIN spent \ {Unassigned}) \union {c.user : c \in tools} \union {SeatHandle(s) : s \in aiSeats}
      mine(k) == {h \in handles : UtilizationKey(h) = k}
      count(k) == Total(mine(k) \intersect DOMAIN spent, LAMBDA h : spent[h].calls)
      sessions(k) == Cardinality({c \in tools : c.user \in mine(k)})
      seatsOf(k) == {s \in aiSeats : SeatHandle(s) \in mine(k)}
      days(k) == Cardinality({p[2] : p \in {q \in DOMAIN daily : q[1] \in mine(k) /\ (daily[q].cost > 0 \/ daily[q].calls > 0)}})
      score(k) == ComputeUtilizationScore(days(k), count(k), sessions(k), to - from + 1)
      price(k) == CHOOSE p \in {s.price : s \in seatsOf(k)} : \A s \in seatsOf(k) : s.price <= p
      models == ReconciledBreakdown(InRange(calls, from, to))
      providers(k) == {q[2] : q \in {r \in DOMAIN models : r[1] \in mine(k)}}
                        \union {c.provider : c \in {t \in tools : t.user \in mine(k)}} \union {s.provider : s \in seatsOf(k)}
  IN [k \in {UtilizationKey(h) : h \in handles} |->
        [cost |-> Total(mine(k) \intersect DOMAIN spent, LAMBDA h : spent[h].cost) + Total({c \in tools : c.user \in mine(k)}, CostOf),
         calls |-> count(k), days |-> days(k), sessions |-> sessions(k), score |-> score(k), hasSeat |-> seatsOf(k) # {},
         seat |-> IF seatsOf(k) = {} THEN 0 ELSE price(k), providers |-> providers(k),
         seatProvider |-> IF seatsOf(k) = {} THEN "" ELSE (CHOOSE s \in seatsOf(k) : TRUE).provider,
         status |-> ComputeUserStatus(count(k), sessions(k), score(k), seatsOf(k) # {})]]

\* teamAggregates
TeamAggregates(from, to) ==
  LET util == Utilization(from, to)
      seated(status) == {k \in DOMAIN util : util[k].hasSeat /\ util[k].status = status}
  IN [provisioned |-> Cardinality({k \in DOMAIN util : util[k].hasSeat}), active |-> Cardinality(seated("active")),
      inactive |-> Cardinality(seated("inactive")), low |-> Cardinality(seated("low_use")),
      reclaimable |-> Total(seated("inactive"), LAMBDA k : util[k].seat)]

\* mergeDirectoryWithUtilization: seat holders and active users the directory does not list are added.
Extras(from, to, rows) ==
  LET util == Utilization(from, to)
      known == UNION {{u.id, u.email, u.name} : u \in rows}
  IN {k \in DOMAIN util : k \notin known /\ Resolve(k).name \notin known
                          /\ (util[k].hasSeat \/ util[k].calls > 0 \/ util[k].sessions > 0)}
=============================================================================
