------------------------------- MODULE Seats --------------------------------
(***************************************************************************)
(* Fixed costs and seats: which monthly charge a range of days carries,    *)
(* how the charge of a vendor is split among its users, and what changed   *)
(* since the month before (api/src/fixed-costs/fixed-cost-prorate.ts,      *)
(* api/src/analytics/seat-allocation.ts, seat-price-delta.ts and           *)
(* vendor-spend.ts).  A fixed cost is a record [month, vendor, type, line, *)
(* seats, unit, cost], one for each month and plan line.                   *)
(***************************************************************************)
EXTENDS Metering

CONSTANT
  DaysPerMonth    \* length of a billing month; real ones differ by up to three days

ASSUME SeatsAssumption == DaysPerMonth \in Nat \ {0}

\* Math.round(a / b)
RoundDiv(a, b) == (2 * a + b) \div (2 * b)

Month(day) == (day - 1) \div DaysPerMonth + 1

Biggest(x, y) == IF x > y THEN x ELSE y

CostOf(r) == r.cost
SeatsOf(r) == r.seats
-----------------------------------------------------------------------------
(***************************************************************************)
(* fixed-cost-prorate.                                                     *)
(***************************************************************************)

\* overlapDaysInBillingMonth
OverlapDays(month, from, to) ==
  Cardinality({d \in from..to : Month(d) = month})

\* prorateMonthlyCost
ProrateMonthlyCost(cost, month, from, to) == RoundDiv(cost * OverlapDays(month, from, to), DaysPerMonth)

\* sumProratedMonthlyCosts
SumProratedMonthlyCosts(rows, from, to) == Total(rows, LAMBDA r : ProrateMonthlyCost(r.cost, r.month, from, to))

Line(r) == <<r.vendor, r.type, r.line>>

\* collectLatestLineItems, and the first half of sumLineItemsByVendor: each plan line carries forward.
CarriedForward(rows, month) ==
  {r \in rows : r.month <= month /\ \A s \in rows : Line(s) = Line(r) /\ s.month <= month => s.month <= r.month}

\* latestSeatByVendorOnOrBefore
LatestSeatByVendorOnOrBefore(rows, month) ==
  LET now == CarriedForward(rows, month)
      of(v) == {r \in now : r.vendor = v}
      live == {v \in {r.vendor : r \in now} : Total(of(v), CostOf) > 0 \/ Total(of(v), SeatsOf) > 0}
  IN [v \in live |-> [usd |-> Total(of(v), CostOf), seats |-> Total(of(v), SeatsOf),
                      month |-> CHOOSE m \in {r.month : r \in of(v)} : \A r \in of(v) : r.month <= m]]

NewestMonth(rows) == IF rows = {} THEN 0 ELSE CHOOSE m \in {r.month : r \in rows} : \A r \in rows : r.month <= m

\* latestSeatByVendor: as of the end of time.
LatestSeatByVendor(rows) == LatestSeatByVendorOnOrBefore(rows, NewestMonth(rows))

RunRateAsOf(rows, month) ==
  LET seat == LatestSeatByVendorOnOrBefore(rows, month) IN Total(DOMAIN seat, LAMBDA v : seat[v].usd)

\* currentMonthlySeatRunRate
CurrentMonthlySeatRunRate(rows) == RunRateAsOf(rows, NewestMonth(rows))

\* billingMonthsInRange
BillingMonthsInRange(from, to) == Month(from)..Month(to)

\* periodSeatTotalForRange: a range within one month has the current run rate.
PeriodSeatTotalForRange(rows, from, to) ==
  IF Cardinality(BillingMonthsInRange(from, to)) = 1 THEN CurrentMonthlySeatRunRate(rows)
  ELSE Total(BillingMonthsInRange(from, to), LAMBDA m : RunRateAsOf(rows, m))

\* forecastFixedSeatCost
ForecastFixedSeatCost(runRate, days) ==
  IF runRate <= 0 \/ days <= 0 THEN 0 ELSE RoundDiv(runRate * days, DaysPerMonth)
-----------------------------------------------------------------------------
(***************************************************************************)
(* seat-allocation.                                                        *)
(***************************************************************************)

\* unitUsd (kept to the cent; the code keeps the fraction)
UnitUsd(r) == IF r.seats > 0 /\ r.cost > 0 THEN RoundDiv(r.cost, r.seats) ELSE 0

\* keywordSeatClass: a plan line stands for the class its name implies.
KeywordSeatClass(r) ==
  CASE r.type = "subscription" \/ r.line \in {"enterprise", "max", "premium"} -> "premium"
    [] OTHER -> "basic"

\* assignSeatClass: by price where the vendor's lines have two prices, else by name.
AssignSeatClass(r, lines) ==
  LET units == {UnitUsd(s) : s \in {t \in lines : t.vendor = r.vendor}} \ {0}
      lo == CHOOSE u \in units : \A w \in units : u <= w
      hi == CHOOSE u \in units : \A w \in units : u >= w
  IN CASE Cardinality(units) >= 2 /\ 2 * UnitUsd(r) > lo + hi -> "premium"
       [] Cardinality(units) >= 2 /\ 2 * UnitUsd(r) < lo + hi -> "basic"
       [] OTHER -> KeywordSeatClass(r)

Tiers == {"basic", "premium"}

\* seatPoolsForMonth
SeatPoolsForMonth(rows, month) ==
  LET lines == CarriedForward(rows, month)
      of(v, t) == {r \in lines : r.vendor = v /\ (r.cost > 0 \/ r.seats > 0) /\ AssignSeatClass(r, lines) = t}
  IN {[vendor |-> k[1], tier |-> k[2], usd |-> Total(of(k[1], k[2]), CostOf), seats |-> Total(of(k[1], k[2]), SeatsOf)] :
       k \in {q \in {r.vendor : r \in lines} \X Tiers : of(q[1], q[2]) # {}}}

\* seatPoolsForRange: charges add up over the months, capacity does not.
SeatPoolsForRange(rows, from, to) ==
  LET monthly(m) == SeatPoolsForMonth(rows, m)
      months == BillingMonthsInRange(from, to)
      keys == {<<p.vendor, p.tier>> : p \in UNION {monthly(m) : m \in months}}
      of(k, m) == {p \in monthly(m) : <<p.vendor, p.tier>> = k}
      counts(k) == UNION {{p.seats : p \in of(k, m)} : m \in months}
  IN {[vendor |-> k[1], tier |-> k[2],
       usd |-> Total(months, LAMBDA m : Total(of(k, m), LAMBDA p : p.usd)),
       seats |-> CHOOSE n \in counts(k) : \A o \in counts(k) : o <= n] : k \in keys}

\* vendorsWithFixedSeatPools
VendorsWithFixedSeatPools(pools) == {p.vendor : p \in {q \in pools : q.usd > 0}}

\* userTierFor: tags are [user, vendor, tier]; who is not tagged is basic.
UserTierFor(tags, user, vendor) ==
  LET mine == {t \in tags : t.user = user /\ t.vendor = vendor}
  IN IF mine = {} THEN "basic" ELSE (CHOOSE t \in mine : TRUE).tier

\* Mutant: where a vendor has one pool, only users with a matching tag share it.
EligibleByTag(pools, pool, presence, tags) ==
  {u \in DOMAIN presence : pool.vendor \in presence[u] /\ UserTierFor(tags, u, pool.vendor) = pool.tier}

\* The users who share a pool; tags matter only where the vendor has both pools.
Eligible(pools, pool, presence, tags) ==
  LET only == Cardinality({q \in pools : q.vendor = pool.vendor /\ q.usd > 0}) = 1
  IN {u \in DOMAIN presence : /\ pool.vendor \in presence[u]
                              /\ only \/ UserTierFor(tags, u, pool.vendor) = pool.tier}

\* One user's part of a pool: the price of a seat, or an equal share with the remainder for the last.
PartOf(pool, users, u) ==
  LET n == Cardinality(users)
      last == CHOOSE x \in users : TRUE
  IN CASE pool.seats > 0 -> RoundDiv(pool.usd, pool.seats)
       [] pool.seats <= 0 /\ u = last -> Biggest(0, pool.usd - (n - 1) * RoundDiv(pool.usd, n))
       [] OTHER -> RoundDiv(pool.usd, n)

\* allocateSeatPools: presence gives each user's vendors.
AllocateSeatPools(pools, presence, tags) ==
  [u \in DOMAIN presence |->
     [v \in VendorsWithFixedSeatPools(pools) |->
        Total({p \in pools : /\ p.vendor = v /\ p.usd > 0 /\ u \in Eligible(pools, p, presence, tags)},
              LAMBDA p : PartOf(p, Eligible(pools, p, presence, tags), u))]]

\* CATALOG_SEAT_UNIT_USD, in cents, for the vendors that have a basic seat; only Anthropic lists a premium one.
CatalogSeatUnit(vendor, tier) ==
  IF tier = "premium" THEN (IF vendor = "anthropic" THEN 10000 ELSE 0)
  ELSE CASE vendor \in {"openai", "anthropic"} -> 3000
         [] vendor = "cursor" -> 4000
         [] vendor \in {"google", "perplexity"} -> 2000
         [] vendor = "github" -> 1900
         [] OTHER -> 0

SeatOf(alloc, u, v) == IF u \in DOMAIN alloc /\ v \in DOMAIN alloc[u] THEN alloc[u][v] ELSE 0

\* mergeAllocatedWithConnectorFallback, then applyCatalogSeatFallback: a vendor with a pool has no other seats.
SeatUsd(alloc, connectorSeats, tags, fixed, u, v) ==
  LET tagged == {t \in tags : t.user = u /\ t.vendor = v}
  IN CASE v \in fixed -> SeatOf(alloc, u, v)
       [] v \notin fixed /\ SeatOf(connectorSeats, u, v) > 0 -> SeatOf(connectorSeats, u, v)
       [] OTHER -> IF tagged = {} THEN 0 ELSE CatalogSeatUnit(v, UserTierFor(tags, u, v))
-----------------------------------------------------------------------------
(***************************************************************************)
(* seat-price-delta.                                                       *)
(***************************************************************************)

\* resolveUnitCost
ResolveUnitCost(s) == IF s.unit > 0 THEN s.unit ELSE IF s.seats > 0 /\ s.usd > 0 THEN RoundDiv(s.usd, s.seats) ELSE 0

\* seatPriceDelta: the volume effect at the old price, the rest is the rate.
SeatPriceDelta(now, before) ==
  LET delta == now.usd - before.usd
      volume == (now.seats - before.seats) * ResolveUnitCost(before)
  IN [seats |-> now.seats - before.seats, usd |-> delta, fromSeats |-> volume, fromRate |-> delta - volume]

\* vendorSeatChanges: against the month before each vendor's newest row.
VendorSeatChanges(rows) ==
  LET now == LatestSeatByVendor(rows)
      prior(v) == LatestSeatByVendorOnOrBefore(rows, now[v].month - 1)
      snap(s) == [seats |-> s.seats, usd |-> s.usd, unit |-> 0]
  IN [v \in DOMAIN now |->
        IF v \notin DOMAIN prior(v) THEN [seats |-> now[v].seats, fromSeats |-> 0, fromRate |-> 0]
        ELSE LET d == SeatPriceDelta(snap(now[v]), snap(prior(v)[v]))
             IN [seats |-> now[v].seats, fromSeats |-> IF d.seats # 0 THEN d.fromSeats ELSE 0,
                 fromRate |-> IF d.seats # 0 THEN 0 ELSE d.fromRate]]
-----------------------------------------------------------------------------
(***************************************************************************)
(* vendor-spend.                                                           *)
(***************************************************************************)

\* platformToVendor
PlatformToVendor(p) ==
  CASE p \in {"github_copilot", "copilot"} -> "github"
    [] p = "azure_openai" -> "azure"
    [] p = "vertex" -> "google"
    [] p = "bedrock" -> "aws"
    [] OTHER -> p

\* isSeatAllocatedPlatform
IsSeatAllocatedPlatform(p) == p \in {"github_copilot", "copilot"}

Slice(seat, overage) == [seat |-> seat, overage |-> overage, total |-> seat + overage]

\* buildUserVendorSpend: breakdown is the user's cost by platform, cursor and copilot their seats and overage.
BuildUserVendorSpend(breakdown, cursor, copilot, allocated) ==
  LET spent(v) == Total({p \in DOMAIN breakdown : PlatformToVendor(p) = v /\ ~ IsSeatAllocatedPlatform(p)},
                        LAMBDA p : breakdown[p])
      seat(v) == IF v \in DOMAIN allocated /\ allocated[v] > 0 THEN allocated[v]
                 ELSE CASE v = "github" -> copilot.seat [] v = "cursor" -> cursor.seat [] OTHER -> 0
      overage(v) == CASE v = "github" -> copilot.overage
                      [] v = "cursor" /\ cursor.overage > 0 -> cursor.overage
                      [] OTHER -> spent(v)
      vendors == {PlatformToVendor(p) : p \in DOMAIN breakdown} \union {"github", "cursor"} \union DOMAIN allocated
  IN [v \in {w \in vendors : seat(w) + overage(w) > 0} |-> Slice(seat(v), overage(v))]

\* sumUserVendorSpend
SumUserVendorSpend(slices) == Total(DOMAIN slices, LAMBDA v : slices[v].total)

\* buildOrgVendorBilling
BuildOrgVendorBilling(seat, overage) ==
  LET of(f, v) == IF v \in DOMAIN f THEN f[v] ELSE 0
      vendors == {v \in DOMAIN seat \union DOMAIN overage : of(seat, v) + of(overage, v) > 0}
  IN [v \in vendors |-> Slice(of(seat, v), of(overage, v))]

\* orderedVendorIds, as a set
OrderedVendorIds(slices, org) == {v \in DOMAIN slices : slices[v].total > 0} \union {v \in DOMAIN org : org[v].total > 0}
=============================================================================
