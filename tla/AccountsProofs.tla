---------------------------- MODULE AccountsProofs ----------------------------
(***************************************************************************)
(* Proofs, for any number of addresses, requests, invitations and changes, *)
(* of how long withdrawn access may last and of what requests that overlap *)
(* may leave behind.                                                       *)
(***************************************************************************)
EXTENDS Accounts, FiniteSetTheorems, TLAPS

Rows == [exists : BOOLEAN, gen : 0..Generations, role : Roles, active : BOOLEAN, jit : BOOLEAN]
Flows == [at : {"idle", "mint", "remint", "provision", "reread", "audit", "insert"},
          user : Emails \X (0..Generations), role : Roles, by : Emails]
InviteRows == [status : Statuses, email : Emails, role : Roles, by : Emails, expires : Nat]

Typed ==
  /\ TypeOK /\ held \in [Users -> [Roles -> Nat]]
  /\ \A e \in Emails : ids[e].exists => ids[e].gen \in 1..Generations

\* Tokens that are kept have not expired, and none outlives its user's last active
\* moment by more than AccessTtl.
SessionInv ==
  \A u \in Users, r \in Roles :
    /\ held[u][r] <= clock
    /\ access[u][r] = 0 \/ access[u][r] > clock
    /\ access[u][r] <= held[u][r] + AccessTtl

\* WithdrawnWithinTtl is not inductive by itself: a request that is about to mint has
\* read its user's role at this very moment of the clock.
FlowInv ==
  \A q \in Requests : flow[q].at \in {"mint", "remint", "audit"} =>
    flow[q].user \in Users /\ held[flow[q].user][flow[q].role] = clock

Inserting(e) == {q \in Requests : flow[q].at = "insert" /\ flow[q].user[1] = e}
Counted(e) == Cardinality(PendingFor(e)) + Cardinality(Inserting(e)) <= Cardinality(Requests)
Provisioned(e) ==
  ids[e].jit => \/ UserOf(e) \in audited \union unaudited
                \/ \E q \in Requests : flow[q].at = "audit" /\ flow[q].user = UserOf(e)

AccountsInv ==
  /\ Typed /\ SessionInv /\ FlowInv
  /\ \A e \in Emails : Counted(e) /\ Provisioned(e)
-----------------------------------------------------------------------------
(***************************************************************************)
(* What the parts of the invariant need of a step.                         *)
(***************************************************************************)
LEMMA Facts ==
  ASSUME Typed
  PROVE  /\ ids \in [Emails -> Rows] /\ flow \in [Requests -> Flows] /\ invites \in [Invites -> InviteRows]
         /\ access \in [Users -> [Roles -> Nat]] /\ held \in [Users -> [Roles -> Nat]]
         /\ refresh \in [Users -> Nat] /\ clock \in Nat /\ clock \in 0..MaxClock /\ changes \in 0..MaxChanges
         /\ AccessTtl \in Nat \ {0} /\ Generations \in Nat \ {0} /\ MaxClock \in Nat
BY AccountsAssumption DEF Typed, TypeOK, Rows, Flows, InviteRows

\* The user an existing identity stands for.
LEMMA UserOfRow ==
  ASSUME Typed, NEW e \in Emails, ids[e].exists
  PROVE  /\ UserOf(e) \in Users /\ UserOf(e) \in Emails \X (0..Generations) /\ ids[e].role \in Roles
         /\ ids[e].active => Holds(ids, UserOf(e), ids[e].role)
<1>1. ids[e] \in Rows /\ ids[e].gen \in 1..Generations /\ Generations \in Nat
  BY Facts DEF Typed
<1>2. ids[e].gen \in 0..Generations
  BY <1>1
<1>3. QED BY <1>1, <1>2 DEF UserOf, Users, Holds, Rows

\* The history of who was active when, while the clock stands still.
LEMMA HeldStep ==
  ASSUME Typed, SessionInv, Remember, clock' = clock
  PROVE  /\ held' \in [Users -> [Roles -> Nat]]
         /\ \A u \in Users, r \in Roles :
              /\ held'[u][r] <= clock
              /\ held[u][r] = clock => held'[u][r] = clock
              /\ Holds(ids, u, r) \/ Holds(ids', u, r) => held'[u][r] = clock
              /\ \/ held'[u][r] = clock \/ held'[u][r] = held[u][r]
                 \/ held[u][r] + AccessTtl <= clock /\ held'[u][r] = 0
<1>1. /\ held \in [Users -> [Roles -> Nat]] /\ clock \in Nat /\ AccessTtl \in Nat \ {0}
  BY Facts
<1>2. ASSUME NEW u \in Users, NEW r \in Roles
      PROVE  held'[u][r] = IF Holds(ids', u, r) \/ Holds(ids, u, r) THEN clock
                           ELSE IF held[u][r] + AccessTtl > clock THEN held[u][r] ELSE 0
  BY DEF Remember
<1>3. held' = [u \in Users |-> [r \in Roles |-> held'[u][r]]]
  BY DEF Remember
<1>4. ASSUME NEW u \in Users, NEW r \in Roles
      PROVE  /\ held'[u][r] \in Nat /\ held'[u][r] <= clock
             /\ held[u][r] = clock => held'[u][r] = clock
             /\ Holds(ids, u, r) \/ Holds(ids', u, r) => held'[u][r] = clock
             /\ \/ held'[u][r] = clock \/ held'[u][r] = held[u][r]
                \/ held[u][r] + AccessTtl <= clock /\ held'[u][r] = 0
  <2>1. held[u][r] \in Nat /\ held[u][r] <= clock
    BY <1>1 DEF SessionInv
  <2>2. CASE Holds(ids', u, r) \/ Holds(ids, u, r)
    <3>1. held'[u][r] = clock
      BY <1>2, <2>2
    <3>2. QED BY <1>1, <3>1
  <2>3. CASE ~ (Holds(ids', u, r) \/ Holds(ids, u, r)) /\ held[u][r] + AccessTtl > clock
    <3>1. held'[u][r] = held[u][r]
      BY <1>2, <2>3
    <3>2. QED BY <2>1, <2>3, <3>1
  <2>4. CASE ~ (Holds(ids', u, r) \/ Holds(ids, u, r)) /\ ~ (held[u][r] + AccessTtl > clock)
    <3>1. held'[u][r] = 0
      BY <1>2, <2>4
    <3>2. QED BY <1>1, <2>1, <2>4, <3>1
  <2>5. QED BY <2>2, <2>3, <2>4
<1>5. held' \in [Users -> [Roles -> Nat]]
  BY <1>3, <1>4
<1>6. QED BY <1>4, <1>5

\* Tokens are left alone, or minted for a user who has just been seen active.
LEMMA SessionsStay ==
  ASSUME Typed, SessionInv, Remember, clock' = clock,
         \A u \in Users, r \in Roles :
           \/ access'[u][r] = access[u][r]
           \/ held[u][r] = clock /\ access'[u][r] = Latest(access[u][r], clock + AccessTtl)
  PROVE  SessionInv'
<1>1. ASSUME NEW u \in Users, NEW r \in Roles
      PROVE  /\ held'[u][r] <= clock /\ (access'[u][r] = 0 \/ access'[u][r] > clock)
             /\ access'[u][r] <= held'[u][r] + AccessTtl
  <2>1. /\ clock \in Nat /\ AccessTtl \in Nat \ {0} /\ held[u][r] \in Nat /\ access[u][r] \in Nat
    BY Facts
  <2>2. /\ held[u][r] <= clock /\ (access[u][r] = 0 \/ access[u][r] > clock)
        /\ access[u][r] <= held[u][r] + AccessTtl
    BY DEF SessionInv
  <2>3. /\ held'[u][r] <= clock /\ (held[u][r] = clock => held'[u][r] = clock)
        /\ \/ held'[u][r] = clock \/ held'[u][r] = held[u][r]
           \/ held[u][r] + AccessTtl <= clock /\ held'[u][r] = 0
    BY HeldStep
  <2>4. CASE access'[u][r] = access[u][r]
    BY <2>1, <2>2, <2>3, <2>4
  <2>5. CASE held[u][r] = clock /\ access'[u][r] = Latest(access[u][r], clock + AccessTtl)
    <3>1. access'[u][r] = clock + AccessTtl \/ (access'[u][r] = access[u][r] /\ access[u][r] > clock + AccessTtl)
      BY <2>1, <2>5 DEF Latest
    <3>2. QED BY <2>1, <2>2, <2>3, <2>5, <3>1
  <2>6. QED BY <2>4, <2>5
<1>2. QED BY <1>1 DEF SessionInv

\* One request moves on; the others still hold what they have read.
LEMMA FlowStays ==
  ASSUME Typed, SessionInv, FlowInv, Remember, clock' = clock, NEW q \in Requests, NEW f \in Flows,
         flow' = [flow EXCEPT ![q] = f],
         f.at \in {"mint", "remint", "audit"} => f.user \in Users /\ held'[f.user][f.role] = clock
  PROVE  FlowInv'
<1>1. ASSUME NEW p \in Requests, flow'[p].at \in {"mint", "remint", "audit"}
      PROVE  flow'[p].user \in Users /\ held'[flow'[p].user][flow'[p].role] = clock
  <2>1. CASE p = q
    BY <1>1, <2>1, Facts
  <2>2. CASE p # q
    <3>1. flow'[p] = flow[p] /\ flow[p] \in Flows
      BY <2>2, Facts
    <3>2. flow[p].user \in Users /\ flow[p].role \in Roles /\ held[flow[p].user][flow[p].role] = clock
      BY <1>1, <3>1 DEF FlowInv, Flows
    <3>3. held'[flow[p].user][flow[p].role] = clock
      BY <3>2, HeldStep
    <3>4. QED BY <3>1, <3>2, <3>3
  <2>3. QED BY <2>1, <2>2
<1>2. QED BY <1>1 DEF FlowInv

LEMMA FlowKept ==
  ASSUME Typed, SessionInv, FlowInv, Remember, clock' = clock, flow' = flow
  PROVE  FlowInv'
<1>1. ASSUME NEW p \in Requests, flow[p].at \in {"mint", "remint", "audit"}
      PROVE  flow[p].user \in Users /\ held'[flow[p].user][flow[p].role] = clock
  <2>1. flow[p].user \in Users /\ flow[p].role \in Roles /\ held[flow[p].user][flow[p].role] = clock
    BY <1>1, Facts DEF FlowInv, Flows
  <2>2. QED BY <2>1, HeldStep
<1>2. QED BY <1>1 DEF FlowInv

LEMMA CountFinite ==
  ASSUME NEW e
  PROVE  /\ IsFiniteSet(PendingFor(e)) /\ Cardinality(PendingFor(e)) \in Nat
         /\ IsFiniteSet(Inserting(e)) /\ Cardinality(Inserting(e)) \in Nat
         /\ Cardinality(Inserting(e)) <= Cardinality(Requests) /\ Cardinality(Requests) \in Nat
<1>1. /\ IsFiniteSet(Invites) /\ PendingFor(e) \subseteq Invites
      /\ IsFiniteSet(Requests) /\ Inserting(e) \subseteq Requests
  BY AccountsAssumption DEF PendingFor, Inserting
<1>2. QED BY <1>1, FS_Subset, FS_CardinalityType

LEMMA CountStays ==
  ASSUME NEW e, Counted(e), PendingFor(e)' \subseteq PendingFor(e), Inserting(e)' \subseteq Inserting(e)
  PROVE  Counted(e)'
<1>1. /\ IsFiniteSet(PendingFor(e)) /\ Cardinality(PendingFor(e)) \in Nat
      /\ IsFiniteSet(Inserting(e)) /\ Cardinality(Inserting(e)) \in Nat /\ Cardinality(Requests) \in Nat
  BY CountFinite
<1>2. /\ Cardinality(PendingFor(e)') <= Cardinality(PendingFor(e)) /\ Cardinality(PendingFor(e)') \in Nat
      /\ Cardinality(Inserting(e)') <= Cardinality(Inserting(e)) /\ Cardinality(Inserting(e)') \in Nat
  BY <1>1, FS_Subset, FS_CardinalityType
<1>3. QED BY <1>1, <1>2 DEF Counted
-----------------------------------------------------------------------------
(***************************************************************************)
(* Steps that move one request on.                                         *)
(***************************************************************************)
\* A request that was not about to audit reads rows, counts invitations or gives up.
LEMMA MovesOn ==
  ASSUME AccountsInv, Remember, UNCHANGED <<ids, access, refresh>>, Unchanged,
         NEW q \in Requests, NEW f \in Flows, flow' = [flow EXCEPT ![q] = f], flow[q].at # "audit",
         f.at \in {"mint", "remint", "audit"} => f.user \in Users /\ Holds(ids, f.user, f.role),
         f.at = "insert" => PendingFor(f.user[1]) = {}
  PROVE  AccountsInv'
<1>1. /\ Typed /\ SessionInv /\ FlowInv /\ flow \in [Requests -> Flows]
      /\ UNCHANGED <<invites, clock, changes, audited, unaudited, wanted, ids, access, refresh>>
  BY Facts DEF AccountsInv, Unchanged
<1>2. Typed'
  <2>1. held' \in [Users -> [Roles -> Nat]] /\ flow' \in [Requests -> Flows]
    BY <1>1, HeldStep
  <2>2. QED BY <1>1, <2>1 DEF Typed, TypeOK, Flows
<1>3. SessionInv'
  BY <1>1, SessionsStay
<1>4. FlowInv'
  <2>1. f.role \in Roles
    BY DEF Flows
  <2>2. f.at \in {"mint", "remint", "audit"} => f.user \in Users /\ held'[f.user][f.role] = clock
    BY <1>1, <2>1, HeldStep
  <2>3. QED BY <1>1, <2>2, FlowStays
<1>5. ASSUME NEW e \in Emails PROVE Counted(e)'
  <2>1. PendingFor(e)' = PendingFor(e) /\ Counted(e)
    BY <1>1 DEF PendingFor, Live, AccountsInv
  <2>2. CASE f.at = "insert" /\ f.user[1] = e
    <3>1. PendingFor(e)' = {}
      BY <2>1, <2>2
    <3>2. /\ IsFiniteSet(Requests) /\ Inserting(e)' \subseteq Requests
      BY AccountsAssumption DEF Inserting
    <3>3. /\ Cardinality(Inserting(e)') <= Cardinality(Requests) /\ Cardinality(Inserting(e)') \in Nat
          /\ Cardinality({}) = 0
      BY <3>2, FS_Subset, FS_CardinalityType, FS_EmptySet
    <3>4. QED BY <3>1, <3>3 DEF Counted
  <2>3. CASE ~ (f.at = "insert" /\ f.user[1] = e)
    <3>1. Inserting(e)' \subseteq Inserting(e)
      BY <1>1, <2>3 DEF Inserting
    <3>2. QED BY <2>1, <3>1, CountStays
  <2>4. QED BY <2>2, <2>3
<1>6. ASSUME NEW e \in Emails PROVE Provisioned(e)'
  <2>1. Provisioned(e) /\ UserOf(e)' = UserOf(e)
    BY <1>1 DEF AccountsInv, UserOf
  <2>2. \A p \in Requests : flow[p].at = "audit" => flow'[p] = flow[p]
    BY <1>1
  <2>3. QED BY <1>1, <2>1, <2>2 DEF Provisioned
<1>7. QED BY <1>2, <1>3, <1>4, <1>5, <1>6 DEF AccountsInv

LEMMA FlowTyped ==
  /\ IdleFlow \in Flows /\ IdleFlow.at = "idle"
  /\ \A a \in {"idle", "mint", "remint", "provision", "reread", "audit", "insert"} :
       \A u \in Emails \X (0..Generations) : \A r \in Roles : \A b \in Emails :
         [at |-> a, user |-> u, role |-> r, by |-> b] \in Flows
<1>1. Founder \in Emails /\ 1 \in 0..Generations
  BY AccountsAssumption
<1>2. <<Founder, 1>> \in Emails \X (0..Generations) /\ "viewer" \in Roles
  BY <1>1 DEF Roles
<1>3. QED BY <1>1, <1>2 DEF Flows, IdleFlow

\* A session is about to be minted from an active row.
LEMMA ReadRow ==
  ASSUME AccountsInv, Remember, UNCHANGED <<ids, access, refresh>>, Unchanged, NEW q \in Requests,
         flow[q].at # "audit", NEW e \in Emails, NEW a \in {"mint", "remint"}, Active(e), Go(q, a, UserOf(e), ids[e].role)
  PROVE  AccountsInv'
<1> DEFINE f == [at |-> a, user |-> UserOf(e), role |-> ids[e].role, by |-> Founder]
<1>1. /\ UserOf(e) \in Users /\ UserOf(e) \in Emails \X (0..Generations) /\ ids[e].role \in Roles
      /\ Holds(ids, UserOf(e), ids[e].role)
  BY UserOfRow DEF Active, AccountsInv
<1>2. f \in Flows
  BY <1>1, FlowTyped, AccountsAssumption
<1>3. flow' = [flow EXCEPT ![q] = f] /\ f.at # "insert" /\ f.user = UserOf(e) /\ f.role = ids[e].role
  BY DEF Go
<1> HIDE DEF f
<1>4. QED BY <1>1, <1>2, <1>3, MovesOn

LEMMA LoginByEmailStep ==
  ASSUME AccountsInv, Remember, NEW q \in Requests, NEW e \in Emails, LoginByEmail(q, e) PROVE AccountsInv'
<1>1. /\ flow[q].at # "audit" /\ Active(e) /\ Go(q, "mint", UserOf(e), ids[e].role)
      /\ UNCHANGED <<ids, access, refresh>> /\ Unchanged
  BY DEF LoginByEmail
<1>2. QED BY <1>1, ReadRow

LEMMA SsoLookupStep ==
  ASSUME AccountsInv, Remember, NEW q \in Requests, NEW e \in Emails, SsoLookup(q, e) PROVE AccountsInv'
<1>1. flow[q].at # "audit" /\ UNCHANGED <<ids, access, refresh>> /\ Unchanged
  BY DEF SsoLookup
<1>2. CASE Active(e) /\ Go(q, "mint", UserOf(e), ids[e].role)
  BY <1>1, <1>2, ReadRow
<1>3. CASE Go(q, "provision", <<e, 0>>, DefaultRole)
  <2> DEFINE f == [at |-> "provision", user |-> <<e, 0>>, role |-> DefaultRole, by |-> Founder]
  <2>1. <<e, 0>> \in Emails \X (0..Generations) /\ DefaultRole \in Roles /\ Founder \in Emails
    BY AccountsAssumption
  <2>2. f \in Flows
    BY <2>1, FlowTyped
  <2>3. flow' = [flow EXCEPT ![q] = f] /\ f.at = "provision"
    BY <1>3 DEF Go
  <2> HIDE DEF f
  <2>4. QED BY <1>1, <2>2, <2>3, MovesOn
<1>4. QED BY <1>2, <1>3 DEF SsoLookup

LEMMA SsoRereadStep ==
  ASSUME AccountsInv, Remember, NEW q \in Requests, SsoReread(q) PROVE AccountsInv'
<1>0. /\ Typed /\ SessionInv /\ FlowInv /\ ids \in [Emails -> Rows] /\ flow \in [Requests -> Flows]
      /\ invites \in [Invites -> InviteRows] /\ Generations \in Nat \ {0}
  BY Facts DEF AccountsInv
<1>1. flow[q].at # "audit" /\ UNCHANGED <<ids, access, refresh>> /\ Unchanged /\ flow[q].user[1] \in Emails
  BY <1>0 DEF SsoReread, Flows
<1>2. CASE Active(flow[q].user[1]) /\ Go(q, "mint", UserOf(flow[q].user[1]), ids[flow[q].user[1]].role)
  BY <1>1, <1>2, ReadRow
<1>3. CASE flow' = [flow EXCEPT ![q] = IdleFlow]
  BY <1>1, <1>3, FlowTyped, MovesOn
<1>4. QED BY <1>2, <1>3 DEF SsoReread

LEMMA RefreshReadStep ==
  ASSUME AccountsInv, Remember, NEW q \in Requests, NEW u \in Users, RefreshRead(q, u) PROVE AccountsInv'
<1>1. /\ flow[q].at # "audit" /\ u[1] \in Emails /\ Active(u[1]) /\ UserOf(u[1]) = u
      /\ Go(q, "remint", u, ids[u[1]].role) /\ UNCHANGED <<ids, access, refresh>> /\ Unchanged
  BY DEF RefreshRead, Active, UserOf, Users
<1>2. QED BY <1>1, ReadRow

LEMMA InviteCountStep ==
  ASSUME AccountsInv, Remember, NEW q \in Requests, NEW e \in Emails, InviteCount(q, e) PROVE AccountsInv'
<1>1. /\ flow[q].at # "audit" /\ PendingFor(e) = {} /\ UNCHANGED <<ids, access, refresh>> /\ Unchanged
  BY DEF InviteCount
<1>2. PICK u \in Users, r \in GrantedRoles :
         flow' = [flow EXCEPT ![q] = [at |-> "insert", user |-> <<e, 0>>, role |-> r, by |-> u[1]]]
  BY DEF InviteCount
<1> DEFINE f == [at |-> "insert", user |-> <<e, 0>>, role |-> r, by |-> u[1]]
<1>3. <<e, 0>> \in Emails \X (0..Generations) /\ r \in Roles /\ u[1] \in Emails
  BY AccountsAssumption DEF Users
<1>4. f \in Flows
  BY <1>3, FlowTyped
<1>5. flow' = [flow EXCEPT ![q] = f] /\ f.at = "insert" /\ f.user[1] = e
  BY <1>2
<1> HIDE DEF f
<1>6. QED BY <1>1, <1>4, <1>5, MovesOn

\* A token is minted from what the request has read.
LEMMA MintStep ==
  ASSUME AccountsInv, Remember, NEW q \in Requests, Mint(q) \/ RefreshMint(q) PROVE AccountsInv'
<1>0. /\ Typed /\ SessionInv /\ FlowInv /\ ids \in [Emails -> Rows] /\ flow \in [Requests -> Flows]
      /\ invites \in [Invites -> InviteRows] /\ Generations \in Nat \ {0}
  BY Facts DEF AccountsInv
<1> DEFINE u == flow[q].user
           r == flow[q].role
<1>1. /\ flow[q].at \in {"mint", "remint"} /\ access' = Granted(u, r) /\ flow' = [flow EXCEPT ![q] = IdleFlow]
      /\ UNCHANGED <<ids, invites, clock, changes, audited, unaudited, wanted>>
      /\ refresh' = refresh \/ refresh' = [refresh EXCEPT ![u] = Latest(@, clock + RefreshTtl)]
  BY DEF Mint, RefreshMint, Unchanged
<1>2. u \in Users /\ r \in Roles /\ held[u][r] = clock
  BY <1>0, <1>1 DEF FlowInv, Flows
<1> HIDE DEF u, r
<1>3. /\ access \in [Users -> [Roles -> Nat]] /\ refresh \in [Users -> Nat] /\ clock \in Nat
      /\ RefreshTtl \in Nat /\ AccessTtl \in Nat
  BY <1>0, Facts, AccountsAssumption
<1>4. /\ \A v \in Users, s \in Roles :
           access'[v][s] = IF v = u /\ s = r THEN Latest(access[u][r], clock + AccessTtl) ELSE access[v][s]
      /\ access' \in [Users -> [Roles -> Nat]]
  <2>1. Latest(access[u][r], clock + AccessTtl) \in Nat
    BY <1>2, <1>3 DEF Latest
  <2>2. access' = [access EXCEPT ![u] = [access[u] EXCEPT ![r] = Latest(access[u][r], clock + AccessTtl)]]
    BY <1>1 DEF Granted
  <2>3. access[u] \in [Roles -> Nat] /\ [access[u] EXCEPT ![r] = Latest(access[u][r], clock + AccessTtl)] \in [Roles -> Nat]
    BY <1>2, <1>3, <2>1
  <2>4. QED BY <1>2, <1>3, <2>1, <2>2, <2>3
<1>5. refresh' \in [Users -> Nat]
  <2>1. refresh[u] \in Nat /\ clock + RefreshTtl \in Nat
    BY <1>2, <1>3
  <2>2. Latest(refresh[u], clock + RefreshTtl) \in Nat
    BY <2>1 DEF Latest
  <2>3. QED BY <1>1, <1>2, <1>3, <2>2
<1>6. Typed'
  <2>1. held' \in [Users -> [Roles -> Nat]] /\ flow' \in [Requests -> Flows]
    BY <1>0, <1>1, HeldStep, FlowTyped
  <2>2. QED BY <1>0, <1>1, <1>4, <1>5, <2>1 DEF Typed, TypeOK, Flows
<1>7. SessionInv'
  BY <1>0, <1>1, <1>2, <1>4, SessionsStay
<1>8. FlowInv'
  BY <1>0, <1>1, FlowTyped, FlowStays
<1>9. ASSUME NEW e \in Emails PROVE Counted(e)' /\ Provisioned(e)'
  <2>1. PendingFor(e)' = PendingFor(e) /\ Counted(e) /\ Provisioned(e) /\ UserOf(e)' = UserOf(e)
    BY <1>1 DEF PendingFor, Live, AccountsInv, UserOf
  <2>2. Inserting(e)' \subseteq Inserting(e)
    BY <1>0, <1>1, FlowTyped DEF Inserting
  <2>3. \A p \in Requests : flow[p].at = "audit" => flow'[p] = flow[p]
    BY <1>0, <1>1
  <2>4. Counted(e)'
    BY <2>1, <2>2, CountStays
  <2>5. Provisioned(e)'
    BY <1>1, <2>1, <2>3 DEF Provisioned
  <2>6. QED BY <2>4, <2>5
<1>10. QED BY <1>6, <1>7, <1>8, <1>9 DEF AccountsInv

\* The first login of an address that is still free creates its identity.
LEMMA SsoProvisionStep ==
  ASSUME AccountsInv, Remember, NEW q \in Requests, SsoProvision(q) PROVE AccountsInv'
<1>0. /\ Typed /\ SessionInv /\ FlowInv /\ ids \in [Emails -> Rows] /\ flow \in [Requests -> Flows]
      /\ invites \in [Invites -> InviteRows] /\ Generations \in Nat \ {0}
  BY Facts DEF AccountsInv
<1> DEFINE e == flow[q].user[1]
           u == <<e, ids[e].gen + 1>>
           row == [exists |-> TRUE, gen |-> ids[e].gen + 1, role |-> DefaultRole, active |-> TRUE, jit |-> TRUE]
           f == [at |-> "audit", user |-> u, role |-> DefaultRole, by |-> Founder]
<1>1. /\ flow[q].at = "provision" /\ e \in Emails /\ UNCHANGED <<access, refresh>> /\ Unchanged
      /\ flow[q].user \in Emails \X (0..Generations) /\ flow[q].role \in Roles /\ Founder \in Emails /\ DefaultRole \in Roles
  BY <1>0, AccountsAssumption DEF SsoProvision, Flows
<1>2. CASE Go(q, "reread", flow[q].user, flow[q].role) /\ UNCHANGED ids
  <2> DEFINE g == [at |-> "reread", user |-> flow[q].user, role |-> flow[q].role, by |-> Founder]
  <2>1. g \in Flows
    BY <1>1, FlowTyped
  <2>2. flow' = [flow EXCEPT ![q] = g] /\ g.at = "reread"
    BY <1>2 DEF Go
  <2> HIDE DEF g, e, u, row, f
  <2>3. QED BY <1>1, <1>2, <2>1, <2>2, MovesOn
<1>3. CASE ids[e].gen < Generations /\ ids' = [ids EXCEPT ![e] = row] /\ Go(q, "audit", u, DefaultRole)
  <2>1. /\ ids[e].gen + 1 \in 1..Generations /\ u \in Users /\ u \in Emails \X (0..Generations) /\ row \in Rows
        /\ row.gen = ids[e].gen + 1 /\ row.jit
    <3>1. ids[e].gen \in 0..Generations
      BY <1>0, <1>1 DEF Rows
    <3>2. ids[e].gen + 1 \in 1..Generations /\ ids[e].gen + 1 \in 0..Generations
      BY <1>0, <1>3, <3>1
    <3>3. QED BY <1>1, <3>2 DEF Users, Rows
  <2>2. f \in Flows /\ f.at = "audit" /\ f.user = u /\ f.role = DefaultRole
    BY <1>1, <2>1, FlowTyped
  <2>3. flow' = [flow EXCEPT ![q] = f] /\ ids'[e] = row /\ ids' \in [Emails -> Rows]
    BY <1>0, <1>1, <1>3, <2>1 DEF Go
  <2>4. Holds(ids', u, DefaultRole)
    BY <2>3 DEF Holds
  <2>5. UNCHANGED <<invites, clock, changes, audited, unaudited, wanted, access, refresh>>
    BY <1>1 DEF Unchanged
  <2>6. UserOf(e)' = u
    BY <2>3 DEF UserOf
  <2>7. \A d \in Emails : d # e => ids'[d] = ids[d] /\ UserOf(d)' = UserOf(d)
    BY <1>0, <1>3 DEF UserOf
  <2>8. \A d \in Emails : ids'[d].exists => ids'[d].gen \in 1..Generations
    BY <1>0, <2>1, <2>3, <2>7 DEF Typed
  <2>9. \A d \in Emails : d = e => UserOf(d)' = u
    BY <2>3 DEF UserOf
  <2> HIDE DEF e, u, row, f
  <2>10. Typed'
    <3>1. held' \in [Users -> [Roles -> Nat]] /\ flow' \in [Requests -> Flows]
      BY <1>0, <2>2, <2>3, <2>5, HeldStep
    <3>2. QED BY <1>0, <2>3, <2>5, <2>8, <3>1 DEF Typed, TypeOK, Flows, Rows
  <2>11. SessionInv'
    BY <1>0, <2>5, SessionsStay
  <2>12. FlowInv'
    <3>1. held'[u][DefaultRole] = clock
      BY <1>0, <1>1, <2>1, <2>4, <2>5, HeldStep
    <3>2. QED BY <1>0, <2>1, <2>2, <2>3, <2>5, <3>1, FlowStays
  <2>13. ASSUME NEW d \in Emails PROVE Counted(d)'
    <3>1. PendingFor(d)' = PendingFor(d) /\ Counted(d)
      BY <2>5 DEF PendingFor, Live, AccountsInv
    <3>2. Inserting(d)' \subseteq Inserting(d)
      BY <1>0, <2>2, <2>3 DEF Inserting
    <3>3. QED BY <3>1, <3>2, CountStays
  <2>14. ASSUME NEW d \in Emails PROVE Provisioned(d)'
    <3>1. CASE d = e
      <4>1. flow'[q] = f
        BY <1>0, <2>3
      <4>2. UserOf(d)' = u
        BY <2>9, <3>1
      <4>3. flow'[q].at = "audit" /\ flow'[q].user = UserOf(d)'
        BY <2>2, <4>1, <4>2
      <4>4. QED BY <4>3 DEF Provisioned
    <3>2. CASE d # e
      <4>1. Provisioned(d) /\ ids'[d] = ids[d] /\ UserOf(d)' = UserOf(d)
        BY <2>7, <3>2 DEF AccountsInv
      <4>2. \A p \in Requests : flow[p].at = "audit" => flow'[p] = flow[p]
        BY <1>0, <1>1, <2>3
      <4>3. QED BY <2>5, <4>1, <4>2 DEF Provisioned
    <3>3. QED BY <3>1, <3>2
  <2>15. QED BY <2>10, <2>11, <2>12, <2>13, <2>14 DEF AccountsInv
<1>4. QED BY <1>2, <1>3 DEF SsoProvision

LEMMA SsoAuditStep ==
  ASSUME AccountsInv, Remember, NEW q \in Requests, SsoAudit(q) PROVE AccountsInv'
<1>0. /\ Typed /\ SessionInv /\ FlowInv /\ ids \in [Emails -> Rows] /\ flow \in [Requests -> Flows]
      /\ invites \in [Invites -> InviteRows] /\ Generations \in Nat \ {0}
  BY Facts DEF AccountsInv
<1> DEFINE u == flow[q].user
           g == [at |-> "mint", user |-> u, role |-> flow[q].role, by |-> Founder]
<1>1. flow[q].at = "audit" /\ UNCHANGED <<ids, access, refresh, invites, clock, changes, wanted>>
  BY DEF SsoAudit
<1>2. /\ u \in Users /\ u \in Emails \X (0..Generations) /\ flow[q].role \in Roles /\ held[u][flow[q].role] = clock
      /\ Founder \in Emails
  BY <1>0, <1>1, AccountsAssumption DEF FlowInv, Flows
<1>3. g \in Flows /\ g.at = "mint" /\ g.user = u /\ g.role = flow[q].role
  BY <1>2, FlowTyped
<1>4. PICK f \in {g, IdleFlow} : flow' = [flow EXCEPT ![q] = f]
  BY DEF SsoAudit, Go
<1>5. /\ u \in audited' \cup unaudited' /\ audited \subseteq audited' /\ unaudited \subseteq unaudited'
  BY DEF SsoAudit
<1> HIDE DEF u, g
<1>6. f \in Flows /\ f.at \in {"mint", "idle"}
  BY <1>3, <1>4, FlowTyped
<1>7. Typed'
  <2>1. held' \in [Users -> [Roles -> Nat]] /\ flow' \in [Requests -> Flows]
    BY <1>0, <1>1, <1>4, <1>6, HeldStep
  <2>2. QED BY <1>0, <1>1, <2>1 DEF Typed, TypeOK, Flows
<1>8. SessionInv'
  BY <1>0, <1>1, SessionsStay
<1>9. FlowInv'
  <2>1. held'[u][flow[q].role] = clock
    BY <1>0, <1>1, <1>2, HeldStep
  <2>2. f.at = "mint" => f = g
    BY <1>4, FlowTyped
  <2>3. QED BY <1>0, <1>1, <1>2, <1>3, <1>4, <1>6, <2>1, <2>2, FlowStays
<1>10. ASSUME NEW e \in Emails PROVE Counted(e)'
  <2>1. PendingFor(e)' = PendingFor(e) /\ Counted(e)
    BY <1>1 DEF PendingFor, Live, AccountsInv
  <2>2. Inserting(e)' \subseteq Inserting(e)
    BY <1>0, <1>4, <1>6 DEF Inserting
  <2>3. QED BY <2>1, <2>2, CountStays
<1>11. ASSUME NEW e \in Emails PROVE Provisioned(e)'
  <2>1. Provisioned(e) /\ UserOf(e)' = UserOf(e)
    BY <1>1 DEF AccountsInv, UserOf
  <2>2. \A p \in Requests : p # q => flow'[p] = flow[p]
    BY <1>0, <1>4
  <2>3. flow[q].user = UserOf(e) => UserOf(e) \in audited' \cup unaudited'
    BY <1>5 DEF u
  <2>4. QED BY <1>1, <1>5, <2>1, <2>2, <2>3 DEF Provisioned
<1>12. QED BY <1>7, <1>8, <1>9, <1>10, <1>11 DEF AccountsInv
-----------------------------------------------------------------------------
(***************************************************************************)
(* Steps that change rows of identities or invitations.                    *)
(***************************************************************************)
LEMMA RowStep ==
  ASSUME AccountsInv, Remember, NEW e \in Emails, NEW row \in Rows, ids' = [ids EXCEPT ![e] = row],
         row.exists => row.gen \in 1..Generations, row.jit => ids[e].jit /\ row.gen = ids[e].gen,
         changes' \in 0..MaxChanges, invites' \in [Invites -> InviteRows],
         \A i \in Invites : invites'[i] = invites[i] \/ invites'[i].status # "pending",
         UNCHANGED <<access, refresh, flow, clock, audited, unaudited>>
  PROVE  AccountsInv'
<1>0. /\ Typed /\ SessionInv /\ FlowInv /\ ids \in [Emails -> Rows] /\ flow \in [Requests -> Flows]
      /\ invites \in [Invites -> InviteRows] /\ Generations \in Nat \ {0}
  BY Facts DEF AccountsInv
<1>1. ids' \in [Emails -> Rows] /\ ids'[e] = row /\ \A d \in Emails : d # e => ids'[d] = ids[d]
  BY <1>0
<1>2. Typed'
  <2>1. held' \in [Users -> [Roles -> Nat]]
    BY <1>0, HeldStep
  <2>2. \A d \in Emails : ids'[d].exists => ids'[d].gen \in 1..Generations
    BY <1>0, <1>1 DEF Typed
  <2>3. QED BY <1>0, <1>1, <2>1, <2>2 DEF Typed, TypeOK, Rows, InviteRows
<1>3. SessionInv' /\ FlowInv'
  BY <1>0, SessionsStay, FlowKept
<1>4. ASSUME NEW d \in Emails PROVE Counted(d)'
  <2>1. PendingFor(d)' \subseteq PendingFor(d) /\ Inserting(d)' \subseteq Inserting(d) /\ Counted(d)
    BY DEF PendingFor, Live, Inserting, AccountsInv
  <2>2. QED BY <2>1, CountStays
<1>5. ASSUME NEW d \in Emails PROVE Provisioned(d)'
  <2>1. Provisioned(d)
    BY DEF AccountsInv
  <2>2. ids'[d].jit => ids[d].jit /\ UserOf(d)' = UserOf(d)
    BY <1>1 DEF UserOf
  <2>3. QED BY <2>1, <2>2 DEF Provisioned
<1>6. QED BY <1>2, <1>3, <1>4, <1>5 DEF AccountsInv

LEMMA ChangeTyped ==
  ASSUME Typed, NEW e, NEW row, Change(e, row)
  PROVE  changes' \in 0..MaxChanges /\ ids' = [ids EXCEPT ![e] = row]
BY Facts, AccountsAssumption DEF Change, Write

LEMMA InvitesKept ==
  ASSUME Typed, invites' = invites
  PROVE  /\ invites' \in [Invites -> InviteRows]
         /\ \A i \in Invites : invites'[i] = invites[i] \/ invites'[i].status # "pending"
BY Facts

LEMMA AdministratorSteps ==
  ASSUME AccountsInv, Remember, NEW e \in Emails,
         AdminCreate(e) \/ ScimCreate(e) \/ SetRole(e) \/ RemoveIdentity(e) \/ ScimSetActive(e)
  PROVE  AccountsInv'
<1>0. /\ Typed /\ SessionInv /\ FlowInv /\ ids \in [Emails -> Rows] /\ flow \in [Requests -> Flows]
      /\ invites \in [Invites -> InviteRows] /\ Generations \in Nat \ {0}
  BY Facts DEF AccountsInv
<1>1. /\ UNCHANGED <<access, refresh, flow, clock, audited, unaudited>> /\ invites' = invites
  BY DEF AdminCreate, ScimCreate, CreateIdentity, SetRole, RemoveIdentity, ScimSetActive, OnlyRows
<1>2. /\ invites' \in [Invites -> InviteRows]
      /\ \A i \in Invites : invites'[i] = invites[i] \/ invites'[i].status # "pending"
  BY <1>0, <1>1, InvitesKept
<1>3. /\ ids[e] \in Rows /\ ids[e].gen \in 0..Generations /\ "viewer" \in Roles
      /\ (ids[e].exists => ids[e].gen \in 1..Generations)
  BY <1>0 DEF Rows, Roles, Typed
<1>4. ASSUME NEW row \in Rows, Change(e, row), row.exists => row.gen \in 1..Generations,
             row.jit => ids[e].jit /\ row.gen = ids[e].gen
      PROVE  AccountsInv'
  BY <1>0, <1>1, <1>2, <1>4, ChangeTyped, RowStep
<1>5. ASSUME NEW r \in Roles, NEW active \in BOOLEAN, CreateIdentity(e, r, active) PROVE AccountsInv'
  <2> DEFINE row == [exists |-> TRUE, gen |-> ids[e].gen + 1, role |-> r, active |-> active, jit |-> FALSE]
  <2>1. ids[e].gen < Generations /\ Change(e, row)
    BY <1>5 DEF CreateIdentity
  <2>2. ids[e].gen + 1 \in 1..Generations /\ ids[e].gen + 1 \in 0..Generations
    BY <1>0, <1>3, <2>1
  <2>3. row \in Rows /\ row.gen \in 1..Generations /\ ~ row.jit
    BY <2>2 DEF Rows
  <2> HIDE DEF row
  <2>4. QED BY <1>4, <2>1, <2>3
<1>6. CASE AdminCreate(e)
  BY <1>5, <1>6, AccountsAssumption DEF AdminCreate
<1>7. CASE ScimCreate(e)
  BY <1>3, <1>5, <1>7 DEF ScimCreate
<1>8. CASE SetRole(e)
  <2>1. PICK r \in GrantedRoles : Change(e, [ids[e] EXCEPT !.role = r])
    BY <1>8 DEF SetRole
  <2> DEFINE row == [ids[e] EXCEPT !.role = r]
  <2>2. row \in Rows /\ row.gen = ids[e].gen /\ row.jit = ids[e].jit /\ row.exists = ids[e].exists
    BY <1>3, AccountsAssumption DEF Rows
  <2>3. Change(e, row)
    BY <2>1
  <2> HIDE DEF row
  <2>4. QED BY <1>3, <1>4, <2>2, <2>3
<1>9. CASE RemoveIdentity(e)
  <2>1. Change(e, NoRow(ids[e].gen))
    BY <1>9 DEF RemoveIdentity
  <2>2. NoRow(ids[e].gen) \in Rows /\ ~ NoRow(ids[e].gen).exists /\ ~ NoRow(ids[e].gen).jit
    BY <1>3 DEF NoRow, Rows
  <2>3. QED BY <1>4, <2>1, <2>2
<1>10. CASE ScimSetActive(e)
  <2> DEFINE row == [ids[e] EXCEPT !.active = ~ ids[e].active]
  <2>1. row \in Rows /\ row.gen = ids[e].gen /\ row.jit = ids[e].jit /\ row.exists = ids[e].exists
    BY <1>3 DEF Rows
  <2>2. Change(e, row)
    BY <1>10 DEF ScimSetActive
  <2> HIDE DEF row
  <2>3. QED BY <1>3, <1>4, <2>1, <2>2
<1>11. QED BY <1>6, <1>7, <1>8, <1>9, <1>10

LEMMA InviteRevokeStep ==
  ASSUME AccountsInv, Remember, NEW i \in Invites, InviteRevoke(i) PROVE AccountsInv'
<1>0. /\ Typed /\ SessionInv /\ FlowInv /\ ids \in [Emails -> Rows] /\ flow \in [Requests -> Flows]
      /\ invites \in [Invites -> InviteRows] /\ Generations \in Nat \ {0}
  BY Facts DEF AccountsInv
<1>1. /\ invites' = [invites EXCEPT ![i].status = "revoked"]
      /\ UNCHANGED <<ids, access, refresh, flow, clock, changes, audited, unaudited>>
  BY DEF InviteRevoke
<1>2. /\ invites' \in [Invites -> InviteRows]
      /\ \A j \in Invites : invites'[j] = invites[j] \/ invites'[j].status # "pending"
  BY <1>0, <1>1 DEF InviteRows, Statuses
<1>3. /\ Founder \in Emails /\ ids' = [ids EXCEPT ![Founder] = ids[Founder]] /\ ids[Founder] \in Rows
      /\ (ids[Founder].exists => ids[Founder].gen \in 1..Generations) /\ changes' \in 0..MaxChanges
  BY <1>0, <1>1, Facts, AccountsAssumption DEF Typed
<1>4. QED BY <1>1, <1>2, <1>3, RowStep

LEMMA InviteAcceptStep ==
  ASSUME AccountsInv, Remember, NEW i \in Invites, InviteAccept(i) PROVE AccountsInv'
<1>0. /\ Typed /\ SessionInv /\ FlowInv /\ ids \in [Emails -> Rows] /\ flow \in [Requests -> Flows]
      /\ invites \in [Invites -> InviteRows] /\ Generations \in Nat \ {0}
  BY Facts DEF AccountsInv
<1> DEFINE e == invites[i].email
           new == ~ ids[e].exists
           gen == IF new THEN ids[e].gen + 1 ELSE ids[e].gen
           row == [exists |-> TRUE, gen |-> gen, role |-> invites[i].role, active |-> TRUE, jit |-> ids[e].jit /\ ~ new]
<1>1. /\ new => ids[e].gen < Generations
      /\ invites' = [invites EXCEPT ![i].status = "accepted"] /\ ids' = [ids EXCEPT ![e] = row]
      /\ UNCHANGED <<access, refresh, flow, clock, changes, audited, unaudited>>
  BY DEF InviteAccept, Write
<1>2. /\ invites' \in [Invites -> InviteRows]
      /\ \A j \in Invites : invites'[j] = invites[j] \/ invites'[j].status # "pending"
  BY <1>0, <1>1 DEF InviteRows, Statuses
<1>3. /\ e \in Emails /\ ids[e] \in Rows /\ invites[i].role \in Roles /\ ids[e].gen \in 0..Generations
      /\ (~ new => ids[e].gen \in 1..Generations) /\ ids[e].jit \in BOOLEAN /\ ids[e].exists \in BOOLEAN
  BY <1>0 DEF InviteRows, Rows, Typed
<1>4. gen \in 1..Generations /\ gen \in 0..Generations /\ (~ new => gen = ids[e].gen)
  BY <1>0, <1>1, <1>3
<1>5. row \in Rows /\ row.gen = gen /\ (row.jit => ids[e].jit /\ ~ new)
  <2> HIDE DEF gen, e
  <2>1. QED BY <1>3, <1>4 DEF Rows
<1>6. changes' \in 0..MaxChanges
  BY <1>0, <1>1, Facts
<1> HIDE DEF row, gen, new, e
<1>7. QED BY <1>1, <1>2, <1>3, <1>4, <1>5, <1>6, RowStep

\* The invitation that is inserted was counted as a request before.
LEMMA InviteInsertStep ==
  ASSUME AccountsInv, Remember, NEW q \in Requests, NEW i \in Invites, InviteInsert(q, i) PROVE AccountsInv'
<1>0. /\ Typed /\ SessionInv /\ FlowInv /\ ids \in [Emails -> Rows] /\ flow \in [Requests -> Flows]
      /\ invites \in [Invites -> InviteRows] /\ Generations \in Nat \ {0}
  BY Facts DEF AccountsInv
<1> DEFINE d == flow[q].user[1]
           inv == [status |-> "pending", email |-> d, role |-> flow[q].role, by |-> flow[q].by, expires |-> clock + InviteTtl]
<1>1. /\ flow[q].at = "insert" /\ flow' = [flow EXCEPT ![q] = IdleFlow]
      /\ UNCHANGED <<ids, access, refresh, clock, changes, audited, unaudited, wanted>>
      /\ invites' = invites \/ (invites[i].status = "unused" /\ invites' = [invites EXCEPT ![i] = inv])
  BY DEF InviteInsert
<1>2. d \in Emails /\ inv \in InviteRows /\ inv.email = d
  <2>1. clock + InviteTtl \in Nat /\ flow[q] \in Flows
    BY <1>0, Facts, AccountsAssumption
  <2>2. QED BY <2>1 DEF Flows, InviteRows, Statuses
<1> HIDE DEF inv
<1>3. Typed'
  <2>1. held' \in [Users -> [Roles -> Nat]] /\ flow' \in [Requests -> Flows] /\ invites' \in [Invites -> InviteRows]
    BY <1>0, <1>1, <1>2, HeldStep, FlowTyped
  <2>2. QED BY <1>0, <1>1, <2>1 DEF Typed, TypeOK, Flows, InviteRows
<1>4. SessionInv' /\ FlowInv'
  BY <1>0, <1>1, SessionsStay, FlowStays, FlowTyped
<1>5. ASSUME NEW e \in Emails PROVE Counted(e)'
  <2>1. Counted(e) /\ Inserting(e)' \subseteq Inserting(e)
    BY <1>0, <1>1, FlowTyped DEF AccountsInv, Inserting
  <2>2. CASE invites' = invites \/ e # d
    <3>1. PendingFor(e)' \subseteq PendingFor(e)
      BY <1>0, <1>1, <1>2, <2>2 DEF PendingFor, Live
    <3>2. QED BY <2>1, <3>1, CountStays
  <2>3. CASE invites' # invites /\ e = d
    <3>1. PendingFor(e)' \subseteq PendingFor(e) \cup {i}
      BY <1>0, <1>1, <2>3 DEF PendingFor, Live
    <3>2. q \in Inserting(e) /\ Inserting(e)' \subseteq Inserting(e) \ {q}
      BY <1>0, <1>1, <2>3, FlowTyped DEF Inserting
    <3>3. /\ IsFiniteSet(PendingFor(e)) /\ Cardinality(PendingFor(e)) \in Nat
          /\ IsFiniteSet(Inserting(e)) /\ Cardinality(Inserting(e)) \in Nat /\ Cardinality(Requests) \in Nat
      BY CountFinite
    <3>4. /\ IsFiniteSet(PendingFor(e) \cup {i})
          /\ Cardinality(PendingFor(e) \cup {i}) \in {Cardinality(PendingFor(e)), Cardinality(PendingFor(e)) + 1}
      BY <3>3, FS_AddElement
    <3>5. /\ IsFiniteSet(Inserting(e) \ {q}) /\ Cardinality(Inserting(e) \ {q}) = Cardinality(Inserting(e)) - 1
      BY <3>2, <3>3, FS_RemoveElement
    <3>6. /\ Cardinality(PendingFor(e)') <= Cardinality(PendingFor(e) \cup {i}) /\ Cardinality(PendingFor(e)') \in Nat
          /\ Cardinality(Inserting(e)') <= Cardinality(Inserting(e) \ {q}) /\ Cardinality(Inserting(e)') \in Nat
      BY <3>1, <3>2, <3>4, <3>5, FS_Subset, FS_CardinalityType
    <3>7. QED BY <2>1, <3>3, <3>4, <3>5, <3>6 DEF Counted
  <2>4. QED BY <2>2, <2>3
<1>6. ASSUME NEW e \in Emails PROVE Provisioned(e)'
  <2>1. Provisioned(e) /\ UserOf(e)' = UserOf(e)
    BY <1>1 DEF AccountsInv, UserOf
  <2>2. \A p \in Requests : flow[p].at = "audit" => flow'[p] = flow[p]
    BY <1>0, <1>1
  <2>3. QED BY <1>1, <2>1, <2>2 DEF Provisioned
<1>7. QED BY <1>3, <1>4, <1>5, <1>6 DEF AccountsInv

\* Time passes when no request is under way; what expires is nobody's any more.
LEMMA TickStep ==
  ASSUME AccountsInv, Remember, Tick PROVE AccountsInv'
<1>0. /\ Typed /\ SessionInv /\ FlowInv /\ ids \in [Emails -> Rows] /\ flow \in [Requests -> Flows]
      /\ invites \in [Invites -> InviteRows] /\ Generations \in Nat \ {0}
  BY Facts DEF AccountsInv
<1>1. /\ clock' = clock + 1 /\ clock < MaxClock /\ (\A q \in Requests : flow[q].at = "idle")
      /\ access' = [u \in Users |-> [r \in Roles |-> Unexpired(access[u][r])]]
      /\ refresh' = [u \in Users |-> Unexpired(refresh[u])]
      /\ UNCHANGED <<ids, invites, flow, changes, audited, unaudited, wanted>>
  BY DEF Tick
<1>2. /\ clock \in Nat /\ clock \in 0..MaxClock /\ MaxClock \in Nat /\ AccessTtl \in Nat \ {0}
      /\ access \in [Users -> [Roles -> Nat]] /\ held \in [Users -> [Roles -> Nat]] /\ refresh \in [Users -> Nat]
  BY <1>0, Facts
<1>3. ASSUME NEW u \in Users, NEW r \in Roles
      PROVE  /\ held'[u][r] \in Nat /\ access'[u][r] \in Nat
             /\ held'[u][r] <= clock' /\ (access'[u][r] = 0 \/ access'[u][r] > clock')
             /\ access'[u][r] <= held'[u][r] + AccessTtl
  <2>1. held'[u][r] = IF Holds(ids', u, r) \/ Holds(ids, u, r) THEN clock'
                      ELSE IF held[u][r] + AccessTtl > clock' THEN held[u][r] ELSE 0
    BY DEF Remember
  <2>2. /\ held[u][r] \in Nat /\ access[u][r] \in Nat /\ held[u][r] <= clock
        /\ access[u][r] <= held[u][r] + AccessTtl
    BY <1>0, <1>2 DEF SessionInv
  <2>3. /\ access'[u][r] = 0 \/ (access'[u][r] = access[u][r] /\ access[u][r] > clock + 1)
        /\ access'[u][r] \in Nat
    BY <1>1, <2>2 DEF Unexpired
  <2>4. held'[u][r] = clock' \/ (held'[u][r] = held[u][r] /\ held[u][r] + AccessTtl > clock')
          \/ (held'[u][r] = 0 /\ held[u][r] + AccessTtl <= clock')
    BY <1>1, <1>2, <2>1, <2>2
  <2>5. QED BY <1>1, <1>2, <2>2, <2>3, <2>4
<1>4. held' \in [Users -> [Roles -> Nat]] /\ access' \in [Users -> [Roles -> Nat]] /\ refresh' \in [Users -> Nat]
  <2>1. held' = [u \in Users |-> [r \in Roles |-> held'[u][r]]]
    BY DEF Remember
  <2>2. access' = [u \in Users |-> [r \in Roles |-> access'[u][r]]]
    BY <1>1
  <2>3. refresh' \in [Users -> Nat]
    BY <1>1, <1>2 DEF Unexpired
  <2>4. QED BY <1>3, <2>1, <2>2, <2>3
<1>5. Typed'
  <2>1. clock' \in 0..MaxClock
    BY <1>1, <1>2
  <2>2. QED BY <1>0, <1>1, <1>4, <2>1 DEF Typed, TypeOK
<1>6. SessionInv' /\ FlowInv'
  BY <1>1, <1>3 DEF SessionInv, FlowInv
<1>7. ASSUME NEW e \in Emails PROVE Counted(e)' /\ Provisioned(e)'
  <2>1. Counted(e) /\ Provisioned(e) /\ Inserting(e)' \subseteq Inserting(e)
    BY <1>1 DEF AccountsInv, Inserting
  <2>2. PendingFor(e)' \subseteq PendingFor(e)
    BY <1>0, <1>1, <1>2 DEF PendingFor, Live, InviteRows
  <2>3. Counted(e)'
    BY <2>1, <2>2, CountStays
  <2>4. Provisioned(e)'
    BY <1>1, <2>1 DEF Provisioned, UserOf
  <2>5. QED BY <2>3, <2>4
<1>8. QED BY <1>5, <1>6, <1>7 DEF AccountsInv
-----------------------------------------------------------------------------
(***************************************************************************)
(* The invariant and what it says.                                         *)
(***************************************************************************)
LEMMA AccountsInvInit == Init => AccountsInv
<1> SUFFICES ASSUME Init PROVE AccountsInv
  OBVIOUS
<1>0. /\ Founder \in Emails /\ Generations \in Nat \ {0} /\ 0 \in 0..Generations /\ 1 \in 0..Generations
      /\ 1 \in 1..Generations /\ MaxClock \in Nat /\ MaxChanges \in Nat /\ AccessTtl \in Nat \ {0}
      /\ 0 \in 0..MaxClock /\ 0 \in 0..MaxChanges
  BY AccountsAssumption
<1>1. ids \in [Emails -> Rows] /\ \A e \in Emails : ids[e].exists => ids[e].gen = 1
  BY <1>0 DEF Init, Rows, NoRow, Roles
<1>2. flow \in [Requests -> Flows] /\ \A q \in Requests : flow[q].at = "idle"
  BY FlowTyped DEF Init
<1>3. invites \in [Invites -> InviteRows] /\ \A i \in Invites : invites[i].status = "unused"
  BY <1>0 DEF Init, InviteRows, Statuses, Roles
<1>4. /\ access \in [Users -> [Roles -> Nat]] /\ held \in [Users -> [Roles -> Nat]] /\ refresh \in [Users -> Nat]
      /\ clock = 0 /\ changes = 0 /\ \A u \in Users, r \in Roles : access[u][r] = 0 /\ held[u][r] = 0
  BY DEF Init
<1>5. Typed
  BY <1>0, <1>1, <1>2, <1>3, <1>4 DEF Typed, TypeOK, Rows, Flows, InviteRows
<1>6. SessionInv /\ FlowInv
  BY <1>0, <1>2, <1>4 DEF SessionInv, FlowInv
<1>7. ASSUME NEW e \in Emails PROVE Counted(e) /\ Provisioned(e)
  <2>1. PendingFor(e) = {} /\ Inserting(e) = {} /\ ~ ids[e].jit
    BY <1>2, <1>3 DEF PendingFor, Live, Inserting, Init, NoRow
  <2>2. Cardinality({}) = 0 /\ Cardinality(Requests) \in Nat
    BY AccountsAssumption, FS_EmptySet, FS_CardinalityType
  <2>3. QED BY <2>1, <2>2 DEF Counted, Provisioned
<1>8. QED BY <1>5, <1>6, <1>7 DEF AccountsInv

LEMMA AccountsStutter ==
  ASSUME AccountsInv, UNCHANGED vars PROVE AccountsInv'
<1>1. UNCHANGED <<ids, access, refresh, invites, flow, clock, changes, held, audited, unaudited>>
  BY DEF vars
<1>2. Typed' /\ SessionInv' /\ FlowInv'
  BY <1>1 DEF AccountsInv, Typed, TypeOK, SessionInv, FlowInv
<1>3. ASSUME NEW e \in Emails PROVE Counted(e)' /\ Provisioned(e)'
  <2>1. PendingFor(e)' \subseteq PendingFor(e) /\ Inserting(e)' \subseteq Inserting(e) /\ Counted(e) /\ Provisioned(e)
    BY <1>1 DEF PendingFor, Live, Inserting, AccountsInv
  <2>2. Provisioned(e)'
    BY <1>1, <2>1 DEF Provisioned, UserOf
  <2>3. QED BY <2>1, <2>2, CountStays
<1>4. QED BY <1>2, <1>3 DEF AccountsInv

LEMMA AccountsInvNext == AccountsInv /\ [Next]_vars => AccountsInv'
<1> SUFFICES ASSUME AccountsInv, [Next]_vars PROVE AccountsInv'
  OBVIOUS
<1>1. CASE UNCHANGED vars
  BY <1>1, AccountsStutter
<1>2. CASE Next
  <2>1. Remember
    BY <1>2 DEF Next
  <2>2. CASE \E q \in Requests, e \in Emails : LoginByEmail(q, e) \/ SsoLookup(q, e) \/ InviteCount(q, e)
    BY <2>1, <2>2, LoginByEmailStep, SsoLookupStep, InviteCountStep
  <2>3. CASE \E q \in Requests : SsoProvision(q) \/ SsoReread(q) \/ SsoAudit(q) \/ Mint(q) \/ RefreshMint(q)
    BY <2>1, <2>3, SsoProvisionStep, SsoRereadStep, SsoAuditStep, MintStep
  <2>4. CASE \E q \in Requests, u \in Users : RefreshRead(q, u)
    BY <2>1, <2>4, RefreshReadStep
  <2>5. CASE \E e \in Emails : AdminCreate(e) \/ ScimCreate(e) \/ SetRole(e) \/ RemoveIdentity(e) \/ ScimSetActive(e)
    BY <2>1, <2>5, AdministratorSteps
  <2>6. CASE \E q \in Requests, i \in Invites : InviteInsert(q, i)
    BY <2>1, <2>6, InviteInsertStep
  <2>7. CASE \E i \in Invites : InviteRevoke(i) \/ InviteAccept(i)
    BY <2>1, <2>7, InviteRevokeStep, InviteAcceptStep
  <2>8. CASE Tick
    BY <2>1, <2>8, TickStep
  <2>9. QED BY <1>2, <2>2, <2>3, <2>4, <2>5, <2>6, <2>7, <2>8 DEF Next
<1>3. QED BY <1>1, <1>2

\* The invariant holds throughout, for every value of the constants.
THEOREM AccountsInvAlways == Spec => []AccountsInv
BY AccountsInvInit, AccountsInvNext, PTL DEF Spec

\* Demoting, deactivating or removing somebody ends the access it withdraws within one
\* token lifetime, whatever logins, refreshes and invitations overlap with it
\* (AuthService.refresh, completeLogin, the tenant's SSO callback).
THEOREM WithdrawalBinds == Spec => []WithdrawnWithinTtl
<1>1. AccountsInv => WithdrawnWithinTtl
  BY DEF AccountsInv, SessionInv, WithdrawnWithinTtl
<1>2. QED BY <1>1, AccountsInvAlways, PTL

\* Requests that overlap leave no more pending invitations of an address than there are
\* of them, and every provisioning ends in the audit log or as a failed audit
\* (InvitesService.create, auditProvision).
THEOREM OverlapsAreAccounted == Spec => []OverlapsAccounted
<1>1. AccountsInv => OverlapsAccounted
  BY DEF AccountsInv, Counted, Inserting, Provisioned, OverlapsAccounted
<1>2. QED BY <1>1, AccountsInvAlways, PTL
=============================================================================
