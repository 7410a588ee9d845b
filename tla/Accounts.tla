------------------------------ MODULE Accounts ------------------------------
(***************************************************************************)
(* Who may use the control plane, and for how long: the identities of one  *)
(* tenant, single sign-on with just-in-time provisioning, the stateless    *)
(* access and refresh tokens, administrators' invitations and the          *)
(* activation state a SCIM client maintains (api/src/auth, invites,        *)
(* identities; the functions of deploy/postgres that log in before a       *)
(* tenant is bound).  A request is several database transactions; others   *)
(* come between them.  A token carries the role it was minted with and is  *)
(* never looked up again, so only its expiry ends it.                      *)
(***************************************************************************)
EXTENDS Integers, FiniteSets

CONSTANTS
  Emails,        \* addresses people log in with
  Founder,       \* the administrator the tenant starts with
  Generations,   \* user ids an address may get, one after another
  GrantedRoles,  \* roles administrators and invitations hand out
  DefaultRole,   \* default_api_role of the tenant's IdP
  JitEnabled,    \* jit_enabled of the tenant's IdP
  Requests,      \* requests in flight at a time
  Invites,       \* invitation ids
  AccessTtl, RefreshTtl, InviteTtl,
  MaxClock,      \* bound on time
  MaxChanges     \* bound on changes administrators and the directory make to identities

Roles == {"viewer", "analyst", "admin"}

\* ROLE_RANK
Rank == [r \in Roles |-> CASE r = "viewer" -> 1 [] r = "analyst" -> 2 [] OTHER -> 3]

ASSUME AccountsAssumption ==
  /\ Founder \in Emails
  /\ Generations \in Nat \ {0}
  /\ GrantedRoles \subseteq Roles /\ DefaultRole \in Roles /\ JitEnabled \in BOOLEAN
  /\ IsFiniteSet(Requests) /\ IsFiniteSet(Invites)
  /\ AccessTtl \in Nat \ {0} /\ RefreshTtl \in Nat /\ InviteTtl \in Nat /\ MaxClock \in Nat /\ MaxChanges \in Nat

Users == Emails \X (1..Generations)   \* user_id: an address and its generation

VARIABLES
  ids,       \* the identities table, a row per address
  access,    \* latest expiry of an access token of a user with a role; 0: none
  refresh,   \* latest expiry of a refresh token of a user
  invites,   \* the invites table
  flow,      \* the requests in flight
  clock,
  changes,   \* changes made to identities
  held,      \* history: the last time a user was active with a role
  audited,   \* history: users whose provisioning is in the audit log
  unaudited, \* history: users whose audit write failed
  wanted     \* history: the activation the directory last asked for

vars == <<ids, access, refresh, invites, flow, clock, changes, held, audited, unaudited, wanted>>

Statuses == {"unused", "pending", "accepted", "revoked"}

NoRow(gen) == [exists |-> FALSE, gen |-> gen, role |-> "viewer", active |-> FALSE, jit |-> FALSE]
IdleFlow == [at |-> "idle", user |-> <<Founder, 1>>, role |-> "viewer", by |-> Founder]

TypeOK ==
  /\ ids \in [Emails -> [exists : BOOLEAN, gen : 0..Generations, role : Roles,
                         active : BOOLEAN, jit : BOOLEAN]]
  /\ access \in [Users -> [Roles -> Nat]]
  /\ refresh \in [Users -> Nat]
  /\ invites \in [Invites -> [status : Statuses, email : Emails, role : Roles, by : Emails, expires : Nat]]
  /\ flow \in [Requests -> [at : {"idle", "mint", "remint", "provision", "reread", "audit", "insert"},
                            user : Emails \X (0..Generations), role : Roles, by : Emails]]
  /\ clock \in 0..MaxClock /\ changes \in 0..MaxChanges
-----------------------------------------------------------------------------
UserOf(e) == <<e, ids[e].gen>>

Holds(rows, u, r) ==
  LET row == rows[u[1]] IN row.exists /\ row.active /\ row.gen = u[2] /\ row.role = r

\* The history variable follows every step; what can no longer bound a token is forgotten.
Remember ==
  held' = [u \in Users |-> [r \in Roles |->
             IF Holds(ids', u, r) \/ Holds(ids, u, r) THEN clock'
             ELSE IF held[u][r] + AccessTtl > clock' THEN held[u][r] ELSE 0]]

Init ==
  /\ ids = [e \in Emails |-> IF e = Founder
                               THEN [exists |-> TRUE, gen |-> 1, role |-> "admin",
                                     active |-> TRUE, jit |-> FALSE]
                               ELSE NoRow(0)]
  /\ access = [u \in Users |-> [r \in Roles |-> 0]]
  /\ refresh = [u \in Users |-> 0]
  /\ invites = [i \in Invites |->
                  [status |-> "unused", email |-> Founder, role |-> "viewer", by |-> Founder, expires |-> 0]]
  /\ flow = [q \in Requests |-> IdleFlow]
  /\ clock = 0 /\ changes = 0
  /\ held = [u \in Users |-> [r \in Roles |-> 0]]
  /\ audited = {} /\ unaudited = {}
  /\ wanted = [e \in Emails |-> TRUE]
-----------------------------------------------------------------------------
(***************************************************************************)
(* Guards: AuthMiddleware verifies the access token, RolesGuard compares   *)
(* the rank of the role in it.                                             *)
(***************************************************************************)
Bearer(u) == {r \in Roles : access[u][r] > clock}

MayAct(u, need) == \E r \in Bearer(u) : Rank[r] >= Rank[need]

AnAdmin == \E u \in Users : MayAct(u, "admin")

Latest(a, b) == IF a > b THEN a ELSE b
-----------------------------------------------------------------------------
(***************************************************************************)
(* Logging in.  The first transaction of a request decides what it will    *)
(* do; the tokens are minted from what it read.                            *)
(***************************************************************************)
Go(q, at, user, role) ==
  flow' = [flow EXCEPT ![q] = [at |-> at, user |-> user, role |-> role, by |-> Founder]]

Unchanged == UNCHANGED <<invites, clock, changes, audited, unaudited, wanted>>

Active(e) == ids[e].exists /\ ids[e].active

\* The callback of a global provider, and loginByEmail: an active identity, or 401.
LoginByEmail(q, e) ==
  /\ flow[q].at = "idle"
  /\ Active(e)
  /\ Go(q, "mint", UserOf(e), ids[e].role)
  /\ UNCHANGED <<ids, access, refresh>> /\ Unchanged

\* The callback of the tenant's IdP, up to the lookup.  A deactivated identity is refused.
SsoLookup(q, e) ==
  /\ flow[q].at = "idle"
  /\ \/ /\ Active(e)
        /\ Go(q, "mint", UserOf(e), ids[e].role)
     \/ /\ ~ ids[e].exists /\ JitEnabled
        /\ Go(q, "provision", <<e, 0>>, DefaultRole)
  /\ UNCHANGED <<ids, access, refresh>> /\ Unchanged

\* auth_provision_identity inserts unless the address is taken.
SsoProvision(q) ==
  LET e == flow[q].user[1]
  IN /\ flow[q].at = "provision"
     /\ \/ /\ ~ ids[e].exists /\ ids[e].gen < Generations
           /\ ids' = [ids EXCEPT ![e] = [exists |-> TRUE, gen |-> ids[e].gen + 1,
                                         role |-> DefaultRole, active |-> TRUE, jit |-> TRUE]]
           /\ Go(q, "audit", <<e, ids[e].gen + 1>>, DefaultRole)
        \/ /\ ids[e].exists
           /\ Go(q, "reread", flow[q].user, flow[q].role)
           /\ UNCHANGED ids
     /\ UNCHANGED <<access, refresh>> /\ Unchanged

\* Lost the race: take what the winner made of the row.
SsoReread(q) ==
  LET e == flow[q].user[1]
  IN /\ flow[q].at = "reread"
     /\ \/ /\ Active(e)
           /\ Go(q, "mint", UserOf(e), ids[e].role)
        \/ /\ ~ Active(e)
           /\ flow' = [flow EXCEPT ![q] = IdleFlow]
     /\ UNCHANGED <<ids, access, refresh>> /\ Unchanged

\* auditProvision, a transaction of its own; when it fails the login fails with it.
SsoAudit(q) ==
  /\ flow[q].at = "audit"
  /\ \/ /\ audited' = audited \union {flow[q].user} /\ UNCHANGED unaudited
        /\ Go(q, "mint", flow[q].user, flow[q].role)
     \/ /\ unaudited' = unaudited \union {flow[q].user} /\ UNCHANGED audited
        /\ flow' = [flow EXCEPT ![q] = IdleFlow]
  /\ UNCHANGED <<ids, access, refresh, invites, clock, changes, wanted>>

\* mintAccess
Granted(u, r) == [access EXCEPT ![u][r] = Latest(@, clock + AccessTtl)]

\* completeLogin
Mint(q) ==
  /\ flow[q].at = "mint"
  /\ access' = Granted(flow[q].user, flow[q].role)
  /\ refresh' = [refresh EXCEPT ![flow[q].user] = Latest(@, clock + RefreshTtl)]
  /\ flow' = [flow EXCEPT ![q] = IdleFlow]
  /\ UNCHANGED ids /\ Unchanged

\* Mutant: a refresh looks up the role only, not whether the identity is active.
RefreshInactive(q, u) ==
  /\ flow[q].at = "idle"
  /\ refresh[u] > clock
  /\ ids[u[1]].exists /\ ids[u[1]].gen = u[2]
  /\ Go(q, "remint", u, ids[u[1]].role)
  /\ UNCHANGED <<ids, access, refresh>> /\ Unchanged

\* refresh: a valid refresh token, and the row as it is now.
RefreshRead(q, u) ==
  /\ flow[q].at = "idle"
  /\ refresh[u] > clock
  /\ ids[u[1]].exists /\ ids[u[1]].gen = u[2] /\ ids[u[1]].active
  /\ Go(q, "remint", u, ids[u[1]].role)
  /\ UNCHANGED <<ids, access, refresh>> /\ Unchanged

RefreshMint(q) ==
  /\ flow[q].at = "remint"
  /\ access' = Granted(flow[q].user, flow[q].role)
  /\ flow' = [flow EXCEPT ![q] = IdleFlow]
  /\ UNCHANGED <<ids, refresh>> /\ Unchanged
-----------------------------------------------------------------------------
(***************************************************************************)
(* Administrators and the directory change identities.                     *)
(***************************************************************************)
Write(e, row) == ids' = [ids EXCEPT ![e] = row]

Change(e, row) == changes < MaxChanges /\ changes' = changes + 1 /\ Write(e, row)

OnlyRows == UNCHANGED <<access, refresh, invites, flow, clock, audited, unaudited>>

\* IdentitiesController.create, and SCIM createUser: 409 when the address is taken.
CreateIdentity(e, role, active) ==
  /\ ~ ids[e].exists /\ ids[e].gen < Generations
  /\ Change(e, [exists |-> TRUE, gen |-> ids[e].gen + 1, role |-> role, active |-> active, jit |-> FALSE])
  /\ wanted' = [wanted EXCEPT ![e] = active]
  /\ OnlyRows

AdminCreate(e) == AnAdmin /\ \E r \in GrantedRoles : CreateIdentity(e, r, TRUE)
ScimCreate(e) == \E active \in BOOLEAN : CreateIdentity(e, "viewer", active)

\* IdentitiesController.update of apiRole; its row has no active column to set.
SetRole(e) ==
  /\ AnAdmin /\ ids[e].exists
  /\ \E r \in GrantedRoles \ {ids[e].role} : Change(e, [ids[e] EXCEPT !.role = r])
  /\ UNCHANGED wanted /\ OnlyRows

\* IdentitiesController.remove; an identity that invited somebody is referenced.
RemoveIdentity(e) ==
  /\ AnAdmin /\ ids[e].exists
  /\ \A i \in Invites : invites[i].status # "unused" => invites[i].by # e
  /\ Change(e, NoRow(ids[e].gen))
  /\ wanted' = [wanted EXCEPT ![e] = TRUE]
  /\ OnlyRows

\* SCIM replace, patch and delete of a user, as far as active goes.
ScimSetActive(e) ==
  /\ ids[e].exists
  /\ Change(e, [ids[e] EXCEPT !.active = ~ @])
  /\ wanted' = [wanted EXCEPT ![e] = ~ ids[e].active]
  /\ OnlyRows
-----------------------------------------------------------------------------
(***************************************************************************)
(* Invitations.                                                            *)
(***************************************************************************)
Live(i) == invites[i].status = "pending" /\ invites[i].expires > clock

PendingFor(e) == {i \in Invites : invites[i].email = e /\ Live(i)}

\* Mutant: an invitation of the same address does not stop another.
InviteUncounted(q, e) ==
  /\ flow[q].at = "idle"
  /\ \E u \in Users, r \in GrantedRoles :
       /\ MayAct(u, "admin")
       /\ flow' = [flow EXCEPT ![q] = [at |-> "insert", user |-> <<e, 0>>, role |-> r, by |-> u[1]]]
  /\ UNCHANGED <<ids, access, refresh>> /\ Unchanged

\* InvitesService.create counts the pending invitations of the address...
InviteCount(q, e) ==
  /\ flow[q].at = "idle"
  /\ PendingFor(e) = {}
  /\ \E u \in Users, r \in GrantedRoles :
       /\ MayAct(u, "admin")
       /\ flow' = [flow EXCEPT ![q] = [at |-> "insert", user |-> <<e, 0>>, role |-> r, by |-> u[1]]]
  /\ UNCHANGED <<ids, access, refresh>> /\ Unchanged

\* ... and inserts in another transaction, which needs the inviter's row.
InviteInsert(q, i) ==
  /\ flow[q].at = "insert"
  /\ \/ /\ ids[flow[q].by].exists /\ invites[i].status = "unused"
        /\ invites' = [invites EXCEPT ![i] =
             [status |-> "pending", email |-> flow[q].user[1], role |-> flow[q].role,
              by |-> flow[q].by, expires |-> clock + InviteTtl]]
     \/ ~ ids[flow[q].by].exists /\ UNCHANGED invites
  /\ flow' = [flow EXCEPT ![q] = IdleFlow]
  /\ UNCHANGED <<ids, access, refresh, clock, changes, audited, unaudited, wanted>>

InviteRevoke(i) ==
  /\ AnAdmin /\ invites[i].status = "pending"
  /\ invites' = [invites EXCEPT ![i].status = "revoked"]
  /\ UNCHANGED <<ids, access, refresh, flow, clock, changes, audited, unaudited, wanted>>

\* invite_accept locks the row, and creates the identity or takes over an existing one.
InviteAccept(i) ==
  LET e == invites[i].email
      new == ~ ids[e].exists
  IN /\ Live(i)
     /\ new => ids[e].gen < Generations
     /\ invites' = [invites EXCEPT ![i].status = "accepted"]
     /\ Write(e, [exists |-> TRUE, gen |-> IF new THEN ids[e].gen + 1 ELSE ids[e].gen,
                  role |-> invites[i].role, active |-> TRUE, jit |-> ids[e].jit /\ ~ new])
     /\ UNCHANGED <<access, refresh, flow, clock, changes, audited, unaudited, wanted>>
-----------------------------------------------------------------------------
\* Tokens that have expired are nobody's any more.
Unexpired(t) == IF t > clock + 1 THEN t ELSE 0

\* A request is over before time moves on.
Tick ==
  /\ clock < MaxClock /\ \A q \in Requests : flow[q].at = "idle"
  /\ clock' = clock + 1
  /\ access' = [u \in Users |-> [r \in Roles |-> Unexpired(access[u][r])]]
  /\ refresh' = [u \in Users |-> Unexpired(refresh[u])]
  /\ UNCHANGED <<ids, invites, flow, changes, audited, unaudited, wanted>>

Next ==
  /\ \/ \E q \in Requests, e \in Emails : LoginByEmail(q, e) \/ SsoLookup(q, e) \/ InviteCount(q, e)
     \/ \E q \in Requests : SsoProvision(q) \/ SsoReread(q) \/ SsoAudit(q) \/ Mint(q) \/ RefreshMint(q)
     \/ \E q \in Requests, u \in Users : RefreshRead(q, u)
     \/ \E e \in Emails : AdminCreate(e) \/ ScimCreate(e) \/ SetRole(e) \/ RemoveIdentity(e) \/ ScimSetActive(e)
     \/ \E q \in Requests, i \in Invites : InviteInsert(q, i)
     \/ \E i \in Invites : InviteRevoke(i) \/ InviteAccept(i)
     \/ Tick
  /\ Remember

Spec == Init /\ [][Next]_vars
-----------------------------------------------------------------------------
(***************************************************************************)
(* Properties.                                                             *)
(***************************************************************************)

\* No access token outlives by more than its lifetime the last moment its user was
\* active with the role it carries: a demotion, a deactivation or a removal ends the
\* access it withdraws within AccessTtl, however often the session is refreshed.
WithdrawnWithinTtl ==
  \A u \in Users, r \in Roles : access[u][r] <= held[u][r] + AccessTtl

\* Requests that run side by side do not slip past the bookkeeping.  Invitations of an address
\* are counted and inserted in two transactions, so several may be pending at once, but never
\* more than administrators' requests that overlapped.  And concurrent first logins do not hide
\* one another: an identity that single sign-on provisioned is in the audit log once its request
\* is over, unless the audit transaction itself failed.
OverlapsAccounted ==
  \A e \in Emails :
    /\ Cardinality(PendingFor(e)) + Cardinality({q \in Requests : flow[q].at = "insert" /\ flow[q].user[1] = e})
         <= Cardinality(Requests)
    /\ ids[e].jit => \/ UserOf(e) \in audited \union unaudited
                     \/ \E q \in Requests : flow[q].at = "audit" /\ flow[q].user = UserOf(e)

\* An identity the directory has deactivated stays inactive until the directory
\* reactivates it (ADR-034: the IdP is the source of truth of the lifecycle).
OffboardedStaysOut ==
  \A e \in Emails : ids[e].exists /\ ids[e].active => wanted[e]
=============================================================================
