------------------------------ MODULE Directory ------------------------------
(***************************************************************************)
(* People and teams as a SCIM client, the dashboard and the jobs that tidy *)
(* up maintain them (api/src/scim, identities, reports/identity-merge).    *)
(* A team is a SCIM group, or was created for somebody's department.  An   *)
(* identity's aliases record its department, its groups, and the addresses *)
(* and logins folded into it; team_id is the one team it is charged to.    *)
(*                                                                         *)
(* A request runs one database transaction after another.  A transaction   *)
(* reads its rows when it opens and writes what it computed from them when *)
(* it commits; nothing locks the rows in between (READ COMMITTED).  An     *)
(* error aborts all of it: Postgres runs no statement of a transaction     *)
(* after one has failed, so the re-read after a lost create does not help. *)
(***************************************************************************)
EXTENDS Integers, Sequences, FiniteSets, SequencesExt, FiniteSetsExt

CONSTANTS
  N,           \* people, in the order of their addresses
  NameOf,      \* the normalized display name of each
  Preferred,   \* people with an address of a preferred domain
  TeamIds,
  TeamNames,
  Requests,    \* requests in flight at a time
  Operations,  \* what requests may ask: sequences of operations, one transaction each
  MaxRequests  \* bound on requests

People == 1..N

NoTeam == "no team"
NoName == "no name"      \* also: no department
Unused == "unused"       \* a team that does not exist yet
Gone == "gone"           \* one that was deleted

VARIABLES
  db,       \* [people, teams]: the two tables
  req,      \* of each request: the operations left, and what the open transaction read
  made,     \* requests made so far
  idp,      \* history: what the directory and administrators asked for
  refused   \* history: a deletion of a group has failed

vars == <<db, req, made, idp, refused>>

NoPerson == [exists |-> FALSE, active |-> FALSE, team |-> NoTeam, aliases |-> <<>>]

NoRequest == [ops |-> <<>>, open |-> FALSE, read |-> <<>>]

Init ==
  /\ db = [people |-> [p \in People |-> NoPerson], teams |-> [t \in TeamIds |-> Unused]]
  /\ req = [q \in Requests |-> NoRequest]
  /\ made = 0
  /\ idp = [members |-> [t \in TeamIds |-> {}], dept |-> [p \in People |-> NoName],
            off |-> {}, renamed |-> {}, absorbed |-> {}]
  /\ refused = FALSE
-----------------------------------------------------------------------------
(***************************************************************************)
(* Aliases.                                                                *)
(***************************************************************************)
DepartmentAlias(n) == <<"department", n>>
ScimGroupAlias(t) == <<"scim-group", t>>
EmailAlias(p) == <<"email", p>>
LoginAlias(l) == <<"login", l>>

HasScimGroupAlias(as, t) == Contains(as, ScimGroupAlias(t))
MergeScimGroupAlias(as, t) == IF HasScimGroupAlias(as, t) THEN as ELSE Append(as, ScimGroupAlias(t))
RemoveScimGroupAlias(as, t) == SelectSeq(as, LAMBDA a : a # ScimGroupAlias(t))

OfKind(as, kind) == SelectSeq(as, LAMBDA a : a[1] = kind)
WithoutDepartment(as) == SelectSeq(as, LAMBDA a : a[1] # "department")
MergeDepartmentAlias(as, n) == Append(WithoutDepartment(as), DepartmentAlias(n))

DepartmentFromAliases(as) ==
  IF OfKind(as, "department") = <<>> THEN NoName ELSE Head(OfKind(as, "department"))[2]

ScimGroupTeamIds(as) == [i \in DOMAIN OfKind(as, "scim-group") |-> OfKind(as, "scim-group")[i][2]]

\* mergeAliasLists: the first of equal entries stays.
MergeAliasLists(as, bs) == FoldLeft(LAMBDA acc, b : IF Contains(acc, b) THEN acc ELSE Append(acc, b), as, bs)
-----------------------------------------------------------------------------
(***************************************************************************)
(* A transaction works on [people, teams, read, ok]: what it has written,  *)
(* the tables as it read them, and whether an error has aborted it.        *)
(***************************************************************************)
Live(teams, t) == t \in TeamIds /\ teams[t] \in TeamNames

Named(teams, n) == {t \in TeamIds : teams[t] = n}

Abort(st) == [st EXCEPT !.ok = FALSE]

SetTeam(st, p, t) ==
  IF Live(st.teams, t) THEN [st EXCEPT !.people[p].team = t] ELSE Abort(st)

SetAliases(st, p, as) == [st EXCEPT !.people[p].aliases = as]

\* A team by name among those read, or a new one; somebody else's new one is an error.
TeamByName(st, n) ==
  LET seen == Named(st.read.teams, n) \intersect TeamIds
      own == Named(st.teams, n)
      fresh == {t \in TeamIds : st.teams[t] = Unused}
  IN IF seen # {} THEN [st |-> st, team |-> CHOOSE t \in seen : TRUE]
     ELSE IF own # {} \/ fresh = {} THEN [st |-> Abort(st), team |-> NoTeam]
     ELSE LET t == CHOOSE t \in fresh : TRUE
          IN [st |-> [st EXCEPT !.teams[t] = n, !.read.teams[t] = n], team |-> t]

\* assignTeamByName re-reads the aliases, after any write of its own.
AssignTeamByName(st, p, n) ==
  LET found == TeamByName(st, n)
  IN IF found.team = NoTeam THEN found.st
     ELSE SetTeam(SetAliases(found.st, p, MergeDepartmentAlias(found.st.people[p].aliases, n)),
                  p, found.team)

MaybeAssign(st, p, n) == IF n = NoName THEN st ELSE AssignTeamByName(st, p, n)

\* Mutant: the group decides the team.
SetMemberByGroup(st, t, p) == SetTeam(SetAliases(st, p, MergeScimGroupAlias(st.read.people[p].aliases, t)), p, t)

SetMember(st, t, p) ==
  LET as == MergeScimGroupAlias(st.read.people[p].aliases, t)
      dept == DepartmentFromAliases(as)
  IN IF dept # NoName THEN AssignTeamByName(SetAliases(st, p, as), p, dept)
     ELSE SetTeam(SetAliases(st, p, as), p, t)

RemoveMember(st, t, p) ==
  LET row == st.read.people[p]
      as == RemoveScimGroupAlias(row.aliases, t)
      cleared == SetAliases([st EXCEPT !.people[p].team = NoTeam], p, as)
  IN IF row.team = t THEN MaybeAssign(cleared, p, DepartmentFromAliases(as))
     ELSE IF HasScimGroupAlias(row.aliases, t) THEN SetAliases(st, p, as)
     ELSE st

Each(Op(_, _), st, ps) == FoldSet(LAMBDA p, acc : Op(acc, p), st, ps)

Known(st, ps) == {p \in ps : st.read.people[p].exists}

SetMembers(st, t, ps) == Each(LAMBDA acc, p : SetMember(acc, t, p), st, Known(st, ps))
RemoveMembers(st, t, ps) == Each(LAMBDA acc, p : RemoveMember(acc, t, p), st, Known(st, ps))

\* Mutant: members that are no longer named stay.
ReplaceAdds(st, t, ps) == SetMembers(st, t, ps)

\* Members by alias, and the ones whose team_id is the group.
ReplaceMembers(st, t, ps) ==
  LET now == {p \in People : st.read.people[p].exists /\
                (HasScimGroupAlias(st.read.people[p].aliases, t) \/ st.read.people[p].team = t)}
      left == RemoveMembers(st, t, now \ ps)
  IN SetMembers([left EXCEPT !.read.people = left.people], t, ps)
-----------------------------------------------------------------------------
(***************************************************************************)
(* The operations.                                                         *)
(***************************************************************************)
CreateUser(st, op) ==
  IF st.people[op.who].exists THEN Abort(st)
  ELSE MaybeAssign([st EXCEPT !.people[op.who] = [NoPerson EXCEPT !.exists = TRUE, !.active = op.active]],
                   op.who, op.dept)

UpdateUser(st, op) ==
  IF ~ st.read.people[op.who].exists THEN Abort(st)
  ELSE MaybeAssign([st EXCEPT !.people[op.who].active = op.active], op.who, op.dept)

\* IdentitiesController.patchTeam: the department alias follows the team.
PatchTeam(st, op) ==
  LET as == st.read.people[op.who].aliases
  IN IF ~ st.read.people[op.who].exists THEN Abort(st)
     ELSE IF op.team = NoTeam
       THEN SetAliases([st EXCEPT !.people[op.who].team = NoTeam], op.who, WithoutDepartment(as))
     ELSE IF ~ Live(st.read.teams, op.team) THEN Abort(st)
     ELSE SetTeam(SetAliases(st, op.who, MergeDepartmentAlias(as, st.read.teams[op.team])),
                  op.who, op.team)

CreateGroup(st, op) ==
  IF Named(st.teams, op.name) # {} \/ st.teams[op.team] # Unused THEN Abort(st)
  ELSE SetMembers([st EXCEPT !.teams[op.team] = op.name, !.read.teams[op.team] = op.name],
                  op.team, op.members)

Rename(st, t, n) ==
  IF Named(st.teams, n) \subseteq {t} THEN [st EXCEPT !.teams[t] = n, !.read.teams[t] = n] ELSE Abort(st)

\* PUT replaces the name, if it has one, and the membership.
ReplaceGroup(st, op) ==
  IF ~ Live(st.read.teams, op.team) \/ ~ Live(st.teams, op.team) THEN Abort(st)
  ELSE ReplaceMembers(IF op.name = NoName THEN st ELSE Rename(st, op.team, op.name), op.team, op.members)

PatchGroup(st, op) ==
  IF ~ Live(st.read.teams, op.team) \/ ~ Live(st.teams, op.team) THEN Abort(st)
  ELSE CASE op.patch = "add" -> SetMembers(st, op.team, op.members)
         [] op.patch = "remove" -> RemoveMembers(st, op.team, op.members)
         [] op.patch = "replace" -> ReplaceMembers(st, op.team, op.members)
         [] OTHER -> Rename(st, op.team, op.name)

\* The team goes when nobody is charged to it any more: team_id is a foreign key.
DeleteGroup(st, op) ==
  LET t == op.team
      stuck == {p \in People : st.read.people[p].team = t}
      marked == {p \in People \ stuck : HasScimGroupAlias(st.read.people[p].aliases, t)}
      unstuck == Each(LAMBDA acc, p : RemoveMember(acc, t, p), st, stuck)
      cleared == Each(LAMBDA acc, p : SetAliases(acc, p, RemoveScimGroupAlias(acc.read.people[p].aliases, t)),
                      unstuck, marked)
  IN IF ~ Live(st.read.teams, t) \/ ~ Live(st.teams, t) THEN Abort(st)
     ELSE IF \E p \in People : cleared.people[p].team = t THEN Abort(cleared)
     ELSE [cleared EXCEPT !.teams[t] = Gone]

\* The last group an identity is in that still exists.
LastGroup(st, as) ==
  LET ids == SelectSeq(ScimGroupTeamIds(as), LAMBDA t : Live(st.read.teams, t))
  IN IF ids = <<>> THEN NoTeam ELSE Last(ids)

Teamless(st) == {p \in People : st.read.people[p].active /\ st.read.people[p].team = NoTeam}

FillTeam(st, p, n, keepAliases) ==
  LET as == st.read.people[p].aliases
      found == TeamByName(st, n)
  IN IF n # NoName
       THEN IF ~ keepAliases THEN AssignTeamByName(st, p, n)
            ELSE IF found.team = NoTeam THEN found.st ELSE SetTeam(found.st, p, found.team)
     ELSE IF LastGroup(st, as) # NoTeam THEN SetTeam(st, p, LastGroup(st, as))
     ELSE st

FillTeams(st, keepAliases) ==
  Each(LAMBDA acc, p : FillTeam(acc, p, DepartmentFromAliases(acc.read.people[p].aliases), keepAliases),
       st, Teamless(st))

BackfillTeamsFromScimGroups(st) == FillTeams(st, FALSE)
HealIdentityTeamAssignments(st) == FillTeams(st, TRUE)
-----------------------------------------------------------------------------
(***************************************************************************)
(* Folding duplicates: the identities of one display name become one.      *)
(***************************************************************************)
Better(rows, p, q) ==
  LET rank == [x \in {p, q} |-> IF x \in Preferred THEN 0 ELSE 1]
      teamless == [x \in {p, q} |-> IF rows[x].team = NoTeam THEN 1 ELSE 0]
      aliases == [x \in {p, q} |-> Len(rows[x].aliases)]
  IN \/ rank[p] < rank[q]
     \/ rank[p] = rank[q] /\ teamless[p] < teamless[q]
     \/ rank[p] = rank[q] /\ teamless[p] = teamless[q] /\ aliases[p] > aliases[q]
     \/ rank[p] = rank[q] /\ teamless[p] = teamless[q] /\ aliases[p] = aliases[q] /\ p < q

PickPrimary(rows, group) == CHOOSE p \in group : \A q \in group \ {p} : Better(rows, p, q)

Duplicates(rows, n) == {p \in People : rows[p].active /\ NameOf[p] = n}

\* Mutant: the primary is not spared.
SecondariesAll(rows, group) == group

Secondaries(rows, group) == group \ {PickPrimary(rows, group)}

MergeGroup(st, group) ==
  LET rows == st.read.people
      primary == PickPrimary(rows, group)
      secondary == SetToSortSeq(Secondaries(rows, group), <)
      aliases == FoldLeft(LAMBDA acc, s : MergeAliasLists(acc, <<EmailAlias(s)>> \o rows[s].aliases),
                          rows[primary].aliases, secondary)
      teams == SelectSeq([i \in DOMAIN secondary |-> rows[secondary[i]].team], LAMBDA t : t # NoTeam)
      inherited == IF rows[primary].team = NoTeam /\ teams # <<>> THEN Head(teams) ELSE NoTeam
      kept == IF aliases = rows[primary].aliases THEN st ELSE SetAliases(st, primary, aliases)
      placed == IF inherited = NoTeam THEN kept ELSE SetTeam(kept, primary, inherited)
  IN [placed EXCEPT !.people = [p \in People |->
        IF p \in Secondaries(rows, group) THEN [placed.people[p] EXCEPT !.active = FALSE] ELSE placed.people[p]]]

ReconcileDuplicateIdentities(st) ==
  Each(LAMBDA acc, n : MergeGroup(acc, Duplicates(acc.read.people, n)), st,
       {n \in Range(NameOf) : Cardinality(Duplicates(st.read.people, n)) > 1})

\* A Copilot login goes to the identity with the address, or to the primary of the name.
LinkCopilotMember(st, op) ==
  LET rows == st.read.people
      byName == Duplicates(rows, NameOf[op.who])
      target == IF rows[op.who].active THEN {op.who}
                ELSE IF byName # {} THEN {PickPrimary(rows, byName)} ELSE {}
  IN Each(LAMBDA acc, p : SetAliases(acc, p, MergeAliasLists(acc.read.people[p].aliases,
            IF p = op.who THEN <<LoginAlias(op.who)>> ELSE <<LoginAlias(op.who), EmailAlias(op.who)>>)),
          st, target)

Apply(st, op) ==
  CASE op.kind = "createUser" -> CreateUser(st, op)
    [] op.kind = "updateUser" -> UpdateUser(st, op)
    [] op.kind = "patchTeam" -> PatchTeam(st, op)
    [] op.kind = "createGroup" -> CreateGroup(st, op)
    [] op.kind = "replaceGroup" -> ReplaceGroup(st, op)
    [] op.kind = "patchGroup" -> PatchGroup(st, op)
    [] op.kind = "deleteGroup" -> DeleteGroup(st, op)
    [] op.kind = "backfill" -> BackfillTeamsFromScimGroups(st)
    [] op.kind = "heal" -> HealIdentityTeamAssignments(st)
    [] op.kind = "reconcile" -> ReconcileDuplicateIdentities(st)
    [] OTHER -> LinkCopilotMember(st, op)
-----------------------------------------------------------------------------
(***************************************************************************)
(* What the directory believes after an operation it saw succeed.          *)
(***************************************************************************)
Believed(h, st, op) ==
  LET present == IF "members" \in DOMAIN op THEN Known(st, op.members) ELSE {}
      named == IF "name" \in DOMAIN op /\ op.name # NoName THEN {op.team} ELSE {}
  IN CASE op.kind = "createUser" \/ op.kind = "updateUser" ->
            [h EXCEPT !.dept[op.who] = IF op.dept = NoName THEN @ ELSE op.dept,
                      !.off = IF op.active THEN @ \ {op.who} ELSE @ \union {op.who}]
       [] op.kind = "patchTeam" ->
            [h EXCEPT !.dept[op.who] = IF op.team = NoTeam THEN NoName ELSE st.read.teams[op.team]]
       [] op.kind = "createGroup" -> [h EXCEPT !.members[op.team] = present]
       [] op.kind = "replaceGroup" ->
            [h EXCEPT !.members[op.team] = present, !.renamed = @ \union named]
       [] op.kind = "patchGroup" ->
            [h EXCEPT !.members[op.team] = CASE op.patch = "add" -> @ \union present
                                             [] op.patch = "remove" -> @ \ present
                                             [] op.patch = "replace" -> present
                                             [] OTHER -> @,
                      !.renamed = @ \union named]
       [] op.kind = "deleteGroup" -> [h EXCEPT !.members[op.team] = {}]
       [] op.kind = "reconcile" ->
            [h EXCEPT !.absorbed = @ \union
               UNION {LET g == Duplicates(st.read.people, n)
                      IN IF Cardinality(g) > 1 THEN {PickPrimary(st.read.people, g)} ELSE {} : n \in Range(NameOf)}]
       [] OTHER -> h
-----------------------------------------------------------------------------
Ask(q) ==
  /\ req[q] = NoRequest /\ made < MaxRequests
  /\ \E ops \in Operations : req' = [req EXCEPT ![q].ops = ops]
  /\ made' = made + 1
  /\ UNCHANGED <<db, idp, refused>>

Open(q) ==
  /\ req[q].ops # <<>> /\ ~ req[q].open
  /\ req' = [req EXCEPT ![q].open = TRUE, ![q].read = db]
  /\ UNCHANGED <<db, made, idp, refused>>

Opened(q) == [people |-> db.people, teams |-> db.teams, read |-> req[q].read, ok |-> TRUE]

\* An operation that fails ends the request.
Close(q) ==
  LET op == Head(req[q].ops)
      st == Apply(Opened(q), op)
  IN /\ req[q].open
     /\ IF st.ok
          THEN /\ db' = [people |-> st.people, teams |-> st.teams]
               /\ idp' = Believed(idp, Opened(q), op)
               /\ req' = [req EXCEPT ![q] = [NoRequest EXCEPT !.ops = Tail(req[q].ops)]]
               /\ UNCHANGED refused
          ELSE /\ req' = [req EXCEPT ![q] = NoRequest]
               /\ refused' = (refused \/ (op.kind = "deleteGroup" /\ Live(req[q].read.teams, op.team)))
               /\ UNCHANGED <<db, idp>>
     /\ UNCHANGED made

Next == \E q \in Requests : Ask(q) \/ Open(q) \/ Close(q)

Spec == Init /\ [][Next]_vars
-----------------------------------------------------------------------------
(***************************************************************************)
(* Properties.                                                             *)
(***************************************************************************)
InGroup(t) == {p \in People : HasScimGroupAlias(db.people[p].aliases, t)}

\* The groups mirror the directory: nobody it put into a group is missing there, and
\* nobody else is in it but identities that took over another's aliases.
GroupsMirrored ==
  \A t \in TeamIds :
    Live(db.teams, t) => /\ idp.members[t] \subseteq InGroup(t)
                         /\ InGroup(t) \subseteq idp.members[t] \union idp.absorbed

\* The department the directory or an administrator gave somebody decides the team that is
\* charged, whatever groups the person joins and leaves, until that team is renamed.
DepartmentWins ==
  \A p \in People :
    LET row == db.people[p] IN
    idp.dept[p] # NoName =>
      /\ row.team # NoTeam
      /\ db.teams[row.team] = idp.dept[p] \/ row.team \in idp.renamed

\* Folding duplicates leaves one identity of each name in use: a name has an
\* active identity unless the directory deactivated one itself.
SomeoneSurvives ==
  \A n \in Range(NameOf) :
    LET ps == {p \in People : NameOf[p] = n /\ db.people[p].exists} IN
    ps # {} => \E p \in ps : db.people[p].active \/ p \in idp.off

\* Deleting a group removes it (scim.service.ts: "removes the team").
DeletionsSucceed == ~ refused
=============================================================================
