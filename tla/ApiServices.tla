---------------------------- MODULE ApiServices ----------------------------
(***************************************************************************)
(* api/src/app.module.ts: the billing imports and the directory are        *)
(* modules of one API process.  They meet in the table of identities only, *)
(* and each model keeps the part of a row that its own properties are      *)
(* about, so a behaviour here uses one of the two, chosen at the start.    *)
(***************************************************************************)
EXTENDS PortalImport

CONSTANTS
  N, NameOf, PreferredPeople, TeamIds, TeamNames, Clients, Operations, MaxRequests   \* Directory

ASSUME ServicesAssumption ==
  /\ MaxUploads \in Nat /\ MaxEvents \in Nat /\ Preferred \subseteq Emails
  /\ N \in Nat /\ DOMAIN NameOf = 1..N /\ PreferredPeople \subseteq 1..N /\ MaxRequests \in Nat

VARIABLES
  provisioning,                  \* the directory is in use
  db, req, made, idp, refused    \* Directory

Scim == INSTANCE Directory WITH Preferred <- PreferredPeople, Requests <- Clients

scimVars == <<db, req, made, idp, refused>>

ServicesInit == provisioning \in BOOLEAN /\ Init /\ Scim!Init

ServicesNext ==
  /\ UNCHANGED provisioning
  /\ \/ ~ provisioning /\ Next /\ UNCHANGED scimVars
     \/ provisioning /\ Scim!Next /\ UNCHANGED vars

ServicesSpec == ServicesInit /\ [][ServicesNext]_<<provisioning, vars, scimVars>>
-----------------------------------------------------------------------------
(***************************************************************************)
(* Correctness of the directory, as its module states it.                  *)
(***************************************************************************)

\* The groups of scim.service.ts mirror the directory: nobody it put into one is missing, and
\* nobody else is in it but identities that took over another's aliases in a merge.
GroupsMirrored == Scim!GroupsMirrored

\* The department somebody was given decides the team that is charged, whatever groups the
\* person joins and leaves (scim.service.ts: "department wins").
DepartmentWins == Scim!DepartmentWins

\* Folding duplicates (identity-merge.ts) leaves one identity of each name in use.
SomeoneSurvives == Scim!SomeoneSurvives

\* Deleting a group removes it (scim.service.ts: "removes the team"), which the code does not
\* keep: see the known limits in README.md.
DeletionsSucceed == Scim!DeletionsSucceed
=============================================================================
