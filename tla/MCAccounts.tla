----------------------------- MODULE MCAccounts -----------------------------
(***************************************************************************)
(* One address, first the founding administrator's: the person is demoted, *)
(* deactivated, removed, provisioned again and invited while two requests  *)
(* run, with sessions that outlive each of these changes.                  *)
(***************************************************************************)
EXTENDS Accounts, TLC

CONSTANTS boss, q1, q2, i1, i2

Interchangeable == Permutations({q1, q2}) \union Permutations({i1, i2})
=============================================================================
