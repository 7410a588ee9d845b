-------------------------------- MODULE Sums --------------------------------
(***************************************************************************)
(* Totals of integer functions over 1..n.  Every ledger of the project     *)
(* (month-to-date spend, queue occupancy) is compared with such a total.   *)
(* The running total is a recursive function, not a RECURSIVE operator, so *)
(* that TLC evaluates it and TLAPS can reason about it.                    *)
(***************************************************************************)
EXTENDS Integers

\* The sequence of running totals of f: index 0 holds 0, index i the sum of f[1..i].
RunningTotal(f, n) ==
  LET s[i \in 0..n] == IF i = 0 THEN 0 ELSE s[i-1] + f[i] IN s

\* f[1] + ... + f[n].
Total(f, n) == RunningTotal(f, n)[n]

=============================================================================
