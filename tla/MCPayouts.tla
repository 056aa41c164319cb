------------------------------ MODULE MCPayouts ------------------------------
(***************************************************************************)
(* Payouts with small constants, given by the .cfg files.                  *)
(***************************************************************************)
EXTENDS Payouts, TLC

CONSTANTS v1, v2, v3, e1, e2, e3

\* Voters and requests are interchangeable.
Symmetry == Permutations(Voters) \cup Permutations(Execs)
=============================================================================
