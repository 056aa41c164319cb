--------------------------- MODULE MCRegistration ---------------------------
(***************************************************************************)
(* Registration with small constants, given by the .cfg files.             *)
(***************************************************************************)
EXTENDS Registration, TLC

CONSTANTS v1, v2, v3, r1, r2, r3

\* Voters and requests are interchangeable.
Symmetry == Permutations(Voters) \cup Permutations(RegReqs)
=============================================================================
