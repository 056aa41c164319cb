-------------------------- MODULE MCAdministration --------------------------
(***************************************************************************)
(* Administration with small constants, given by the .cfg file.            *)
(***************************************************************************)
EXTENDS Administration, TLC

CONSTANTS c1, c2, m1, m2, v1

\* Voters and requests are interchangeable.
Symmetry == Permutations(CreateReqs) \cup Permutations(MarkReqs) \cup Permutations(Voters)
=============================================================================
