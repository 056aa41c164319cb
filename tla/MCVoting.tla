------------------------------ MODULE MCVoting ------------------------------
(***************************************************************************)
(* Voting with small constants, given by the .cfg files.                   *)
(***************************************************************************)
EXTENDS Voting, TLC

CONSTANTS v1, v2, q1, q2

\* Voters and requests are interchangeable.
Symmetry == Permutations(Voters) \cup Permutations(VoteReqs)
=============================================================================
