------------------------- MODULE MCRoundLifecycle -------------------------
(***************************************************************************)
(* RoundLifecycle with small constants, given by the .cfg files.           *)
(***************************************************************************)
EXTENDS RoundLifecycle, TLC

CONSTANTS v1, v2, o1, o2, f1, f2, t1, t2

\* Voters are interchangeable, and so are requests of one kind.
Symmetry ==
  Permutations(Voters) \cup Permutations(OpenReqs)
    \cup Permutations(FinalizeReqs) \cup Permutations(TallyReqs)
=============================================================================
