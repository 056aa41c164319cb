\* Two concurrent requests of two voters, of every kind, with faults.
SPECIFICATION Spec
CONSTANTS
  v1 = v1
  v2 = v2
  q1 = q1
  q2 = q2
  NoVote = NoVote
  Voters = {v1, v2}
  NumChoices = 2
  Capacity = 2
  Faulty = TRUE
  VoteReqs = {q1, q2}
  ProveReqs = {q1, q2}
  RootForms = {"bare", "decimal"}
  Kinds = {"proof", "witness", "malformed"}
  FewRefused = TRUE
SYMMETRY Symmetry
INVARIANTS
  TypeOK
  RowsAreBallots
  InsertNeverConflicts
  ServerProofIsCurrent
CHECK_DEADLOCK FALSE
