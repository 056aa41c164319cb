\* Three concurrent settlements of three proposals, without faults.
SPECIFICATION Spec
CONSTANTS
  v1 = v1
  v2 = v2
  v3 = v3
  e1 = e1
  e2 = e2
  e3 = e3
  NoVote = NoVote
  Voters = {v1, v2}
  NumChoices = 3
  Capacity = 2
  Faulty = FALSE
  Execs = {e1, e2, e3}
  Pool = 3
SYMMETRY Symmetry
INVARIANTS
  AlreadyExecutedMeansComplete
CHECK_DEADLOCK FALSE
