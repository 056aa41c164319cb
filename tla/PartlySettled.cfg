\* A settlement repeated after one that broke off between two rows.
SPECIFICATION SerialSpec
CONSTANTS
  v1 = v1
  v2 = v2
  v3 = v3
  e1 = e1
  e2 = e2
  e3 = e3
  NoVote = NoVote
  Voters = {v1}
  NumChoices = 2
  Capacity = 1
  Faulty = TRUE
  Execs = {e1, e2}
  Pool = 1
INVARIANTS
  AlreadyExecutedMeansComplete
CHECK_DEADLOCK FALSE
