\* Three settlements one after the other, without faults.
SPECIFICATION SerialSpec
CONSTANTS
  v1 = v1
  v2 = v2
  v3 = v3
  e1 = e1
  e2 = e2
  e3 = e3
  NoVote = NoVote
  Voters = {v1, v2, v3}
  NumChoices = 3
  Capacity = 4
  Faulty = FALSE
  Execs = {e1, e2, e3}
  Pool = 5
SYMMETRY Symmetry
INVARIANTS
  PaidAtMostOnce
CHECK_DEADLOCK FALSE
