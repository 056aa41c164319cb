\* Two concurrent settlements, without faults.
SPECIFICATION Spec
CONSTANTS
  v1 = v1
  v2 = v2
  v3 = v3
  e1 = e1
  e2 = e2
  e3 = e3
  NoVote = NoVote
  Voters = {v1}
  NumChoices = 1
  Capacity = 1
  Faulty = FALSE
  Execs = {e1, e2}
  Pool = 1
INVARIANTS
  PaidAtMostOnce
CHECK_DEADLOCK FALSE
