\* Opens sent one after the other, of a round whose row is there: the contract
\* accepts the first, and its caller sees an error.
SPECIFICATION SerialSpec
CONSTANTS
  v1 = v1
  v2 = v2
  o1 = o1
  o2 = o2
  f1 = f1
  f2 = f2
  t1 = t1
  t2 = t2
  NoVote = NoVote
  Voters = {v1}
  NumChoices = 1
  Capacity = 1
  Faulty = TRUE
  OpenReqs = {o1, o2}
  FinalizeReqs = {f1}
  TallyReqs = {}
INVARIANTS
  OpenedRoundIsMarked
CHECK_DEADLOCK FALSE
