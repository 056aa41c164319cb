\* An open_voting that is late overwrites the mark of finalize_round.
SPECIFICATION Spec
CONSTANTS
  v1 = v1
  v2 = v2
  o1 = o1
  o2 = o2
  f1 = f1
  f2 = f2
  t1 = t1
  t2 = t2
  NoVote = NoVote
  Voters = {v1}
  NumChoices = 1
  Capacity = 1
  Faulty = FALSE
  OpenReqs = {o1}
  FinalizeReqs = {f1}
  TallyReqs = {}
PROPERTIES
  FinalizedRowIsFinal
CHECK_DEADLOCK FALSE
