\* Two opens and two finalizes, each sent when the one before is answered or
\* given up, with faults.
SPECIFICATION SerialSpec
CONSTANTS
  v1 = v1
  v2 = v2
  o1 = o1
  o2 = o2
  f1 = f1
  f2 = f2
  t1 = t1
  t2 = t2
  NoVote = NoVote
  Voters = {v1, v2}
  NumChoices = 2
  Capacity = 2
  Faulty = TRUE
  OpenReqs = {o1, o2}
  FinalizeReqs = {f1, f2}
  TallyReqs = {}
SYMMETRY Symmetry
PROPERTIES
  FinalizedRowIsFinal
CHECK_DEADLOCK FALSE
