\* Three concurrent requests for three voters, or two for one of them, with
\* faults and with wallets that register on their own.
SPECIFICATION Spec
CONSTANTS
  v1 = v1
  v2 = v2
  v3 = v3
  r1 = r1
  r2 = r2
  r3 = r3
  NoVote = NoVote
  Voters = {v1, v2, v3}
  NumChoices = 1
  Capacity = 3
  Faulty = TRUE
  RegReqs = {r1, r2, r3}
SYMMETRY Symmetry
INVARIANTS
  TypeOK
  IndexNotBeforeLeaf
  CompleteMirrorIsExact
CHECK_DEADLOCK FALSE
