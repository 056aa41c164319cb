\* Two registrations read the same count: the second row is refused.
SPECIFICATION Spec
CONSTANTS
  v1 = v1
  v2 = v2
  v3 = v3
  r1 = r1
  r2 = r2
  r3 = r3
  NoVote = NoVote
  Voters = {v1, v2}
  NumChoices = 1
  Capacity = 2
  Faulty = FALSE
  RegReqs = {r1, r2}
INVARIANTS
  RelayedVoterIsListed
CHECK_DEADLOCK FALSE
