\* Three registrations, of which none lands between the relay of another one and
\* its read-back, with faults.
SPECIFICATION UndisturbedSpec
CONSTANTS
  v1 = v1
  v2 = v2
  v3 = v3
  r1 = r1
  r2 = r2
  r3 = r3
  NoVote = NoVote
  Voters = {v1, v2, v3}
  NumChoices = 1
  Capacity = 3
  Faulty = TRUE
  RegReqs = {r1, r2, r3}
SYMMETRY Symmetry
INVARIANTS
  IndexIsExact
CHECK_DEADLOCK FALSE
