\* Two creations and two markings, with faults; two contracts one after the
\* other, and a pool of one connection.
SPECIFICATION Spec
CONSTANTS
  c1 = c1
  c2 = c2
  m1 = m1
  m2 = m2
  v1 = v1
  NoRow = NoRow
  Faulty = TRUE
  CreateReqs = {c1, c2}
  MarkReqs = {m1, m2}
  Voters = {v1}
  MaxProposals = 2
  MaxList = 1
  MaxContracts = 2
  MaxConns = 1
SYMMETRY Symmetry
INVARIANTS
  TypeOK
  RowsAreWholeRounds
  CreatedRoundStays
  LaterMarkWins
  ConnectionsAreNotLeaked
  ConnectionsComeBack
CHECK_DEADLOCK FALSE
