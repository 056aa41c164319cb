\* Two concurrent settlements of three proposals, with faults; pool 5 leaves
\* remainders to round, and proposals with no vote.
SPECIFICATION Spec
CONSTANTS
  v1 = v1
  v2 = v2
  v3 = v3
  e1 = e1
  e2 = e2
  e3 = e3
  NoVote = NoVote
  Voters = {v1, v2, v3}
  NumChoices = 3
  Capacity = 4
  Faulty = TRUE
  Execs = {e1, e2}
  Pool = 5
SYMMETRY Symmetry
INVARIANTS
  TypeOK
  LaterProposalsPaidOnce
  RecordedSharesAreFinal
  RowsWithinPool
  RowsTellThePayments
  RowsArePrefix
PROPERTIES
  ImplementsSettlement
CHECK_DEADLOCK FALSE
