\* The handlers of one round together, without faults.
SPECIFICATION BackendFairSpec
CONSTANTS
  v1 = v1
  o1 = o1
  f1 = f1
  r1 = r1
  q1 = q1
  e1 = e1
  e2 = e2
  NoVote = NoVote
  Voters = {v1}
  NumChoices = 2
  Capacity = 2
  Faulty = FALSE
  OpenReqs = {o1}
  FinalizeReqs = {f1}
  RegReqs = {r1}
  VoteReqs = {q1}
  ProveReqs = {q1}
  RootForms = {"bare", "decimal"}
  Kinds = {"witness"}
  FewRefused = TRUE
  Execs = {e1, e2}
  Pool = 2
INVARIANTS
  AnsweredBallotIsPaid
  ErrorMeansNotCast
PROPERTIES
  ImplementsRoundLifecycle
  ImplementsVoting
  ImplementsPayouts
  ImplementsRegistration
  GoodVoteIsNotRefused
  GoodVoteIsCounted
  SettlementCompletes
CHECK_DEADLOCK FALSE
