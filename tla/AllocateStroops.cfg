\* Every pool up to 20 split over every vote vector of four proposals with up
\* to 8 votes in all.
SPECIFICATION Spec
CONSTANTS
  N = 4
  MaxPool = 20
  MaxTotal = 8
  U64 = 21
INVARIANTS
  TypeOK
  SplitIsFair
  ComputesTheAllocation
  NoWrap
  LeftoverFits
CHECK_DEADLOCK FALSE
