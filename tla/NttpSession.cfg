SPECIFICATION FairSpec
CONSTANTS
  Segment = {1, 2, 3}
  NoSegment = 0
  GroupOf <- MCGroupOf
  NoGroup = NoGroup
  g1 = g1
  g2 = g2
  StatusIsWhole = TRUE
INVARIANTS
  TypeOK
  RightBody
  FailsForAReason
  LoggedInFirst
  GroupKnown
  FiveAttempts
PROPERTIES
  ImplementsRetrieval
  EveryRequestEnds
CHECK_DEADLOCK FALSE
