SPECIFICATION Spec
CONSTANTS
  Segment = {1, 2, 3}
  NoSegment = 0
  GroupOf <- MCGroupOf
  NoGroup = NoGroup
  g1 = g1
  g2 = g2
  StatusIsWhole = FALSE
INVARIANTS
  RightBody
CHECK_DEADLOCK FALSE
