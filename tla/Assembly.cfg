SPECIFICATION Spec
CONSTANTS
  NULL = NULL
  Subject <- OneSubject
  Text <- NoText
  Number = {1, 2, 3}
  AddressHigh = {0, 1}
  MaxFiles = 1
  MaxGroups = 0
  MaxSegments = 3
  ArticleName <- OneName
  ArticlePart = {2}
INVARIANTS
  TypeOK
  CombinedInOrder
CHECK_DEADLOCK FALSE
