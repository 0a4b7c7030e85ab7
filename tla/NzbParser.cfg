SPECIFICATION ParserSpec
CONSTANTS
  NULL = NULL
  Subject <- MCSubject
  Text <- MCText
  Number = {1, 2, 3}
  AddressHigh = {0, 1}
  MaxFiles = 2
  MaxGroups = 1
  MaxSegments = 3
INVARIANTS
  ParserTypeOK
  NamesWhole
  SegmentsSorted
  FilesAsWritten
CHECK_DEADLOCK FALSE
