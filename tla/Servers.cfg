SPECIFICATION SpecConnections
CONSTANTS
  NULL = NULL
  UserPriority = {0, 2, 40}
  AddressHigh = {0}
  MaxServers = 4
  MaxConnected = 2
  MaxLate = 3
  MaxTicks = 7
  MaxBytes = 2
INVARIANTS
  PrioritiesDense
  AscendingOrderWorks
  EveryQueueIsRead
  RateWithinTwice
CHECK_DEADLOCK FALSE
