SPECIFICATION FairDataSpec
CONSTANTS
  c1 = c1
  c2 = c2
  Processor = Processor
  DataQ = DataQ
  NULL = NULL
  Item = {i1, i2, i3, i4}
  Server = {}
  Thread <- MCThread
  Reader <- MCReader
  Queue <- MCQueue
  Home <- MCHome
INVARIANTS TypeOK Linked NoUseAfterFree
PROPERTIES ImplementsFifo MissedSignalRepaired
CHECK_DEADLOCK FALSE
