SPECIFICATION FairDataSpec
CONSTANTS
  c1 = c1
  c2 = c2
  Processor = Processor
  DataQ = DataQ
  NULL = NULL
  Item = {i1, i2}
  Server = {}
  Thread <- MCThread
  Reader <- MCReader
  Queue <- MCQueue
  Home <- MCHome

PROPERTY BlocksOnlyWithoutData
CHECK_DEADLOCK FALSE
