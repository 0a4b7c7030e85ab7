SPECIFICATION FairDownloadSpec
CONSTANTS
  NULL = NULL
  Client = Client
  Processor = Processor
  DataQ = DataQ
  a = a
  b = b
  a1 = a1
  b1 = b1
  p1 = p1
  p2 = p2
  f1 = f1
  f2 = f2
  Server = {a, b}
  Post = {p1, p2}
  NzbFile = {f1, f2}
  Thread <- FillThread
  Reader <- FillReader
  ServerOf <- FillServerOf
  Priority <- FillPriority
  Queue <- FillQueue
  Home <- FillHome
  ServerList <- MCServerList
  Item <- ThreeItems
  PostOf <- TwoPosts
  FileOf <- TwoFiles
INVARIANTS
  TypeOK
  NothingLost
  BoundedRetries
  TriedEverywhere
  CompleteReported
  StoredWhereAsked
PROPERTIES
  ImplementsPosts
  EverySegmentResolved
CHECK_DEADLOCK FALSE
