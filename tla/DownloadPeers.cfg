SPECIFICATION DownloadSpec
CONSTANTS
  NULL = NULL
  Client = Client
  Processor = Processor
  DataQ = DataQ
  a = a
  b = b
  a1 = a1
  b1 = b1
  p1 = p1
  p2 = p2
  f1 = f1
  f2 = f2
  Server = {a, b}
  Post = {p1, p2}
  NzbFile = {f1, f2}
  Thread <- FillThread
  Reader <- FillReader
  ServerOf <- FillServerOf
  Priority <- PeerPriority
  Queue <- PeerQueue
  Home <- PeerHome
  ServerList <- MCServerList
  Item <- ThreeItems
  PostOf <- LongPost
  FileOf <- OneFile
INVARIANTS
  OwnedOnce
  NoUseAfterFree
  AssertionsHold
  ShiftFindsItem
  BoundedRetries
CHECK_DEADLOCK FALSE
