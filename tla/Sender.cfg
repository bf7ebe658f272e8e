SPECIFICATION FairSpec
CONSTANTS
  max_count = 2
  Requests <- MCRequests
  MaxReads = 3
  MaxCtrl = 2
INVARIANTS
  StreamFaithful
  FifoIsLatest
  CloseAfterJoin
PROPERTIES
  NoRequestLost
  ImplementsStreamWindow
  RequestsServed
  Stops
