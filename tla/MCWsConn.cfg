SPECIFICATION FairSpec
CONSTANTS
  Server = server
  Client = client
  Ends <- TwoEnds
  Buffers = {b1, b2}
  Nobody = Nobody
  BufSize = 1
  WireSize = 1
  ReadLimit = 2
  Lengths = {1, 3}
  Loads <- AllLoads
INVARIANTS LastFrameIsLast BufferOwned LimitIsPerMessage
PROPERTIES IsPipe MessagesArrive CloseAnswered
CHECK_DEADLOCK FALSE
