SPECIFICATION FairSpec
CONSTANTS
  fwd = fwd
  rev = rev
  FwdChunks = 0
  RevChunks = 1
  Conns = {rev}
  ListenAt <- MCListenAt
  AckPackets = {}
  IdModulus = 1
  MaxAccepts = 1
  MaxChunks <- MCMaxChunks
PROPERTY ClosedAfterDelivery
CHECK_DEADLOCK FALSE
