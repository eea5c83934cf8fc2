SPECIFICATION FairSpec
CONSTANTS
  fwd = fwd
  rev = rev
  FwdChunks = 1
  RevChunks = 0
  Conns = {fwd}
  ListenAt <- MCListenAt
  AckPackets = {fwd}
  IdModulus = 1
  MaxAccepts = 1
  MaxChunks <- MCMaxChunks
PROPERTY CloseCompletes
PROPERTY AckArrives
CHECK_DEADLOCK FALSE
