SPECIFICATION MCSpec
CONSTANTS
  fwd = fwd
  rev = rev
  FwdChunks = 2
  RevChunks = 3
  Conns = {fwd, rev}
  ListenAt <- MCListenAt
  AckPackets = {fwd}
  IdModulus = 1
  MaxAccepts = 2
  MaxChunks <- MCMaxChunks
INVARIANT TypeOK
INVARIANT LookupsSucceed
INVARIANT LinkProtocol
INVARIANT NoHalfOpen
INVARIANT StopAndWait
INVARIANT PollsForWork
INVARIANT DataInOrder
CHECK_DEADLOCK FALSE
