SPECIFICATION FairSpec
CONSTANTS
  fwd = fwd
  rev = rev
  Conns = {fwd, rev}
  ListenAt <- MCListenAt
  MaxTyped = 2
  MaxPrinted = 2
  MaxAccepts = 2
INVARIANT TypeOK
INVARIANT ConnectionKnown
INVARIANT ConnectedAgree
INVARIANT InputBeforePackets
PROPERTY HandshakeEnds
PROPERTY OutputShown
CHECK_DEADLOCK FALSE
