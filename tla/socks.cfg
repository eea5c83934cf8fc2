SPECIFICATION MCSpec
CONSTANTS
  c1 = c1
  c2 = c2
  c3 = c3
  Client = {c1, c2, c3}
  blockitems = 1
  SocketSize = 1
  Requests <- MCRequests
  MaxPieces <- MCMaxPieces
INVARIANT Owned
INVARIANT JoinsFinished
CHECK_DEADLOCK FALSE
PROPERTY Reclaims
PROPERTY GoneEnds
PROPERTY ReapedUnlessBlocked
