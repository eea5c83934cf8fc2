SPECIFICATION FairSpec
CONSTANTS
  c1 = c1
  c2 = c2
  c3 = c3
  Client = {c1}
  blockitems = 1
  SocketSize = 1
  Requests <- MCRequests
  MaxPieces <- MCMaxPieces
PROPERTY InactiveReaped
CHECK_DEADLOCK FALSE
