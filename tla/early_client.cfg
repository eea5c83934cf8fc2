SPECIFICATION Spec
CONSTANTS
  fwd = fwd
  rev = rev
  Conns = {fwd, rev}
  ListenAt <- MCListenAt
  MaxTyped = 0
  MaxPrinted = 1
  MaxAccepts = 2
INVARIANT ExpectedFirst
CHECK_DEADLOCK FALSE
