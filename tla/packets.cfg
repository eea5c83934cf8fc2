SPECIFICATION FairSpec
CONSTANTS
  Base = 2
  MaxBody = 3
  Bodies <- MCBodies
  READ_SIZE = 5
  MAX_LENGTH = 3
  MaxSends = 3
INVARIANT NeverBadLength
INVARIANT FitsBuffer
INVARIANT OnlyCutMisleads
PROPERTY ImplementsFifo
PROPERTY AllArrive
PROPERTY EndNoticed
CHECK_DEADLOCK FALSE
