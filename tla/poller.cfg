SPECIFICATION FairSpec
CONSTANTS
  tunnel = tunnel
  listener = listener
  link1 = link1
  link2 = link2
  Entry = {tunnel, listener, link1, link2}
  First <- MCFirst
  INITIAL_SIZE = 1
INVARIANT TypeOK
INVARIANT InBounds
INVARIANT PassComplete
INVARIANT AllCleaned
PROPERTY VisitsDue
PROPERTY FinishEnds
CHECK_DEADLOCK FALSE
