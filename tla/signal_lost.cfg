SPECIFICATION FairSpec
CONSTANTS
  tunnel = tunnel
  listener = listener
  link1 = link1
  link2 = link2
  Entry = {tunnel, listener, link1}
  First <- MCFirst
  INITIAL_SIZE = 1
PROPERTY SignalEnds
CHECK_DEADLOCK FALSE
