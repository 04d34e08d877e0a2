SPECIFICATION FairSpec
CONSTANTS
  Clients = {c1, c2}
  RingSize = 2
  SubBuffer = 1
  Proxy = TRUE
  MaxEvents = 5
  MaxTrouble = 2
INVARIANTS TypeOK ChannelFits LiveCursor
PROPERTIES NeverSkips CatchesUp
CHECK_DEADLOCK FALSE
