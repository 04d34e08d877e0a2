SPECIFICATION Spec
CONSTANTS
  Clients = {c1}
  RingSize = 2
  SubBuffer = 1
  Proxy = TRUE
  MaxEvents = 3
  MaxTrouble = 2
PROPERTIES StaysFresh
CHECK_DEADLOCK FALSE
