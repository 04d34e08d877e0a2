SPECIFICATION RefetchSpec
CONSTANTS
  Turns = {1}
  Blocks = 1
  Requests = {r1}
  Lag = 2
  MaxTrouble = 1
PROPERTIES NeverRollsBack
CHECK_DEADLOCK FALSE
