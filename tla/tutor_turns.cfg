SPECIFICATION FairSpec
CONSTANTS
  Turns = {1, 2}
  Blocks = 1
  Requests = {r1}
  Lag = 1
  MaxTrouble = 2
INVARIANTS TypeOK RunningIsOwed PageSettles GoneLeavesNoCalls
PROPERTIES StoppedStays EveryTurnEnds
CHECK_DEADLOCK FALSE
