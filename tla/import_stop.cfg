SPECIFICATION Spec
CONSTANTS
  Pages = {1, 2}
  Blank = {}
  Jobs = {1, 2, 3, 4, 5, 6}
  Requests = {r1}
  Breaks = FALSE
  MaxTrouble = 2
INVARIANTS StopEnds
CHECK_DEADLOCK FALSE
