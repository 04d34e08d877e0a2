SPECIFICATION FairSpec
CONSTANTS
  Jobs = {1, 2, 3, 4, 5}
  Requests = {r1}
  MaxActs = 1
  MaxFaults = 1
INVARIANTS TypeOK NoneStranded GuideIsCurrent
PROPERTIES RestsAtLast
CHECK_DEADLOCK FALSE
