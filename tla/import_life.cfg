SPECIFICATION FairSpec
CONSTANTS
  Pages = {1, 2}
  Blank = {2}
  Jobs = {1, 2, 3, 4, 5, 6}
  Requests = {r1, r2}
  Breaks = TRUE
  MaxTrouble = 2
INVARIANTS TypeOK ReadyMeansRead Backed RemovedLeavesNothing
PROPERTIES PagesKept  EveryImportEnds
CHECK_DEADLOCK FALSE
