SPECIFICATION FairSpec
CONSTANTS
  Jobs <- MCJobs2
  Lanes = {"import"}
  Limit <- MCNarrowLimit
  Kinds <- MCImportKinds
  LaneOf <- MCImportLaneOf
  Resumable = {"prepare"}
  Handled = {"examine", "prepare"}
  Subjects = {"b1"}
  Keys = {"b1"}
  NoKey = ""
  Specs <- MCImportSpecs
  Leftover = {1}
  Stoppers = {s1}
  Resetters = {r1}
  Ticks = FALSE
  DbFaults = FALSE
  MaxTrouble = 2
  NoLane = "nolane"
  NoJob = 0
INVARIANTS RowsMatchRuns
PROPERTIES EveryJobEnds
CHECK_DEADLOCK FALSE
