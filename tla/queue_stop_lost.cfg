SPECIFICATION Spec
CONSTANTS
  Jobs <- MCJobs1
  Lanes = {"import", "turn"}
  Limit <- MCPairs
  Kinds <- MCKinds
  LaneOf <- MCLaneOf
  Resumable = {"prepare"}
  Handled = {"examine", "prepare", "turn"}
  Subjects = {"b1", "t1"}
  Keys = {"b1"}
  NoKey = ""
  Specs <- MCOneSpec
  Leftover = {}
  Stoppers = {s1}
  Resetters = {}
  Ticks = FALSE
  DbFaults = FALSE
  MaxTrouble = 0
  NoLane = "nolane"
  NoJob = 0
PROPERTIES StopTakesEffect
CHECK_DEADLOCK FALSE
