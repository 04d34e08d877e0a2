SPECIFICATION Spec
CONSTANTS
  Jobs <- MCJobs3
  Lanes = {"import", "turn"}
  Limit <- MCPairs
  Kinds <- MCKinds
  LaneOf <- MCLaneOf
  Resumable = {"prepare"}
  Handled = {"examine", "prepare", "turn"}
  Subjects = {"b1", "t1"}
  Keys = {"b1"}
  NoKey = ""
  Specs <- MCSpecs
  Leftover = {1}
  Stoppers = {}
  Resetters = {r1}
  Ticks = TRUE
  DbFaults = TRUE
  MaxTrouble = 1
  NoLane = "nolane"
  NoJob = 0
INVARIANTS TypeOK LaneLimit KeyExclusive WipeAlone
PROPERTIES InterruptedNeverFails InterruptsMatchWaiters KeepsContract
CHECK_DEADLOCK FALSE
