SPECIFICATION Spec
CONSTANTS
  MaxQuestions = 3
  FirstQuestions = 2
  MaxEdits = 3
INVARIANTS PlacesAreOneToN
CHECK_DEADLOCK FALSE
