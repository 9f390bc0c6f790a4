SPECIFICATION Spec
CONSTANTS
  Models = {"m1", "m2"}
  Tears = {"part", "body"}
  MaxRuns = 3
  MaxMessages = 1
  MaxForeign = 0
INVARIANTS
  AckedSurvive
CHECK_DEADLOCK FALSE
