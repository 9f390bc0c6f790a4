SPECIFICATION Spec
CONSTANTS
  Models = {"m1", "m2"}
  Tears = {"part"}
  MaxRuns = 3
  MaxMessages = 1
  MaxForeign = 2
INVARIANTS
  EntriesSurvive RoundTrip
CHECK_DEADLOCK FALSE
