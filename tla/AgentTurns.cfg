SPECIFICATION Spec
CONSTANTS
  c1 = c1
  c2 = c2
  p1 = p1
  p2 = p2
  s1 = s1
  s2 = s2
  f1 = f1
  Callers = {c1}
  Prompts = {p1}
  Steers = {s1}
  FollowUps = {}
  InitialMessages <- NoHistory
  Modes = {"one-at-a-time"}
  MaxRuns = 2
  MaxTurns = 1
  MaxCalls = 2
  MaxFailures = 1
  MaxResets = 1
  MaxCompactions = 1
INVARIANTS
  IdleIsClean ContextIsTranscript CancelStopsTheLoop
PROPERTIES
  FailureIsReported
CHECK_DEADLOCK FALSE
