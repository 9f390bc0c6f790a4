SPECIFICATION Spec
CONSTANTS
  c1 = c1
  c2 = c2
  p1 = p1
  p2 = p2
  s1 = s1
  s2 = s2
  f1 = f1
  Callers = {c1}
  Prompts = {p1}
  Steers = {s1, s2}
  FollowUps = {f1}
  InitialMessages <- NoHistory
  Modes = {"all", "one-at-a-time"}
  MaxRuns = 2
  MaxTurns = 0
  MaxCalls = 1
  MaxFailures = 1
  MaxResets = 0
  MaxCompactions = 0
SYMMETRY InterchangeableSteers
INVARIANTS
  Conservation QueueOrder
CHECK_DEADLOCK FALSE
