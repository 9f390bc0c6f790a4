SPECIFICATION FairSpec
CONSTANTS
  c1 = c1
  c2 = c2
  p1 = p1
  p2 = p2
  s1 = s1
  s2 = s2
  f1 = f1
  Callers = {c1, c2}
  Prompts = {p1, p2}
  Steers = {}
  FollowUps = {}
  InitialMessages <- Interrupted
  Modes = {"one-at-a-time"}
  MaxRuns = 2
  MaxTurns = 0
  MaxCalls = 1
  MaxFailures = 1
  MaxResets = 0
  MaxCompactions = 0
INVARIANTS
  TypeOK OneRun NeverAnswersItself
PROPERTIES
  ImplementsRunSlot CallsReturn
CHECK_DEADLOCK FALSE
