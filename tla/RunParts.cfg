SPECIFICATION PartsSpec
CONSTANTS
  Calls = 3
  Modes = {"sequential", "parallel"}
  Updates = 1
  MaxFailures = 1
  MaxAttempts = 4
  preOutputLimit = 3
  MaxEvents = 4
  BaseDelay = 10
  BackoffCap = 31
  MaxDelay = 28
  Hints = {0, 12, 30}
  Statuses = {0, 200, 400, 429, 500}
  Width = 6
  Tasks = {"k1", "k2"}
  Slots = 1
  Policies <- MCPolicies
  MaxToolCalls = 3
INVARIANTS
  BatchIsSound RetryIsInvisible
PROPERTIES
  ModeBindsTheNextCall ToolsReturn RetriesEnd TasksReturn
CHECK_DEADLOCK FALSE
