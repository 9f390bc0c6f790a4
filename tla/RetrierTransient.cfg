SPECIFICATION RetrySpec
CONSTANTS
  MaxAttempts = 3
  preOutputLimit = 3
  MaxEvents = 4
  BaseDelay = 2
  BackoffCap = 5
  MaxDelay = 8
  Hints = {0, 3, 9}
  Statuses = {0, 200, 400, 429, 500}
  Width = 6
INVARIANT TransientIsRetried
CHECK_DEADLOCK FALSE
