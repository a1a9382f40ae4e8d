SPECIFICATION RetrySpec
CONSTANTS
  Timeout = 5
  Attempts = 3
  AttemptTimeout = 3
  Base = 1
  MaxDelay = 2
  MaxRetryAfter = 2
  Slice = 1
  RetryAfters = {0, 1, 3}
  HookTime = 1
INVARIANT ReturnedIsReadable
CHECK_DEADLOCK FALSE
