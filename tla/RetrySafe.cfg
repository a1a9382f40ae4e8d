SPECIFICATION FairSpec
CONSTANTS
  Timeout = 4
  Attempts = 3
  AttemptTimeout = 3
  Base = 1
  MaxDelay = 2
  MaxRetryAfter = 2
  Slice = 1
  RetryAfters = {3}
  HookTime = 2
INVARIANTS BudgetKept OneBody NoBodyLeftOpen
PROPERTY Terminates
CHECK_DEADLOCK FALSE
