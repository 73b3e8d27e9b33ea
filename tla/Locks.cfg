SPECIFICATION Spec
CONSTANTS
  Locks = {l1, l2}
  None = None
  Interval = 1
  Slack = 1
  Timeout = 2
  StaleAge = 3
  MaxClock = 5
  MaxCrashes = 1
CHECK_DEADLOCK FALSE
INVARIANTS OwnerShown NoGhost LiveNotStale
PROPERTIES EnterReturns
