SPECIFICATION Spec
CONSTANTS
  Modes <- WithPR
  MaxAttempts = 3
  Batches = {1, 2}
  MaxResumes = 3
  MaxCrashes = 3
  MaxErrors = 1
  MaxThrottles = 1
  MaxSignals = 0
  MaxCancels = 0
  MaxRetries = 0
  MaxInputs = 0
  MaxUpdates = 0
CHECK_DEADLOCK FALSE
INVARIANTS TypeOK OnePullRequest PushedIsVerified StepsAreTrue PublishedIsSelected
