SPECIFICATION Spec
CONSTANTS
  Modes <- BothModes
  MaxAttempts = 2
  Batches = {1, 2}
  MaxResumes = 1
  MaxCrashes = 0
  MaxErrors = 1
  MaxThrottles = 0
  MaxSignals = 0
  MaxCancels = 1
  MaxRetries = 1
  MaxInputs = 0
  MaxUpdates = 1
CHECK_DEADLOCK FALSE
INVARIANTS AtMostOneLateEffect AttemptBudget QuiescentWhenEvaluated
