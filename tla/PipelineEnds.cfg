SPECIFICATION FairSpec
CONSTANTS
  Modes <- BothModes
  MaxAttempts = 2
  Batches = {1}
  MaxResumes = 1
  MaxCrashes = 0
  MaxErrors = 1
  MaxThrottles = 1
  MaxSignals = 1
  MaxCancels = 1
  MaxRetries = 0
  MaxInputs = 1
  MaxUpdates = 0
CHECK_DEADLOCK FALSE
PROPERTIES AnswerFirst EveryCommandEnds
