SPECIFICATION Spec
CONSTANTS
  Procs = {p, q}
  Runner = p
  Buckets = {"issues:read", "issues:comment", "issues:labels"}
  None = None
  Window = 1
  Default = 1
  MaxTold = 2
  MaxClock = 2
  Configured = {"work", "in_review", "done"}
  PerLabel = FALSE
  MaxComments = 1
  Shared = {"issues:labels"}
  Contended = {"in_review"}
  MaxRemarks = 1
  MaxTroubles = 1
  MaxCrashes = 1
  MaxWaits = 1
CHECK_DEADLOCK FALSE
INVARIANTS RefusalHolds CommentedOnce LabelsTell
PROPERTIES ThrottleEnds
