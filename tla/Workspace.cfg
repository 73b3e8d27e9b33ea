SPECIFICATION Spec
CONSTANTS
  Issues = {i1}
  Runs = {r1, r2}
  NoIssue = NoIssue
  NoRun = NoRun
  MaxAttempts = 2
  MaxTroubles = 3
  KeepLast = 1
SYMMETRY RunsAlike
INVARIANTS OneRunPerIssue FreshCandidates ArchivedFirst KeptUsable
CHECK_DEADLOCK FALSE
