CONSTANTS
  Files <- MCFiles
  Tracked = {"app", "logo"}
  Binary = {"logo", "buried"}
  Nested = {"buried"}
  Lossy = {"buried"}
  Manifests = {"manifest"}
  Configured = {"test"}
  Discoverable = {"test", "security"}
  Advisory = TRUE
  RetryCount = 1
  AllowKnown = TRUE
  BlockHigh = TRUE
  Candidates = 1
  RepairCandidates = 1
  MaxParallel = 2
  MaxAttempts = 2
  MaxTotal = 3
  StopAfter = 2
  EscalateAfter = 1
  MaxEscalated = 1
  Disallowed = {"dependency"}
  Works <- MCWorks
  Spoils = {{}, {"app"}}
  Merges <- MCMerges
  Baselines <- MCBaselines
  Areas <- MCAreas
  Checkouts <- MCCheckouts
  Dismissals <- MCDismissals
  Manifested = {{}, {"now"}, {"before"}}
  Installed = "now"
  MaxCrashes = 1
  MaxResumes = 1
SPECIFICATION Spec
INVARIANTS NewFilesCarried
CHECK_DEADLOCK FALSE
