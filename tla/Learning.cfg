SPECIFICATION Spec
CONSTANTS
  p1 = p1
  p2 = p2
  Procs <- MCProcs
  Actors <- MCProcs
  Events <- MCEvents
  Commits <- MCCommits
  Histories <- MCHistories
  Threshold = 2
  LogFile <- journal
  PageFiles <- MCPageFiles
  DormantDays = 180
  CoupleMin = 2
  LargeChange = 3
  MovedFiles = 1
  TopDirs = {"app"}
  Recurring = 1
  ManyDormant = 0
  HighRisk = 600
  Summaries = {"no retries", "retries", "tests first"}
  PartOf <- MCPartOf
  Statuses = {"approved", "draft"}
  Findings = {"f1", "f2"}
  Verdicts = {"accepted", "open"}
  Budgets <- MCBudgets
  LessonLimit = 2
  SearchLimit = 2
  SectionLimits <- MCSectionLimits
  Scores <- MCScores
  GoalTexts <- MCGoalTexts
  Sizes <- MCSizes
  RiskLimit = 5
  HeadSize = 1
  ExemplarSize = 1
  ContextLimit = 8
SYMMETRY MCSymmetry
INVARIANTS
  IdempotentRebuild
  LearnedInPrompt
  RebuiltInTime
  LessonOnce
  SyncedWasWritten
CHECK_DEADLOCK FALSE
