SPECIFICATION Spec
CONSTANTS
  NoOne = NoOne
  Runners = {r1, r2}
  Operators = {o1}
  Reporters = {}
  Overlap = TRUE
  MaxTransitions = 2
  MaxCrashes = 1
  MaxSignals = 1
  MaxTorn = 1
  Targets = {"Claiming", "Blocked", "TerminalFailure", "Cancelled"}
SYMMETRY Symmetry
CONSTRAINTS Apart ShortLog
INVARIANTS NoLostTransition
PROPERTIES HistorySpec TerminalImmutable
