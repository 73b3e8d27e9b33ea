SPECIFICATION Spec
CONSTANTS
  NoOne = NoOne
  Runners = {r1, r2}
  Operators = {o1}
  Reporters = {v1}
  Overlap = FALSE
  MaxTransitions = 3
  MaxCrashes = 3
  MaxSignals = 1
  MaxTorn = 0
  Targets = {"Claiming", "Blocked", "ReadyForExecution", "TerminalFailure", "Cancelled"}
INVARIANTS TypeOK LogIsPrefix LogRepaired
