SPECIFICATION Spec
CONSTANTS
  NoOne = NoOne
  Runners = {r1}
  Operators = {o1}
  Reporters = {}
  Overlap = TRUE
  MaxTransitions = 2
  MaxCrashes = 0
  MaxSignals = 0
  MaxTorn = 0
  Targets = {"Claiming", "ReadyForExecution", "Cancelled"}
CONSTRAINT ShortLog
PROPERTIES ReopenNeedsRace
