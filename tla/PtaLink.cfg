SPECIFICATION Spec
CONSTANTS
  Holders = {h1, h2}
  Depth = 1
  MaxPolls = 2
  MaxCalls = 2
  MaxCals = 1
  MaxResets = 1
INVARIANTS FailureLeavesC
CHECK_DEADLOCK FALSE
