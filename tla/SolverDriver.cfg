SPECIFICATION Spec
CONSTANTS
  MaxWork = 3
  MaxCalls = 3
  Interval = 1
  InitialRate = 2
  MaxIterations = 4
  DeltaTimes = {0, 1, 2}
INVARIANTS FinalizeAtFixpoint PromptCancellation
PROPERTIES AsyncReturns
CHECK_DEADLOCK FALSE
