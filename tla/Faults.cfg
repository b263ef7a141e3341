SPECIFICATION Spec
CONSTANTS
  MaxSends = 1
  ParamSet <- MCEvery
  Calls <- MCBoth
  CanKill = TRUE
  EarlyClose = TRUE
  Faults <- MCAllFaults
  PromptThreads = FALSE
INVARIANTS
  TargetResumed
PROPERTIES
  ResultFrozen
  CloseReturns
