SPECIFICATION HangSpec
CONSTANTS
  MaxSends = 1
  ParamSet <- MCOne
  Calls <- MCSend
  CanKill = TRUE
  EarlyClose = FALSE
  Faults <- MCNoFaults
  PromptThreads = TRUE
INVARIANTS
  FaultReported
  
PROPERTIES
  Completes
  KillReturnsEventually
