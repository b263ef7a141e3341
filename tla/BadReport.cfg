SPECIFICATION Safe
CONSTANTS
  MaxSends = 1
  ParamSet <- MCAll
  Calls <- MCSend
  CanKill = FALSE
  EarlyClose = FALSE
  Faults <- MCNoFaults
  PromptThreads = TRUE
INVARIANT FaultReported
