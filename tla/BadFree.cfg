SPECIFICATION Safe
CONSTANTS
  MaxSends = 1
  ParamSet <- MCDet
  Calls <- MCSend
  CanKill = FALSE
  EarlyClose = FALSE
  Faults <- MCNoFaults
  PromptThreads = TRUE
INVARIANT ThreadsStopped
