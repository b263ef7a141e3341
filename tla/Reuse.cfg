SPECIFICATION Safe
CONSTANTS
  MaxSends = 2
  ParamSet <- MCOne
  Calls <- MCBoth
  CanKill = FALSE
  EarlyClose = FALSE
  Faults <- MCNoFaults
  PromptThreads = TRUE
INVARIANTS
  ThreadInv
  ResultIsOwn
  CompletedAfterExit
PROPERTIES
  MonitorsDoNotOverlap
  FlipsDoNotOverlap
