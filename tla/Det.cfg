SPECIFICATION Spec
CONSTANTS
  MaxSends = 1
  ParamSet <- MCDetQuiet
  Calls <- MCBoth
  CanKill = FALSE
  EarlyClose = FALSE
  Faults <- MCNoFaults
  PromptThreads = TRUE
INVARIANTS
  FlipOnlyWhileStopped
  DisarmExclusive
  ProbeGone
  PageRestored
  LastStoreOnly
PROPERTIES
  KeepsPromise
