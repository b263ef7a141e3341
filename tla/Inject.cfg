SPECIFICATION InjectSpec
CONSTANTS
  MaxPid = 3
  MaxThread = 2
  MaxEvents = 2
  Kept <- MCKept
  ParamSet <- MCParams
INVARIANTS
  InjectTypeOK
  Fits
  Preorder
  CollectsAll
  HitsStopped
  FlippedOnce
  AllThreadsHit
  ResultTrue
  StoppedAreResumed
  RefsSettled
PROPERTIES
  InjectionEnds
