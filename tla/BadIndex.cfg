SPECIFICATION InjectSafe
CONSTANTS
  MaxPid = 2
  MaxThread = 1
  MaxEvents = 0
  Kept <- MCNone
  ParamSet <- MCSecond
INVARIANT HitsTree
