SPECIFICATION DrawSafe
CONSTANTS
  Files <- MCWindow
  Arches <- MCArches
  Measured <- MCMeasured
  NSEC_PER_MSEC = 4
  ShortWindow = 5
  WordSize = 16
  RegBits = 4
  NThreads = 2
INVARIANT WindowRespected
