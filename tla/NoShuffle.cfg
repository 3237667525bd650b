CONSTANTS
  nthreads = 3
  numR = 2
  numS = 4
  KeyR <- MCKeyR
  KeyS <- MCKeyS
  TsR <- MCTsR
  TsS <- MCTsS
  PERF_COUNTERS = TRUE
  Word = 16
  StartBound = 1
  MaxArrival = 2
SPECIFICATION Spec
INVARIANT IInv
PROPERTIES NoEarlyFetch ImplementsJoin Terminates
