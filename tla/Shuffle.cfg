CONSTANTS
  nthreads = 4
  numR = 4
  numS = 2
  KeyR <- MCKeyR4
  KeyS <- MCKeyS
  TsR <- MCTsR4
  TsS <- MCTsS
  ContRand = TRUE
  GroupSize = 2
  EAGER = TRUE
  MaxTime = 1
SPECIFICATION Spec
INVARIANT IInv
PROPERTIES ImplementsJoin Terminates
