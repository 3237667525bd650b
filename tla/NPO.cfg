CONSTANTS
  nthreads = 3
  numR = 6
  numS = 3
  KeyR <- MCKeyR
  KeyS <- MCKeyS
  BUCKET_SIZE = 2
  JoinBarrier = TRUE
SPECIFICATION Spec
INVARIANTS IInv NothingOverwritten NoUseAfterFree
PROPERTIES ImplementsJoin Terminates
