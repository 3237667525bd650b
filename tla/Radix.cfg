CONSTANTS
  nthreads = 4
  numR = 5
  numS = 4
  KeyR <- MCKeyR
  KeyS <- MCKeyS
  D1 = 1
  D2 = 1
  SMALL_PADDING_TUPLES = 1
  numnuma = 2
  Nodes = {0, 1}
SPECIFICATION Spec
INVARIANTS IInv FirstPassExact JoinTaskExact
PROPERTIES ImplementsJoin Terminates
