CONSTANTS
  nthreads = 3
  numR = 1
  numS = 2
  KeyR <- MCKeyR
  KeyS <- MCKeyS
  PastKeys <- MCPastKeys
SPECIFICATION Spec
INVARIANTS IInv MetOnce AwaitedKept
PROPERTIES ImplementsJoin Terminates
