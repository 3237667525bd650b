CONSTANTS
  nthreads = 4
  numR = 12
  numS = 6
  KeyR <- MCKeyR
  KeyS <- MCKeyS
  Builds <- MCBuilds
  NRADIXBITS = 3
  TUPLESPERCACHELINE = 2
  NumaRegion <- MCRegion
  NumaSlot <- MCSlot
  NumaStrategies = {"RANDOM", "RING", "NEXT"}
  ShuffleOrder <- MCShuffleOrder
  AvxSpace <- MCAvxSpace
SPECIFICATION Spec
INVARIANTS ChunksIntact MemorySafe
PROPERTY ImplementsJoin
