CONSTANTS
  nthreads = 4
  numR = 12
  numS = 6
  KeyR <- MCKeyRPass
  KeyS <- MCKeyS
  Builds <- MCBuildsPass
  NRADIXBITS = 3
  TUPLESPERCACHELINE = 4
  NumaRegion <- MCRegion
  NumaSlot <- MCSlot
  NumaStrategies = {"NEXT"}
  ShuffleOrder <- MCShuffleOrder
  AvxSpace <- MCAvxSpace
SPECIFICATION Spec
INVARIANT ChunksIntact
