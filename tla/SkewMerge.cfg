CONSTANTS
  nthreads = 4
  PARTFANOUT = 4
  NumaRegion <- MCRegion
  SAMPLES = 4
  Inputs <- MCInputs
  SplitKeys = {4, 6, 9}
SPECIFICATION Spec
INVARIANTS EachPlaceOnce MergedUnlessMixed
PROPERTY EventuallyMerged
