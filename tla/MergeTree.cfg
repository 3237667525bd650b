CONSTANTS
  nparts = 16
  FifoSizes = {2, 3, 4}
  Lengths = {0, 1, 5}
  Patterns = {"rising", "falling", "interleaved", "repeating"}
  Inputs <- MCInputs
SPECIFICATION TreeSpec
INVARIANTS RingsAgree TreeInOrder MergedAll
PROPERTY Ends
