CONSTANTS
  NUM_RADIX_BITS = 3
  Keys = {0, 1, 2}
  sizeR = 5
  sizeS = 2
  LazyKeys = {0, 1, 4, 16}
  MaxR = 5
  MaxS = 2
  Steps = {0, 1, 2}
SPECIFICATION Spec
INVARIANTS TablesExact EagerExact PMJExact LazyExact
