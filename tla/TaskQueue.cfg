CONSTANTS
  t1 = t1
  t2 = t2
  t3 = t3
  a = a
  b = b
  c = c
  None = None
  Threads <- MCThreads
  Tasks <- MCTasks
  alloc_size = 1
  MaxBlocks = 3
SPECIFICATION Spec
SYMMETRY Symm
INVARIANT QueueInv
PROPERTY ImplementsStack
