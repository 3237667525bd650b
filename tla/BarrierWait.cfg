CONSTANTS
  Team = {t1, t2, t3}
  MaxRounds = 3
  NoOwner = NoOwner
SPECIFICATION WaitSpec
INVARIANT WaitInv
PROPERTY ImplementsBarrier
