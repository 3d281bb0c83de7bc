SPECIFICATION FairSpec
CONSTANTS
  w1 = w1
  w2 = w2
  w3 = w3
  Workers = {w1, w2, w3}
  Limit = 2
  Slow = FALSE
  MaxCrashes = 1
INVARIANTS
  TypeOK
  OneHolderUntilCrash
  LeftLockIsBroken
PROPERTIES
  WaitEnds
