SPECIFICATION Spec
CONSTANTS
  small = small
  middle = middle
  large = large
  c1 = c1
  c2 = c2
  t1 = t1
  t2 = t2
  Models = {small, large}
  Pools = {"escalation", "advisor"}
  Members <- MCTwo
  Mode <- MCMode
  JudgeOf <- MCNoJudge
  Convs = {c1, c2}
  NoConv = none
  Turns = {t1, t2}
  Confirmations = 2
  MaxStreak = 2
  Mortal = {large}
  Together = FALSE
  Shared = FALSE
  Fragile = TRUE
  NoModel = nomodel
  NoPool = nopool
SYMMETRY Symmetry
INVARIANTS
  StrongIsPinned
PROPERTIES
  LatchSpec
