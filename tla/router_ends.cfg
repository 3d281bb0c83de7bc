SPECIFICATION FairSpec
CONSTANTS
  small = small
  middle = middle
  large = large
  c1 = c1
  c2 = c2
  t1 = t1
  t2 = t2
  Models = {small, middle, large}
  Pools = {"escalation", "advisor", "stage", "round_robin", "classifier"}
  Members <- MCThree
  Mode <- MCMode
  JudgeOf <- MCJudge
  Convs = {c1}
  NoConv = none
  Turns = {t1}
  Confirmations = 2
  MaxStreak = 5
  Mortal = {small, middle}
  Together = TRUE
  Shared = TRUE
  Fragile = TRUE
  NoModel = nomodel
  NoPool = nopool
INVARIANTS
  TypeOK
PROPERTIES
  TurnEnds
