SPECIFICATION Spec
CONSTANTS
  d1 = d1
  d2 = d2
  d3 = d3
  p1 = p1
  p2 = p2
  t1 = t1
  Deploys = {d1, d2, d3}
  ModelOf <- MCModelOf
  Mortal = {d1}
  Pools <- MCPools
  Names = {"small", "large"}
  Lists <- MCLists
  Threads = {t1}
  MaxCrashes = 1
  NoPool = nopool
  NoName = noname
CHECK_DEADLOCK FALSE
INVARIANTS
  TypeOK
  NamesApart
  StoredAsMeant
  LadderIsPrefix
  RefusedIsGone
