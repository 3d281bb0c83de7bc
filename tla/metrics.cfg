SPECIFICATION FairSpec
CONSTANTS
  d1 = d1
  d2 = d2
  Deploys = {d1, d2}
  METRICS_KEEP = 2
  Limit = 1
  MaxClock = 2
  MaxTokens = 1
  MaxCrashes = 1
INVARIANTS
  TypeOK
  SparkIsReal
  OneOrphan
PROPERTIES
  PassEnds
