SPECIFICATION FairSpec
CONSTANTS
  k1 = k1
  r1 = r1
  Tokens = {k1}
  NoToken = none
  Term = 2
  Boot = boot
  Loop = loop
  Requests = {r1}
  MaxVersion = 2
  Overlap = FALSE
INVARIANTS
  TypeOK
  HalfIsReplaced
  RunsInstalled
PROPERTIES
  KeepsPro
  RefundEnds
  PublishedArrives
