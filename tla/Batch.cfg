SPECIFICATION FairSpec
CONSTANTS
  N = 4
  Conc = 3
  OtpConc = 1
  Workers = {2, 3}
  Stagger = 1
INVARIANTS
  WidthsKept
PROPERTIES
  SessionsStaggered
  ImplementsFeed
  BatchEnds
CHECK_DEADLOCK FALSE
