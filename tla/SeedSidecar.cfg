SPECIFICATION Spec
CONSTANTS
  N = 2
  NoData = {}
  Other = {}
  Commands <- OneOfEach
  Workers = 1
  Pool = 2
  MaxRuns = 2
INVARIANT SidecarFound
CHECK_DEADLOCK FALSE
