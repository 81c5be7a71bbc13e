\* Two jobs of one cell, one page with a question under way, one restart.
CONSTANTS
  j1 = j1
  j2 = j2
  c1 = c1
  Null = Null
  Job <- MCJob
  Case <- MCCase
  Cell <- MCCell
  Pipeline <- MCPipeline
  Watched <- MCWatched
  MaxPolls = 1
  LastSecond = 1
  MaxRestarts = 1
SPECIFICATION Spec
INVARIANTS
  TypeOK
  DoneIsWhole
  EndedPageSawAll
  ReportsOfOwnRun
PROPERTIES
  PageSeesEnd
\* A tab that is closed and a server without jobs do nothing more.
CHECK_DEADLOCK FALSE
