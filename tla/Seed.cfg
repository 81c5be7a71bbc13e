SPECIFICATION FairSpec
CONSTANTS
  N = 4
  NoData = {2}
  Other = {3}
  Commands <- AllCommands
  Workers = 2
  Pool = 2
  MaxRuns = 2
INVARIANT OneTrace
INVARIANT LedgerTruthful
INVARIANT ReturnTells
PROPERTY CampaignEnds
CHECK_DEADLOCK FALSE
