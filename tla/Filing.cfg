SPECIFICATION FairSpec
CONSTANTS
  run1 = run1
  run2 = run2
  k1 = k1
  k2 = k2
  shared = shared
  Command = {run1, run2}
  Ledger = {shared}
  LedgerOf <- OneLedger
  LimitOf <- Limits
  N = 3
  Key = {k1, k2}
  KeyOf <- SameKeys
  MaxIssues = 4
  MaxFaults = 2
INVARIANT LedgerTruthful
INVARIANT RefileBound
INVARIANT FinishComplete
PROPERTY EveryKeyFiled
CHECK_DEADLOCK FALSE
