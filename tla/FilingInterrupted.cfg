SPECIFICATION Spec
CONSTANTS
  run1 = run1
  run2 = run2
  k1 = k1
  k2 = k2
  shared = shared
  Command = {run1, run2}
  Ledger = {shared}
  LedgerOf <- OneLedger
  LimitOf <- Limits
  N = 2
  Key = {k1, k2}
  KeyOf <- TwoKeys
  MaxIssues = 4
  MaxFaults = 1
INVARIANT NoRefile
CHECK_DEADLOCK FALSE
