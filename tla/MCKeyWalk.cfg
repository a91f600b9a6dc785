SPECIFICATION FairSpec
CONSTANTS
  Order = 23
  Keys <- AllKeys
  Base = 0
  RekeyMax = 11
  BatchSize = 3
CHECK_DEADLOCK FALSE
INVARIANTS ReportedIsTested Consecutive WholeBatch KeyChecks
PROPERTY KeyReplaced
