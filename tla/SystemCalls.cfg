CONSTANTS
  c1 = c1
  c2 = c2
  OLD = OLD
  Calls = {c1, c2}
  OldContents <- MCOldContents
  MaxPrints = 1
  MaxOutput = 2
SPECIFICATION FairSpec
CHECK_DEADLOCK FALSE
INVARIANTS TypeOK ExecTellsTruth NoChildLeft PrintedOnceButForFailedChildren
PROPERTIES EveryCallReturns OutputOverOldContent
