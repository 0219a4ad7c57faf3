CONSTANTS
  c1 = c1
  c2 = c2
  OLD = OLD
  Calls = {c1, c2}
  OldContents <- MCOldContents
  MaxPrints = 1
  MaxOutput = 2
SPECIFICATION Spec
CHECK_DEADLOCK FALSE
INVARIANTS RedirectTellsTruth
