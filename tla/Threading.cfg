CONSTANTS
  t1 = t1
  t2 = t2
  t3 = t3
  b1 = b1
  b2 = b2
  NoThread = NoThread
  NoBlock = NoBlock
  Threads = {t1, t2, t3}
  Blocks = {b1, b2}
  Checked = TRUE
SPECIFICATION FairSpec
CHECK_DEADLOCK FALSE
INVARIANTS TypeOK OnlyHolderWaits SuccessIsTrue BlocksAreOwn OnlyFailedStartsLoseBlocks
PROPERTIES ThreadsReturn
