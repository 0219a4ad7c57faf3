CONSTANTS
  t1 = t1
  t2 = t2
  f1 = f1
  f2 = f2
  A = A
  B = B
  NEWLINE = NEWLINE
  NUL = NUL
  UNINIT = UNINIT
  NoThread = NoThread
  NoFile = NoFile
  Byte <- MCByte
  Threads = {t1, t2}
  Files = {f1}
  MayUse <- MCShared
  Writable = {f1}
  Readable = {}
  MAX_WRITE_OPERATIONS = 2
  Payloads <- MCPayloads
  Counts = {}
  Seeks <- MCNoArgs
  Seektos <- MCNoArgs
  MaxBytes = 4
SPECIFICATION Spec
INVARIANTS EntrySizeIsBytesStored
