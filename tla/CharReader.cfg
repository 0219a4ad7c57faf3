CONSTANTS
  t1 = t1
  t2 = t2
  f1 = f1
  f2 = f2
  A = A
  B = B
  NEWLINE = NEWLINE
  NUL = NUL
  UNINIT = UNINIT
  NoThread = NoThread
  NoFile = NoFile
  Byte <- MCByte
  Threads = {t1, t2}
  Files = {f1, f2}
  MayUse <- MCPrivate
  Writable = {f1}
  Readable = {f2}
  MAX_WRITE_OPERATIONS = 2
  Payloads <- MCPieces
  Counts = {1, 2}
  Seeks <- MCOneSeek
  Seektos <- MCOneSeekto
  MaxBytes = 3
SPECIFICATION FairSpec
INVARIANTS TypeOK RingConsistent FoundEntryStaysValid FindEntryAgrees
PROPERTIES ReadReturnsSlice ReadsMoveForward ImplementsAtomicDevice CallsReturn
