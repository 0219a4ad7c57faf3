CONSTANTS
  c1 = c1
  c2 = c2
  n1 = n1
  n2 = n2
  A = A
  NEWLINE = NEWLINE
  SEEKTO = SEEKTO
  NUL = NUL
  ONE = ONE
  Number <- MCNumber
  NoConn = NoConn
  NoNode = NoNode
  Byte <- MCByte
  Conns = {c1, c2}
  Nodes = {n1, n2}
  Garbage <- MCGarbage
  MAX_WRITE_OPERATIONS = 2
  Messages <- MCSeeking
  WriteCmd = 0
  MAXBUFFER = 2
  MaxSent = 3
  MaxTotal = 3
SYMMETRY ServerSymmetry
SPECIFICATION Spec
CHECK_DEADLOCK FALSE
INVARIANTS TypeOK ConnectionsDoNotInterleave StoredIsWhatWasSent ElementsAreOwn
  FinishedElementsAreFree
PROPERTIES FirstReplyComplete SeekReplyIsCommand ImplementsSerialServer
