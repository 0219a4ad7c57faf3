CONSTANTS
  c1 = c1
  c2 = c2
  A = A
  NEWLINE = NEWLINE
  SEEKTO = SEEKTO
  NUL = NUL
  NoConn = NoConn
  Server = Server
  LISTEN = LISTEN
  Byte <- MCByte
  Conns = {c1, c2}
  Number <- MCNumber
  Garbage <- MCGarbage
  MAX_WRITE_OPERATIONS = 2
  Messages <- MCLines
  MAXBUFFER = 2
  MaxSent = 3
  MaxTotal = 3
SYMMETRY ConnSymmetry
SPECIFICATION Spec
CHECK_DEADLOCK FALSE
INVARIANTS TypeOK StoredIsWhatWasSent WholeLinesStayWhole ConnectionHeldByOwnChild
PROPERTIES ReplyIsWhole
