SPECIFICATION Spec
CONSTANTS
  s1 = s1
  w1 = w1
  w2 = w2
  t1 = t1
  h1 = h1
  None = None
  Sid = {s1}
  Ws = {w1, w2}
  Closer = {h1}
  Slot = {t1}
  MaxSession = 2
  MaxConn = 1
  MaxOut = 1
  MaxBuffer = 1
  ChanCap = 1
SYMMETRY TermSymmetry
CHECK_DEADLOCK FALSE
INVARIANTS OneBrowser NoSendOnClosed
