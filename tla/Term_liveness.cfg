SPECIFICATION FairSpec
CONSTANTS
  s1 = s1
  w1 = w1
  w2 = w2
  t1 = t1
  None = None
  Sid = {s1}
  Ws = {w1, w2}
  Closer = {}
  Slot = {t1}
  MaxBuffer = 1
  ChanCap = 1
  MaxSession = 1
  MaxConn = 2
  MaxOut = 0
CHECK_DEADLOCK FALSE
PROPERTIES EndReachesBrowser DetachedIsRemoved
