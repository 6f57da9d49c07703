SPECIFICATION ChannelFairSpec
CONSTANTS
  main = main
  t1 = t1
  t2 = t2
  p1 = p1
  p2 = p2
  mu = mu
  Nobody = Nobody
  MainLoop = main
  TermReader = {t1}
  PfReader = {p1, p2}
  SendMu = mu
  MaxFrames = 1
CHECK_DEADLOCK FALSE
INVARIANTS SameLockIntact
PROPERTY AllSent
