SPECIFICATION FairSpec
CONSTANTS
  w1 = w1
  w2 = w2
  w3 = w3
  e1 = e1
  t1 = t1
  t2 = t2
  t3 = t3
  t4 = t4
  Worker = {w1, w2, w3}
  Task = {e1, t1, t2, t3, t4}
  Endless = {e1}
  QueueSize = 2
  NoTask = NoTask
INVARIANTS NoLostWakeup FreedWhenQuiet
PROPERTIES ImplementsQueue AcceptedRuns DestroyEnds
CHECK_DEADLOCK FALSE
