SPECIFICATION FairSpec
CONSTANTS
  Id = {i1, i2}
  Commands <- MCCommands
  QuickWait = 1
  Slack = 1
  Interval = 2
  ReadDeadline = 4
  Nil = Nil
INVARIANTS OwnAnswer SlackIsEnough 
PROPERTIES ReaderGoesOn RequestReturns
CHECK_DEADLOCK FALSE
