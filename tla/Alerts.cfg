SPECIFICATION FairSpec
CONSTANTS
  a1 = a1
  c1 = c1
  Engine = Engine
  r1 = r1
  Reader = {r1}
  Reported = {"net_spike"}
  Agent = {a1}
  Channel = {c1}
  Rules <- MCRules
  MaxAlerts = 3
CHECK_DEADLOCK FALSE
INVARIANTS AlertIsRemembered NotifiedOnce
PROPERTIES AlertFollowsAgent
