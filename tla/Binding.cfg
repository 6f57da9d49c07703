SPECIFICATION BindingFairSpec
CONSTANTS
  s1 = s1
  s2 = s2
  a1 = a1
  a2 = a2
  a3 = a3
  Server = {s1, s2}
  Addr = {a1, a2, a3}
  Loopback = Loopback
  None = None
  MaxHosts = 1
  MaxFaults = 3
INVARIANTS BoundByApproval
PROPERTIES BindingIsFinal 
