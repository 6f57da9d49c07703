SPECIFICATION ForwardFairSpec
CONSTANTS
  f1 = f1
  f2 = f2
  c1 = c1
  c2 = c2
  x1 = x1
  j1 = j1
  NoId = NoId
  Fwd = {f1, f2}
  Cid = {c1, c2}
  Ctx = {x1}
  ConnSlot = {j1}
  MaxData = 1
  Users <- MCUsers
CHECK_DEADLOCK FALSE
INVARIANT ListedIsOpen
 
