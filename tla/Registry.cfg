SPECIFICATION Spec
CONSTANTS
  Server = {me, other}
  MyID = me
  NoServer = noServer
  None = none
  Agent = {a1}
  Conn = {c1, c2}
  Remover = {r1}
SYMMETRY Symmetry
INVARIANTS
  SessionIsNewest
  SessionAlive
  OnlyAdminApproves
  ApprovedIsBound
  UninstallNeedsConsent
