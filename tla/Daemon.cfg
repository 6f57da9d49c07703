SPECIFICATION FairSpec
CONSTANTS
  Service = service
  Direct = direct
  Hosts <- MCHosts
  MaxFaults = 1
  Nil = Nil
INVARIANTS KeepsItsAddress
PROPERTIES CleanExit LocksAreGivenBack ComesBack
CHECK_DEADLOCK FALSE
