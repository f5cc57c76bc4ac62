CONSTANTS
  w1 = w1
  w2 = w2
  w3 = w3
  e1 = e1
  e2 = e2
  Worker = {w1, w2, w3}
  Entry = {e1}
  Dynamic = {e1}
  Can <- Roles
  Fault = {"nft", "conf", "kill", "reboot", "expiry"}
  MaxFaults = 1
  None = None
SPECIFICATION FairSpec
INVARIANTS
  TypeOK
  DivergenceExplained
  BootMatchesLive
  RevokedIsDropped
PROPERTIES
  
  DroppedClientRepaired
  PendingWorkedOff
CHECK_DEADLOCK FALSE
