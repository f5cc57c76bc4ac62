CONSTANTS
  w1 = w1
  w2 = w2
  w3 = w3
  e1 = e1
  e2 = e2
  Worker = {w1, w2}
  Entry = {e1, e2}
  Dynamic = {e1}
  Can <- Ingests
  Fault = {"nft"}
  MaxFaults = 1
  None = None
SPECIFICATION Spec
INVARIANT
  FailedReloadIsRemembered
CHECK_DEADLOCK FALSE
