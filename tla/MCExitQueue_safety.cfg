SPECIFICATION Spec
CONSTANTS
  Handler = {h1, h2}
  Url = {u1}
  Ip = {i1, i2}
  MaxVisits = 2
  MaxTries = 2
  Batch = 2
  Fault = {"reply", "worker", "locked", "phone", "down", "age"}
  MaxFaults = 1
  None = None
SYMMETRY Symmetric
INVARIANTS TypeOK VisitHonoured HitsNotInvented
CHECK_DEADLOCK FALSE
