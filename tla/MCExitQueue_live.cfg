SPECIFICATION FairSpec
CONSTANTS
  Handler = {h1, h2}
  Url = {u1}
  Ip = {i1}
  MaxVisits = 2
  MaxTries = 2
  Batch = 2
  Fault = {"down", "worker", "reply"}
  MaxFaults = 1
  None = None
PROPERTY RowsLeave
CHECK_DEADLOCK FALSE
