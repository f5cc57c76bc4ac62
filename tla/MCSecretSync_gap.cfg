SPECIFICATION Spec
CONSTANTS
  u1 = u1
  u2 = u2
  Syncer = {s1}
  Url = {u1}
  RelayDefault = {}
  ExitDefault = {}
  Fault = {}
  MaxFaults = 0
  None = None
PROPERTY KeepsServing
