SPECIFICATION FairSpec
CONSTANTS
  u1 = u1
  u2 = u2
  Syncer = {s1, s2}
  Url = {u1, u2}
  RelayDefault = {u1}
  ExitDefault = {u2}
  Fault = {"abort", "phone"}
  MaxFaults = 1
  None = None
INVARIANTS TypeOK MixOfExports
PROPERTIES StaysRefused NewUrlServed
