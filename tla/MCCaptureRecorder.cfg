SPECIFICATION FairSpec
CONSTANTS
  Config <- Settings
  SegmentRows = 3
  Overhead = 1
  Reserve = 1
  PageRows = 1
  Fault = {"error", "kill", "full", "dump", "stop"}
  MaxFaults = 1
  MaxPackets = 4
  MaxChanges = 1
  None = None
INVARIANTS TypeOK RecordsOnDisk WithinBudget PagesFit
PROPERTY FollowsSettings
