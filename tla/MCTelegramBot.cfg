SPECIFICATION FairSpec
CONSTANTS
  Name = {a}
  Id = {1}
  Rule = {p}
  Message = {m1, m2}
  Lists = {"ruleset", "source", "secret", "ddns"}
  Asked = {"ddns_add", "log_filter"}
  Texts = {"start", "good"}
  MaxUpdates = 4
  MaxInbox = 2
  Fault = {"relay", "edit", "lost", "restart", "other"}
  MaxFaults = 1
  None = None
INVARIANT TypeOK
PROPERTIES HandledInOrder OnlySelectedDeleted EveryUpdateHandled
CHECK_DEADLOCK FALSE
