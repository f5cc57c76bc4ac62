SPECIFICATION FairSpec
CONSTANTS
  p1 = p1
  p2 = p2
  h1 = h1
  h2 = h2
  a1 = a1
  a2 = a2
  b1 = b1
  Proc = {p1, p2}
  Can <- UserAndTimer
  Port = {1, 2}
  Host = {h1, h2}
  Pool <- TwoHosts
  Fixed = {}
  Policy = {1}
  MaxRules = 2
  MaxCommands = 3
  Fault = {"dns", "nft", "conf", "stop"}
  MaxFaults = 1
  None = None
INVARIANTS TypeOK OneRulePerPort AddressBelongsToHost SelectedExist TableMatchesBook
PROPERTIES ImplementsRuleBook CommandsEnd AddressesFollow
