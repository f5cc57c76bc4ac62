SPECIFICATION FairSpec
CONSTANTS
  Run = {r1, r2}
  Host = {h1}
  Net = {n1, n2}
  Answers <- OneAddress
  n1 = n1
  n2 = n2
  Edits = {"add", "delete", "keep", "mode"}
  MaxEdits = 2
  Fault = {"dns", "nft", "stop"}
  MaxFaults = 1
  None = None
INVARIANT TypeOK
 
