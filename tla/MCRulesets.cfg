SPECIFICATION Spec
CONSTANTS
  n1 = n1
  n2 = n2
  u1 = u1
  Name = {n1, n2}
  Path = {u1}
  Port = {1}
  Worker = {w1, w2, w3}
  Start <- States
  Backup <- Files
  MaxCommands = 3
  MaxKills = 2
  None = None
SYMMETRY Same
INVARIANTS TypeOK RefsExist DeletedStaysGone
PROPERTIES DeleteCleans ImportReplaces
CHECK_DEADLOCK FALSE
