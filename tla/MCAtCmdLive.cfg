CONSTANTS
  TableSize = 2
  MaxUsers = 1
  MaxSeq = 1
  MaxId = 4
  BuildTime = 1
  LocalTime = 1
  ReuseTime = 2
  QueryRegs <- ThreeRegs
  RefreshIdx = 1
  UserCommands <- Keys
  Networks = {n1}
  n1 = n1
  n2 = n2
  MaxChanges = 0
  MaxLost = 1
  MaxPending = 1
SPECIFICATION FairSpec
PROPERTIES RequestsEnd InitEnds
