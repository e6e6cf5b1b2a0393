CONSTANTS
  TableSize = 2
  MaxUsers = 0
  MaxSeq = 2
  MaxId = 6
  BuildTime = 1
  LocalTime = 1
  ReuseTime = 2
  QueryRegs <- ThreeRegs
  RefreshIdx = 1
  UserCommands <- Keys
  Networks = {n1}
  n1 = n1
  n2 = n2
  MaxChanges = 1
  MaxLost = 0
  MaxPending = 1
SPECIFICATION FairSpec
PROPERTIES InitEnds
