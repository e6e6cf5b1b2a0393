CONSTANTS
  TableSize = 2
  MaxUsers = 2
  MaxSeq = 2
  MaxId = 6
  BuildTime = 1
  LocalTime = 1
  ReuseTime = 2
  QueryRegs <- ThreeRegs
  RefreshIdx = 1
  UserCommands <- Keys
  Networks = {n1}
  n1 = n1
  n2 = n2
  MaxChanges = 2
  MaxLost = 0
  MaxPending = 2
SPECIFICATION Spec
INVARIANTS OneQuery
