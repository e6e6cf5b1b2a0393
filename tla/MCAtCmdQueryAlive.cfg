CONSTANTS
  TableSize = 2
  MaxUsers = 1
  MaxSeq = 2
  MaxId = 6
  BuildTime = 2
  LocalTime = 2
  ReuseTime = 2
  QueryRegs <- ThreeRegs
  RefreshIdx = 1
  UserCommands <- Keys
  Networks = {n1, n2}
  n1 = n1
  n2 = n2
  MaxChanges = 2
  MaxLost = 1
  MaxPending = 2
SPECIFICATION Spec
INVARIANTS QueryAlive
