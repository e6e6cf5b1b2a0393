CONSTANTS
  TableSize = 3
  MaxUsers = 1
  MaxSeq = 1
  MaxId = 6
  BuildTime = 1
  LocalTime = 1
  ReuseTime = 2
  QueryRegs <- ThreeRegs
  RefreshIdx = 1
  UserCommands <- Keys
  Networks = {n1, n2}
  n1 = n1
  n2 = n2
  MaxChanges = 2
  MaxLost = 1
  MaxPending = 2
SPECIFICATION Spec
INVARIANTS TypeOK  RightRequest QueryHasRequest AddressIsCurrent
SYMMETRY NetworkSymmetry
PROPERTIES RefreshRestarts
