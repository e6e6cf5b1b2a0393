CONSTANTS
  Mask = 7
  AssertBytes = 3
  Slack = 1
  Burst = 1
  Reads = {1, 3}
  MaxBytes = 9
SPECIFICATION FairSpec
INVARIANTS TypeOK NoDrop InOrder
PROPERTIES ImplementsFifo RtsReasserted
