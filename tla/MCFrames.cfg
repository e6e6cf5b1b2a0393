CONSTANTS
  Base = 4
  SOF = 3
  MaxFrameLen = 3
  MaxDispatch = 2
  Table <- SmallTable
  MaxStream = 7
  Streams <- ManyStreams
SPECIFICATION FairSpec
INVARIANTS TypeOK ReadFits HeardExactly BackInStep
PROPERTIES AllHeard
