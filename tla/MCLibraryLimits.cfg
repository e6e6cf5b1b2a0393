CONSTANTS
  \* Veeprom
  DataLen = 2
  Bits = {"b0", "b1"}
  MaxWrites = 3
  MaxResets = 2
  Careful = TRUE
  \* Clock
  HZ = 2
  Half = 8
  Tops = 2
  Task = 2
  Delays = {1, 3}
  Periods = {2}
  \* Conversations
  Slots = 2
  Ids = 2
  Secs = 8
  Cells = {c1, c2}
  AddrWait = 2
  CallWait = 3
  Gap = 1
  MaxSerial = 3
  \* Zigbee
  Table <- Tables
  Starts <- AllStarts
  \* Xmodem
  Blocks = 4
  Numbers = 4
  Tries = 3
  Room = 2
  \* ZclAttributes
  Attributes <- AttributeTable
  Size = 1
  ByteSpan = 8
  Records <- WriteRecords
  MaxRecords = 2
  MaxNow = 1
SPECIFICATION LibrarySpec
INVARIANTS LimitsHold
CHECK_DEADLOCK FALSE
