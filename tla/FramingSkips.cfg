SPECIFICATION Spec
CONSTANTS
  PacketLength = 3
  BufferSize = 8
  ReadsFail = FALSE
  MaxRecords = 4
  NoByte = NoByte
INVARIANT PacketsAreRecords
CHECK_DEADLOCK FALSE
