SPECIFICATION FairSpec
CONSTANTS
  PacketLength = 3
  BufferSize = 8
  ReadsFail = TRUE
  MaxRecords = 4
  NoByte = NoByte
INVARIANTS
  TypeOK
  
  CutsCostOnePacket
PROPERTIES
  WholePieces
  EventuallyParsed
CHECK_DEADLOCK FALSE
