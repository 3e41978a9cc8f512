SPECIFICATION FairSpec
CONSTANTS
  States = {0, 1, 2}
  StartState = 0
  FinalStates = {2}
  HasVariables = FALSE
  Moves <- MCMoves
  Kinds <- MCKinds
  Values = {v1}
  Star = Star
  Times = {0, 1, 2, 3}
  MaxPackets = 4
  FilterKinds = {open, close, other}
  MaxRTT = 2
  Lateness = 2
  NoPacket = NoPacket
  open = open
  close = close
  other = other
  noise = noise
  v1 = v1
INVARIANTS
  TypeOK
  ProcessedInOrder
  HeldBackExactly
PROPERTIES
  MonitorSpec
  EventuallyProcessed
CHECK_DEADLOCK FALSE
