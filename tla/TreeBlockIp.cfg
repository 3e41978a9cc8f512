SPECIFICATION FairSpec
CONSTANTS
  States = {0, 1, 2}
  StartState = 0
  FinalStates = {2}
  HasVariables = TRUE
  Moves <- BlockIpMoves
  Kinds <- BlockIpKinds
  Values = {v1}
  Star = Star
  Times = {0, 1}
  MaxPackets = 4
  FilterKinds <- BlockIpKinds
  MaxRTT = 0
  Lateness = 0
  NoPacket = NoPacket
  block = block
  allow = allow
  new = new
  other = other
  open = open
  use = use
  close = close
  v1 = v1
  v2 = v2
INVARIANTS
  NoPacketMeetsAnEmptyTree
  StarOnlyFirst
PROPERTIES
  MonitorSpec
  EventuallyProcessed
CHECK_DEADLOCK FALSE
