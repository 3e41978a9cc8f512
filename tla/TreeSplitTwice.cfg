SPECIFICATION Spec
CONSTANTS
  States = {0, 1, 2, 3}
  StartState = 0
  FinalStates = {3}
  HasVariables = TRUE
  Moves <- LeaseMoves
  Kinds <- LeaseKinds
  Values = {v1, v2}
  Star = Star
  Times = {0}
  MaxPackets = 4
  FilterKinds <- LeaseKinds
  MaxRTT = 0
  Lateness = 0
  NoPacket = NoPacket
  block = block
  allow = allow
  new = new
  other = other
  open = open
  use = use
  close = close
  v1 = v1
  v2 = v2
INVARIANT OneRootPerValue
CHECK_DEADLOCK FALSE
