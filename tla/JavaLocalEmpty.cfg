SPECIFICATION Spec
CONSTANTS
  States = {0, 1, 2, 3}
  StartState = 0
  FinalStates = {}
  HasVariables = TRUE
  Moves <- LeaseMoves
  Kinds <- MCKinds
  Values = {v1, v2}
  Star = Star
  Times = {0, 1}
  MaxPackets = 5
  FilterKinds <- MCFilter
  NegatedLocation <- MCNegated
  PlainStates = {0, 1, 2}
  PlainStart = 0
  PlainMoves <- MCPlainMoves
  MaxRTT = 0
  Lateness = 1
  NoPacket = NoPacket
  NoTree = NoTree
  block = block
  allow = allow
  new = new
  other = other
  open = open
  use = use
  close = close
  v1 = v1
  v2 = v2
INVARIANT RootsNotEmpty
CHECK_DEADLOCK FALSE
