SPECIFICATION FairSpec
CONSTANTS
  lease = lease
  audit = audit
  n1 = n1
  n2 = n2
  use = use
  clash = clash
  odd = odd
  Nodes = {n1, n2}
  Invariants = {lease, audit}
  Kinds = {use, clash, odd}
  Keys <- MCKeys
  States = {0, 1}
  NoPacket = NoPacket
  Filter <- MCFilter
  KeyOf <- MCKeyOf
  Locals <- MCLocals
  NegatedLocation <- MCNegated
  NumberOfChannels = 5
  StringHash <- MCStringHash
  QueueSize = 2
  Sees <- MCSees
  MaxPackets <- MCPackets
  ChannelsRead = 2
  HashRange = 1000
  GlobalStates = {0, 1, 2}
  GlobalStart <- MCStart
  GlobalFinals <- MCFinals
  GlobalMoves <- MCGlobalMoves
  MaxReruns = 1
INVARIANTS TypeOK InvariantsIndependent OnlyTheLastAreLost
PROPERTIES KeyedSpec EventuallyConsumed
CHECK_DEADLOCK FALSE
