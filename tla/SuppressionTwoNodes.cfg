SPECIFICATION Spec
CONSTANTS
  Kinds = {a, b, c, d}
  Filter = {a, b, c, d}
  Locations = {x}
  States = {0, 1, 2, 3, 4}
  Start = 0
  Finals = {3, 4}
  Moves <- RelayMoves
  Nodes = {n1, n2}
  a = a
  b = b
  c = c
  d = d
  x = x
INVARIANTS
  TypeOK
  SameAlerts
  LocationTracksInstance
  LocationDropsAreSafe
PROPERTIES
  AbstractSpec
