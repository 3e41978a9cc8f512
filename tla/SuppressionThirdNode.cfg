SPECIFICATION Spec
CONSTANTS
  Kinds = {a, b, c}
  Filter = {a, b, c}
  Locations = {x}
  States = {0, 1, 2}
  Start = 0
  Finals = {2}
  Moves <- HandoverMoves
  Nodes = {n1, n2, n3}
  a = a
  b = b
  c = c
  d = d
  x = x
INVARIANTS
  OnlySuppressibleIsSuppressed
