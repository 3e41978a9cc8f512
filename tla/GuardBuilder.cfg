SPECIFICATION Spec
CONSTANTS
  eq1 = eq1
  eq2 = eq2
  Kinds = {1, 2, 3, 4}
  Comparisons = {eq1, eq2}
  Holds <- MCHolds
  Names = {"a!1", "a!2"}
  None = None
  MaxSteps = 8
INVARIANTS TypeOK FaithfulWithOwnNots
CHECK_DEADLOCK FALSE
