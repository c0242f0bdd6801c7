SPECIFICATION Spec
CONSTANTS
  Versions = {1, 2}
  Flows = 3
  Forges = 2
  Beside = 2
  Refusing = {2}
CHECK_DEADLOCK FALSE
INVARIANTS NothingStale ForgeIsOne
