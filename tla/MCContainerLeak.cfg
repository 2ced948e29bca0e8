SPECIFICATION Spec
CONSTANTS
  Codes = {0, 1, 137}
  Killed = 137
CHECK_DEADLOCK FALSE
INVARIANT AlwaysRemoved
