SPECIFICATION Spec
CONSTANTS
  N = 2
  Serials = {1, 2, 3}
  SerialMod = 4
  MaElements = 2
  Timeout = 2
  SelectTimeout = 2
  MaxAge = 3
INVARIANTS
  FullOnlyOfLiving
CHECK_DEADLOCK FALSE
