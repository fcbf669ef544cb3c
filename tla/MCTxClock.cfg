SPECIFICATION Spec
CONSTANTS
  Senders = {x1, x2}
  Dests = {d1, d2}
  PerSecond = 2
  DaySeconds = 4
  Offsets = {0, 1}
  PageSize = 2
  PageLimit = 2
  MaxTicks = 8
  MaxBehind = 1
  MaxAhead = 1
SYMMETRY Symmetry
INVARIANTS
  TypeOK
  OnTheClock
  InStep
PROPERTIES
  PagesContiguous
CHECK_DEADLOCK FALSE
