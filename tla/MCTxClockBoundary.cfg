SPECIFICATION Spec
CONSTANTS
  Senders = {x1}
  Dests = {d1}
  PerSecond = 2
  DaySeconds = 4
  Offsets = {0}
  PageSize = 2
  PageLimit = 2
  MaxTicks = 13
  MaxBehind = 1
  MaxAhead = 1
PROPERTIES
  StartsPastBoundary
CHECK_DEADLOCK FALSE
