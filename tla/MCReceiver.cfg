SPECIFICATION FairSpec
CONSTANTS
  N = 2
  Serials = {1, 2}
  RingBlocks = 1
  MaxPages = 2
  MaxTraffic = 2
INVARIANTS
  TypeOK
  ForeignNeedsOverlap
PROPERTIES
  MixedInOrder
  Drained
