SPECIFICATION FairSpec
CONSTANTS
  BufferSize = 4
  MaxWrite = 2
  ReadCount = 2
INVARIANTS
  TypeOK
  SaneUnlessOverlap
PROPERTIES
  Recovers
CHECK_DEADLOCK FALSE
