SPECIFICATION Spec
CONSTANTS
  BufferSize = 4
  MaxWrite = 3
  ReadCount = 3
  MaxElements = 10
INVARIANTS
  TypeOK
  Available
  UnreadIntact
  NoDataRace
  ReadsInOrder
PROPERTIES
  ImplementsFifo
