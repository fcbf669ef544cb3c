SPECIFICATION FairSpec
CONSTANTS
  nElements = 12
  TimeMod = 32768
  PacketTime = 241
  Offsets <- MCOffsets
  Jitter = 1
  MaxPackets = 2
  MaxLost = 2
  MaxOff = 1
INVARIANTS
  TotalIsSum
  NeverStuck
PROPERTIES
  Settles
  AsInStreamTable
