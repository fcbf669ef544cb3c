SPECIFICATION FairSpec
CONSTANTS
  N = 2
  Serials = {1, 2, 3, 5}
  SerialMod = 4
  MaElements = 2
  Timeout = 2
  SelectTimeout = 2
  MaxAge = 3
INVARIANTS
  TypeOK
  UniqueIds
  OsMatches
  TunedByOwnPages
  FreeSlotsFresh
PROPERTIES
  KilledTogether
  PagesTaken
  AllFreed
CHECK_DEADLOCK FALSE
