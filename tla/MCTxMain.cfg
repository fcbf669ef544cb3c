SPECIFICATION FairSpec
CONSTANTS
  OPUS_AUTO <- Auto
  OPUS_BITRATE_MAX <- BitrateMax
  Lowest = 2
  Highest = 6
  KeyStep = 3
  MaxRate = 9
INVARIANTS
  SafeUntilShutdown
  BitrateInForce
PROPERTIES
  Ends
CHECK_DEADLOCK FALSE
