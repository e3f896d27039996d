SPECIFICATION StreamFairSpec
CONSTANTS
  Laps = 1
  MaxBlocks = 3
  MaxFaults = 2
PROPERTIES StreamReconstructed
CHECK_DEADLOCK FALSE
