SPECIFICATION FairSpec
CONSTANTS
  CACHE_SECS = 1
  Faults = {"MediaOpen"}
  MaxNow = 2
  MaxVersion = 0
PROPERTIES CallsReturn
CHECK_DEADLOCK FALSE
