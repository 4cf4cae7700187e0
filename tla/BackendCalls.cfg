SPECIFICATION FairSpec
CONSTANTS
  CACHE_SECS = 1
  Faults = {"MediaOpen", "Reopen"}
  MaxNow = 3
  MaxVersion = 1
INVARIANTS TypeOK StatusIsCurrent
PROPERTIES OnlyTheDeadBlock NoStrayInterrupt
CHECK_DEADLOCK FALSE
