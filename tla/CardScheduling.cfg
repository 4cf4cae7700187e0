SPECIFICATION Spec
CONSTANTS
  Cards = {1, 2}
  Note <- OneNote
  Normal = {d1, d2}
  Filtered = {f1}
  DefaultDeck = d1
  Children <- MCChildren
  BuryModes <- MCBuryModes
  Delays = {1, 3}
  Intervals = {1}
  Positions = {0, 1}
  Starts <- MCStarts
  Epoch = 100
  DayLen = 3
  FirstDay = 0
  FilteredStart <- MCFilteredStart
  Times = {100, 103}
  MaxSteps = 4
  None = None
CHECK_DEADLOCK FALSE
INVARIANTS TypeOK LentCardsHaveAHome QueueMatchesDue
PROPERTY ImplementsSchedule
