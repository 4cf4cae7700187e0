SPECIFICATION FairSpec
CONSTANTS
  Clients = {c1, c2}
  Files = {1, 2}
  Contents = {x, y}
  Gone = Gone
  CHANGES_LIMIT = 2
  MAX_MEDIA_FILES_IN_ZIP = 1
  Races = {}
  Faults = {"GiveUp", "AnswerLost", "ServerCrash"}
  MaxEdits = 3
  MaxFaults = 1
INVARIANTS TypeOK SeenIsKept
PROPERTIES PendingUntilStored Converges
