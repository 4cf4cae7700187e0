SPECIFICATION Spec
CONSTANTS
  Clients = {c1, c2}
  Files = {1, 2}
  Contents = {x, y}
  Gone = Gone
  CHANGES_LIMIT = 2
  MAX_MEDIA_FILES_IN_ZIP = 1
  Races = {}
  Faults = {"AnswerLost"}
  MaxEdits = 4
  MaxFaults = 1

INVARIANT RemovedFilesAreGone

SYMMETRY Symmetry
CHECK_DEADLOCK FALSE
