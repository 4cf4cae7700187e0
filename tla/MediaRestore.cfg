SPECIFICATION Spec
CONSTANTS
  Clients = {c1, c2}
  Files = {1, 2}
  Contents = {x, y}
  Gone = Gone
  CHANGES_LIMIT = 2
  MAX_MEDIA_FILES_IN_ZIP = 1
  Races = {}
  Faults = {"GiveUp"}
  MaxEdits = 5
  MaxFaults = 1
INVARIANT ChangesAreMarked
SYMMETRY Symmetry
