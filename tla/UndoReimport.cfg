SPECIFICATION Spec
CONSTANTS
  Items = {i1}
  Packaged = {i1}
  Values = {v1, v2}
  NoItem = NoItem
  NoStep = NoStep
  UNDO_LIMIT = 2
  OpKinds <- RecordedKinds
  MaxWrites = 1
  MaxCounter = 4
  MaxClock = 3
SYMMETRY ItemSymmetry
PROPERTY ImplementsWholeHistory
