SPECIFICATION Spec
CONSTANTS
  Items = {i1, i2}
  Packaged = {}
  Values = {v1, v2}
  NoItem = NoItem
  NoStep = NoStep
  UNDO_LIMIT = 2
  OpKinds <- SkippingKinds
  MaxWrites = 1
  MaxCounter = 3
  MaxClock = 3
SYMMETRY ItemSymmetry
INVARIANT PendingImpliesChanged
