SPECIFICATION Spec
CONSTANTS
  Clients = {c1, c2}
  Cards = {k1}
  Decks = {}
  NoClient = NoClient
  NotGathered = NotGathered
  CHUNK_SIZE = 1
  EditKinds <- MergeKinds
  Faults = {}
  Overlap = FALSE
  MsPerSec = 1
  MaxEdits = 2
  MaxNow = 3
PROPERTY AbortIgnoresOthers
