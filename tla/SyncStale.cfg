SPECIFICATION Spec
CONSTANTS
  Clients = {c1, c2}
  Cards = {k1}
  Decks = {}
  NoClient = NoClient
  NotGathered = NotGathered
  CHUNK_SIZE = 1
  EditKinds <- UpdateKinds
  Faults = {}
  Overlap = TRUE
  MsPerSec = 1
  MaxEdits = 4
  MaxNow = 7
SYMMETRY ClientSymmetry
INVARIANT UpToDate
