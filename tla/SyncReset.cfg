SPECIFICATION Spec
CONSTANTS
  Clients = {c1, c2}
  Cards = {k1}
  Decks = {}
  NoClient = NoClient
  NotGathered = NotGathered
  CHUNK_SIZE = 1
  EditKinds <- ResetKinds
  Faults = {}
  Overlap = FALSE
  MsPerSec = 1
  MaxEdits = 3
  MaxNow = 6
INVARIANT SyncConverges
