SPECIFICATION Spec
CONSTANTS
  Clients = {c1, c2}
  Cards = {k1}
  Decks = {}
  NoClient = NoClient
  NotGathered = NotGathered
  CHUNK_SIZE = 1
  EditKinds <- SchemaKinds
  Faults <- NetworkFaults
  Overlap = FALSE
  MsPerSec = 1
  MaxEdits = 3
  MaxNow = 6
SYMMETRY ClientSymmetry
INVARIANTS SessionExclusive NothingLost UpToDate
