SPECIFICATION Spec
CONSTANTS
  Clients = {c1, c2}
  Cards = {k1}
  Decks = {d1}
  NoClient = NoClient
  NotGathered = NotGathered
  CHUNK_SIZE = 1
  EditKinds <- AllKinds
  Faults = {}
  Overlap = FALSE
  MsPerSec = 1
  MaxEdits = 3
  MaxNow = 5
SYMMETRY ClientSymmetry
INVARIANTS TypeOK NoResurrection SyncConverges
PROPERTY NewestKept
