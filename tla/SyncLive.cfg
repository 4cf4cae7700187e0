SPECIFICATION FairSpec
CONSTANTS
  Clients = {c1}
  Cards = {k1, k2}
  Decks = {d1}
  NoClient = NoClient
  NotGathered = NotGathered
  CHUNK_SIZE = 1
  EditKinds <- AllKinds
  Faults <- StopFaults
  Overlap = FALSE
  MsPerSec = 1
  MaxEdits = 2
  MaxNow = 4
PROPERTY PendingIsSent
