\* Safety of the handshakes: both rings of their smallest size, two sessions.
CONSTANTS
  kMtHashNumBlocks = 2
  kMtBtNumBlocks = 2
  MaxHashBlocks = 4
  MaxBtBlocks = 4
  MaxSessions = 2
SPECIFICATION SyncSpec
INVARIANTS
  TypeOK
  MoveExcludesReaders
  NoLostPost
  NoOverwrite
  StopStopsBoth
