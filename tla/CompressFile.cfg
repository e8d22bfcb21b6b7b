\* Reads of all sizes over inputs that take none, one and several reads of the file.
CONSTANTS
  kMtHashNumBlocks = 2
  kMtBtNumBlocks = 2
  MaxHashBlocks = 1000
  MaxBtBlocks = 1000
  MaxSessions = 1
  StreamLens = {0, 1, 9}
  ReadMayFail = TRUE
  historySize = 1
  keepAddBufferBefore = 0
  matchMaxLen = 2
  keepAddBufferAfter = 0
  numHashBytes = 2
  kMtHashBlockSize = 3
  kMtBtBlockSize = 3
  kBlockMoveAlign = 2
  Reserve = 2
  Sizes = {0, 3}
  CodeBlockSize = 2
  RcBufSize = 2
  WriteMayFail = TRUE
  FinalizerMayWait = TRUE
  InitialBlock = 2
  MaxBlock = 3
  Pieces = {0, 1, 2, 7}
  MaxBytes = 13
  GrowMayFail = TRUE
SPECIFICATION MCSpec
INVARIANTS
  OutputKept
  BufferKeepsAll
PROPERTIES
  CompressReturns
CHECK_DEADLOCK FALSE
