\* An object that is dropped while its input is being read.
CONSTANTS
  kMtHashNumBlocks = 2
  kMtBtNumBlocks = 2
  MaxHashBlocks = 1000
  MaxBtBlocks = 1000
  MaxSessions = 1
  StreamLens = {10}
  ReadMayFail = FALSE
  historySize = 1
  keepAddBufferBefore = 0
  matchMaxLen = 2
  keepAddBufferAfter = 0
  numHashBytes = 2
  kMtHashBlockSize = 3
  kMtBtBlockSize = 3
  kBlockMoveAlign = 2
  Reserve = 2
  Sizes = {0, 2}
  CodeBlockSize = 2
  RcBufSize = 1
  WriteMayFail = FALSE
  FinalizerMayWait = FALSE
SPECIFICATION CompressFairSpec
PROPERTIES
  DeallocReturns
CHECK_DEADLOCK FALSE
