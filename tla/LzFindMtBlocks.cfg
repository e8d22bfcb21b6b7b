\* Streams that end or fail anywhere, under fairness; in that of 33 bytes the window of
\* 27 is moved several times.  A bt block is of one position, a hash block of three.
CONSTANTS
  kMtHashNumBlocks = 2
  kMtBtNumBlocks = 2
  MaxHashBlocks = 1000
  MaxBtBlocks = 1000
  MaxSessions = 1
  StreamLens = {0, 1, 2, 6, 33}
  ReadMayFail = TRUE
  historySize = 1
  keepAddBufferBefore = 0
  matchMaxLen = 2
  keepAddBufferAfter = 0
  numHashBytes = 2
  kMtHashBlockSize = 5
  kMtBtBlockSize = 3
  kBlockMoveAlign = 2
  Reserve = 2
SPECIFICATION FairSpec
PROPERTIES
  CallsReturn
