\* Short streams that end or fail anywhere, and one a byte longer than the window
\* needs: it is moved while lz is anywhere behind.
CONSTANTS
  kMtHashNumBlocks = 2
  kMtBtNumBlocks = 2
  MaxHashBlocks = 1000
  MaxBtBlocks = 1000
  MaxSessions = 1
  StreamLens = {0, 1, 2, 6, 24}
  ReadMayFail = TRUE
  historySize = 1
  keepAddBufferBefore = 0
  matchMaxLen = 2
  keepAddBufferAfter = 0
  numHashBytes = 2
  kMtHashBlockSize = 3
  kMtBtBlockSize = 4
  kBlockMoveAlign = 2
  Reserve = 2
SPECIFICATION Spec
INVARIANTS
  WindowServes
  PointersFollowWindow
  DataInOrder
PROPERTIES
  ImplementsMatchFinder
