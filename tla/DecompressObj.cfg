\* Streams with and without an end mark, with and without damage, in all pieces.
CONSTANTS
  NULL = NULL
  PropsLen = 2
  PayloadLen = 4
  MaxYield = 2
  BLOCK_SIZE = 2
  ChunkSizes = {0, 1, 2, 4, 6}
  BufSizes = {1, 3}
  MaxLengths = {2, 5}
  Marks = {0, 4}
  Damages = {0, 3}
  Surpluses = {0, 1}
  MayStartEmpty = FALSE
  MayFlushStale = FALSE
SPECIFICATION Spec
INVARIANTS
  BytesAccounted
  SoundInputAccepted
PROPERTIES
  ImplementsStreamDecoder
