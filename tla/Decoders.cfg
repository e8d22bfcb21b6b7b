CONSTANTS
  Streams <- MCStreams
  Chunks <- MCChunks
  MaxChunks = 2
  DicSize = 3
  BufSizes = {4}
  BufSize = 3
  W = 5
  RcInit = 2
  Required = 3
  InSizes = {0, 1, 5}
  OutSizes = {0, 1, 5}
SPECIFICATION Spec
INVARIANTS
  LzmaDecodes
  Lzma2Decodes
  ParseAgrees
PROPERTY GoingOnGetsAll
