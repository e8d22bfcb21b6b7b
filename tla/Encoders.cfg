CONSTANTS
  Shift = 8
  ThreadsMax = 4
  Lzma2Given <- MCLzma2Given
  XzGiven <- MCXzGiven
  UnpackMax = 9
  CopyMax = 4
  PackMax = 6
  Packs = {5, 6, 7}
  CodedSizes = {3, 8}
  InSizes = {0, 1, 9, 18}
  BlockSizes = {9, 12, 100}
  Limits = {0, 8, 14, 15, 28, 100}
  Solid = 100
  B = 4
  Total = 8
  Step = 4
  Contexts = {c1}
  c1 = c1
  BufSize = 3
  Rooms = {5, 100}
  MaxBits = 6
  ByteBits = 2
  LenHighBits = 2
  SlotBits = 4
  AlignBits = 2
  EndSlot = 8
  LogBits = 4
  LitProps <- MCLitProps
  Histories <- MCHistories
  Lengths = {2, 5, 10, 18}
  Distances = {0, 3, 4, 6, 8, 13, 20}
  MaxSymbols = 2
  CompatDictSize = 24
  CompatRooms = {0, 3}
  Base = 2
  PosRange = 33
  HistorySize = 4
  FinderKinds <- MCKinds
  Inputs <- MCInputs
  CutValues = {1, 6}
  ReadPieces = {3}
  MatchMaxLen = 5
  WindowSize = 13
  KeepBefore = 5
  KeepAfter = 6
  MoveAlign = 2
  MtKinds = {2, 3, 4, 5}
  MtInputs <- MCMtInputs
  MtCutValues = {1, 6}
  MtMaxLen = 5
  HashBlockItems = 7
  BtBlockItems = 21
  MtKeepAfter = 12
  MaxAhead = 1
  ParseInputs <- MCParseInputs
  Seeds = {2, 5, 9}
  FastBytes = {3, 5}
  MatchLenMax = 7
  NumOpts = 12
  OptsEdge = 3
  FarBits <- MCFarBits
SPECIFICATION Spec
INVARIANTS
  PropsAreSound
  ChunksDecode
  BitsDecode
  CodingAgrees
  CompatDecodes
  MatchesFound
  ParserChooses
PROPERTIES
  ChunksEnd
  CarriesAreExact
