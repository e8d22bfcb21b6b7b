CONSTANTS
  Headers <- AllHeaders
  AfterHeader = 1
  MaxFolders = 2
  MaxNum = 2
  MaxEntries = 5
  Ratio = 2
  ReadBlock = 3
  OutBlock = 4
  HeaderLen = 2
  Width = 3
  MaxBits = 8
  MemSizes = {2047, 2048, 5000}
  Orders = {1, 2, 4}
  Texts <- SomeTexts
  RangeBits = 30
  Originals <- SomeOriginals
  Pieces = {1, 3, 6, 13}
  Codes <- SomeCodes
  CallSizes = {1, 3}
  Digit = 128
  RelatLimit = 268435456
SPECIFICATION Spec
INVARIANTS
  HeaderLeadsToFiles
  FilesAreRead
  PpmdDecodes
  FiltersInvert
  Bcj2Inverts
PROPERTIES
  ReadEnds
