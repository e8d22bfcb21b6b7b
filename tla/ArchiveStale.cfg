CONSTANTS
  Headers <- AllHeaders
  AfterHeader = 1
  MaxFolders = 1
  MaxNum = 1
  MaxEntries = 1
  Ratio = 2
  ReadBlock = 3
  OutBlock = 4
  HeaderLen = 2
  Width = 2
  MaxBits = 1
  MemSizes = {}
  Orders = {}
  Texts = {}
  RangeBits = 30
  Originals = {}
  Pieces = {}
  Codes = {}
  CallSizes = {}
  Digit = 128
  RelatLimit = 268435456
SPECIFICATION Spec
INVARIANT ReturnsContent
