SPECIFICATION Spec
CONSTANTS
  IntBits = 16
  DEFAULT_TABLE_SIZE = 64
  MAX_NV = 60
  DeflateMax = 110
  Sizes = {40, 150}
  HeaderLists <- MCHeaderLists
  RawBlocks <- MCRawBlocks
  MaxBlocks = 3
  MaxResizes = 2
  MaxPiece = 2
INVARIANTS HeadersIntact TablesInSync BlockResumable StringsFit
CHECK_DEADLOCK FALSE
