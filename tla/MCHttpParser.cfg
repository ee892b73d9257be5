SPECIFICATION Spec
CONSTANTS
  MaxHeaderSize = 115
  ULLONG_MAX = 999
  MaxPiece = 3
  Streams <- MCStreams
INVARIANTS
  Resumable
  ParsesWhatWasSent
CHECK_DEADLOCK FALSE
