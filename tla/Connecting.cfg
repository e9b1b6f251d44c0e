\* Short bytes and numbers: 3 bits in a byte, 2 bytes in a number.
CONSTANTS
  NumPieces = 4
  ByteBits = 3
  Base = 8
  Width = 2
  Padding = 2
  Header <- MCHeader
  MyId = 1
  Downloader = {d1, d2}
  Downloads = {1, 3}
SPECIFICATION Spec
INVARIANTS TypeOK ViewConverges ViewTrue ClosedByEarlyHave
PROPERTY ImplementsStream
CHECK_DEADLOCK FALSE
