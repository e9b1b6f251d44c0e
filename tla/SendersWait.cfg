\* Two leechers that have what the other wants, and buffers of half a PIECE.
CONSTANTS
  a = a
  b = b
  i0 = i0
  i1 = i1
  i2 = i2
  Peer = {a, b}
  Piece = {i0, i1, i2}
  None = None
  Share <- MCShare
  Size = 2
  Capacity = 1
  MaxChanges <- MCOneChange
SPECIFICATION Spec
INVARIANT NobodyWaitsInACircle
CHECK_DEADLOCK FALSE
