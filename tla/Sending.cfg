\* Two leechers that have what the other wants, and small buffers.
CONSTANTS
  a = a
  b = b
  i0 = i0
  i1 = i1
  i2 = i2
  Peer = {a, b}
  Piece = {i0, i1, i2}
  None = None
  Share <- MCShare
  Size = 2
  Capacity = 2
  MaxChanges <- MCMaxChanges
SPECIFICATION Spec
INVARIANTS TypeOK FewUnderWay
PROPERTY RequestsSettle
CHECK_DEADLOCK FALSE
