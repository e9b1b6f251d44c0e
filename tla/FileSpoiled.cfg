\* Two threads write and assemble the same pieces.
CONSTANTS
  Peer = {me, q1, q2}
  Me = me
  NumPieces = 2
  Piece <- MCPiece
  None = None
  MaxChokes = 2
  MaxFaults = 0
SPECIFICATION Spec
INVARIANT FileWhole
SYMMETRY NeighborSymmetry
CHECK_DEADLOCK FALSE
