\* The receive threads of one peer with two neighbours and two pieces.
CONSTANTS
  Peer = {me, q1, q2}
  Me = me
  NumPieces = 2
  Piece <- MCPiece
  None = None
  MaxChokes = 2
  MaxFaults = 1
SPECIFICATION Spec
INVARIANTS TypeOK RequestsReserved RequestOwed ReadsBack AssembledInTheEnd DoneMeansAssembled InterestSettles
SYMMETRY NeighborSymmetry
CHECK_DEADLOCK FALSE
